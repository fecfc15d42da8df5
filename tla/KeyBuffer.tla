------------------------------ MODULE KeyBuffer ------------------------------
(***************************************************************************)
(* The keyboard input buffer of kernel/core/interrupt.c: keyboard_handler()*)
(* (IRQ1) appends translated keys to key_buffer, getchar() in the          *)
(* foreground waits with hlt until key_buffer_pos is non-zero, takes       *)
(* key_buffer[0] and shifts the rest down.  Nothing masks interrupts around *)
(* either.                                                                 *)
(*                                                                         *)
(* getchar() is reached through sys_read() in the int 0x80 handler, whose  *)
(* gate (type 0x8E) is an interrupt gate: the CPU clears IF on entry.  The *)
(* assembly stub is not in the tree; IFInSyscall says whether it sets IF   *)
(* again.  When it does not, no IRQ is taken while getchar() runs.         *)
(*                                                                         *)
(* Scancode translation is abstracted to the key it yields: scancodes the  *)
(* keymap sends to 0 change nothing and are left out.  The echo to the     *)
(* console is left out.                                                    *)
(***************************************************************************)
EXTENDS Integers, Sequences

CONSTANTS
  Keys,         \* the non-zero characters keymap[] produces
  BS,           \* '\b', a member of Keys
  NUL,          \* '\0'
  BufSize,      \* sizeof(key_buffer)
  MaxPresses,   \* bound on the number of key presses
  IFInSyscall   \* the int 0x80 stub re-enables interrupts

ASSUME BS \in Keys /\ NUL \notin Keys /\ BufSize \in Nat \ {0, 1}
ASSUME IFInSyscall \in BOOLEAN

VARIABLES
  key_buffer, key_buffer_pos,
  gpc,        \* getchar()'s program counter
  gi,         \* getchar()'s shift loop index
  gidx,       \* getchar()'s decremented key_buffer_pos, held in a register
  gc,         \* the character getchar() took
  presses,    \* key presses so far
  queue,      \* the keys the buffer should hold, in order
  expected,   \* the keys getchar() should have returned, in order
  returned    \* the keys getchar() did return, in order

vars == <<key_buffer, key_buffer_pos, gpc, gi, gidx, gc, presses, queue, expected, returned>>

Idx == 0..(BufSize - 1)

\* The buffered characters key_buffer[0 .. key_buffer_pos - 1].
Content == [j \in 1..key_buffer_pos |-> key_buffer[j - 1]]

\* IRQ1 is delivered while the foreground is not inside the int 0x80
\* handler, or always if the stub sets IF.
IRQsEnabled == gpc = "idle" \/ IFInSyscall

-----------------------------------------------------------------------------
Init ==
  /\ key_buffer = [j \in Idx |-> NUL]
  /\ key_buffer_pos = 0
  /\ gpc = "idle" /\ gi = 0 /\ gidx = 0 /\ gc = NUL
  /\ presses = 0
  /\ queue = <<>> /\ expected = <<>> /\ returned = <<>>

\* The key buffer the code means: append when there is room, and a
\* backspace then drops the last buffered character.
Typed(q, pos, k) ==
  LET q1 == IF pos < BufSize - 1 THEN Append(q, k) ELSE q
  IN  IF k = BS /\ Len(q1) > 0 THEN SubSeq(q1, 1, Len(q1) - 1) ELSE q1

\* Faulty variant: the room check is off by one (key_buffer_pos < 256).
KeyboardIRQOffByOne(k) ==
  /\ IRQsEnabled
  /\ presses < MaxPresses
  /\ LET pos  == key_buffer_pos
         pos1 == IF pos < BufSize THEN pos + 1 ELSE pos
         buf1 == IF pos < BufSize
                 THEN [key_buffer EXCEPT ![pos] = k, ![pos + 1] = NUL]
                 ELSE key_buffer
         back == k = BS /\ pos1 > 0
     IN  /\ key_buffer_pos' = IF back THEN pos1 - 1 ELSE pos1
         /\ key_buffer' = IF back THEN [buf1 EXCEPT ![pos1 - 1] = NUL] ELSE buf1
  /\ presses' = presses + 1
  /\ queue' = Typed(queue, key_buffer_pos, k)
  /\ UNCHANGED <<gpc, gi, gidx, gc, expected, returned>>

\* keyboard_handler() for a key k: store it and the terminator if
\* key_buffer_pos < 255, then, for '\b', step back over the last character.
KeyboardIRQ(k) ==
  /\ IRQsEnabled
  /\ presses < MaxPresses
  /\ LET pos  == key_buffer_pos
         pos1 == IF pos < BufSize - 1 THEN pos + 1 ELSE pos
         buf1 == IF pos < BufSize - 1
                 THEN [key_buffer EXCEPT ![pos] = k, ![pos + 1] = NUL]
                 ELSE key_buffer
         back == k = BS /\ pos1 > 0
     IN  /\ key_buffer_pos' = IF back THEN pos1 - 1 ELSE pos1
         /\ key_buffer' = IF back THEN [buf1 EXCEPT ![pos1 - 1] = NUL] ELSE buf1
  /\ presses' = presses + 1
  /\ queue' = Typed(queue, key_buffer_pos, k)
  /\ UNCHANGED <<gpc, gi, gidx, gc, expected, returned>>

\* A caller enters getchar() (sys_read() asking for a character).
GetcharCall ==
  /\ gpc = "idle"
  /\ gpc' = "wait"
  /\ UNCHANGED <<key_buffer, key_buffer_pos, gi, gidx, gc, presses, queue, expected, returned>>

\* while(key_buffer_pos == 0) hlt;  c = key_buffer[0];
GetcharTake ==
  /\ gpc = "wait"
  /\ key_buffer_pos # 0
  /\ gc' = key_buffer[0]
  /\ gi' = 0
  /\ gpc' = "shift"
  /\ expected' = Append(expected, Head(queue))
  /\ queue' = Tail(queue)
  /\ UNCHANGED <<key_buffer, key_buffer_pos, gidx, presses, returned>>

\* Faulty variant: the shift stops one character early.
GetcharShiftShort ==
  /\ gpc = "shift"
  /\ IF gi < key_buffer_pos - 2
     THEN /\ key_buffer' = [key_buffer EXCEPT ![gi] = key_buffer[gi + 1]]
          /\ gi' = gi + 1
          /\ UNCHANGED gpc
     ELSE /\ gpc' = "dec"
          /\ UNCHANGED <<key_buffer, gi>>
  /\ UNCHANGED <<key_buffer_pos, gidx, gc, presses, queue, expected, returned>>

\* for(i = 0; i < key_buffer_pos - 1; i++) key_buffer[i] = key_buffer[i+1];
\* A char store may alias key_buffer_pos, so the bound is reloaded on every
\* iteration.
GetcharShift ==
  /\ gpc = "shift"
  /\ IF gi < key_buffer_pos - 1
     THEN /\ key_buffer' = [key_buffer EXCEPT ![gi] = key_buffer[gi + 1]]
          /\ gi' = gi + 1
          /\ UNCHANGED gpc
     ELSE /\ gpc' = "dec"
          /\ UNCHANGED <<key_buffer, gi>>
  /\ UNCHANGED <<key_buffer_pos, gidx, gc, presses, queue, expected, returned>>

\* key_buffer_pos--;
GetcharDec ==
  /\ gpc = "dec"
  /\ key_buffer_pos' = key_buffer_pos - 1
  /\ gidx' = key_buffer_pos - 1
  /\ gpc' = "term"
  /\ UNCHANGED <<key_buffer, gi, gc, presses, queue, expected, returned>>

\* key_buffer[key_buffer_pos] = '\0'; return c;  (the index is the value
\* just stored, still in its register)
GetcharTerm ==
  /\ gpc = "term"
  /\ key_buffer' = [key_buffer EXCEPT ![gidx] = NUL]
  /\ returned' = Append(returned, gc)
  /\ gpc' = "idle"
  /\ UNCHANGED <<key_buffer_pos, gi, gidx, gc, presses, queue, expected>>

Getchar == GetcharCall \/ GetcharTake \/ GetcharShift \/ GetcharDec \/ GetcharTerm

Next ==
  \/ \E k \in Keys : KeyboardIRQ(k)
  \/ Getchar

\* Once started, getchar() runs whenever it can; the user keeps typing
\* printable keys while there are presses left.
Fairness ==
  /\ WF_vars(GetcharTake \/ GetcharShift \/ GetcharDec \/ GetcharTerm)
  /\ WF_vars(\E k \in Keys \ {BS} : KeyboardIRQ(k))

Spec == Init /\ [][Next]_vars /\ Fairness

-----------------------------------------------------------------------------
TypeOK ==
  /\ key_buffer \in [Idx -> Keys \cup {NUL}]
  /\ key_buffer_pos \in Idx
  /\ gpc \in {"idle", "wait", "shift", "dec", "term"}
  /\ gi \in Idx /\ gidx \in Idx /\ gc \in Keys \cup {NUL}
  /\ presses \in 0..MaxPresses
  /\ queue \in Seq(Keys) /\ expected \in Seq(Keys) /\ returned \in Seq(Keys \cup {NUL})

(* Between getchar() calls the buffer holds exactly the keys stored and   *)
(* not yet read (Typed: what keyboard_handler keeps of the presses, with   *)
(* its full-buffer drops and backspaces), in typing order, and every       *)
(* getchar() returned the oldest of them: its shift loop, whose bound is   *)
(* reloaded as key_buffer_pos while it copies, moves every remaining key   *)
(* down one place, and the decrement and terminator leave the rest         *)
(* readable, over calls alternating with IRQ1 up to a full buffer.  With   *)
(* IFInSyscall = FALSE no IRQ1 lands inside getchar(); with TRUE this is   *)
(* violated (README, further disagreements).                               *)
FIFOIntact ==
  gpc = "idle" => Content = queue /\ returned = expected

(* A getchar() call returns when the user types while it waits (spec 5:   *)
(* the hlt loop is woken by the keyboard interrupt filling the buffer).    *)
GetcharReturns == (gpc = "wait" /\ presses < MaxPresses) ~> gpc = "idle"

=============================================================================
