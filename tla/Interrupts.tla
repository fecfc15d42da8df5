----------------------------- MODULE Interrupts -----------------------------
(***************************************************************************)
(* Interrupt set-up and dispatch of kernel/core/interrupt.c: init_idt (the *)
(* gates and the remapping of the two 8259 interrupt controllers),         *)
(* init_syscalls, the sti of init_interrupts, and irq_handler's            *)
(* end-of-interrupt writes; the CPU takes interrupts through the gates.    *)
(*                                                                         *)
(* The controllers are modelled by what the port writes do to them: an     *)
(* ICW1 on the command port starts initialisation and clears the mask, the *)
(* next data writes are ICW2 (vector base), ICW3 (cascade) and ICW4, later *)
(* data writes set the mask, and 0x20 on the command port is a non-specific*)
(* EOI that clears the highest-priority in-service line.  A line is        *)
(* delivered when it is requested, unmasked and no line of higher or equal *)
(* priority is in service; slave lines reach the CPU through the master's  *)
(* cascade line.                                                           *)
(*                                                                         *)
(* The assembly stubs are not in the tree: the stub of gate 32 + n is      *)
(* taken to call irq_handler(n), that of exception k exception_handler(k). *)
(* Devices raise their lines once boot has enabled interrupts; what the    *)
(* timer and keyboard handlers do is modelled in Scheduler and KeyBuffer.  *)
(***************************************************************************)
EXTENDS Integers, FiniteSets, FiniteSetsExt, Sequences, SequencesExt

CONSTANTS
  Lines,      \* the IRQ lines devices raise, in 0..15
  MaxRaises   \* bound on the requests each line raises

ASSUME Lines \subseteq 0..15 /\ MaxRaises \in Nat

Chips == {"master", "slave"}
Vectors == 0..255

\* The value of bit i of byte b.
Bit(b, i) == (b \div 2^i) % 2 = 1
Bits(b) == {i \in 0..7 : Bit(b, i)}

VARIABLES
  idt,       \* [vector -> gate]: what each gate enters
  pic,       \* [chip -> controller state]
  iflag,     \* the CPU's interrupt flag
  boot,      \* how far init_interrupts has got
  cpu,       \* mode "run", "irq" (in irq_handler(num) for line `line'),
             \* "halted" (in exception_handler) or "fault" (empty gate)
  waiting,   \* lines raised and not yet handled by irq_handler
  raises     \* [line -> requests raised so far]

vars == <<idt, pic, iflag, boot, cpu, waiting, raises>>

NoGate == [kind |-> "none", num |-> 0]
Running == [mode |-> "run", num |-> 0, line |-> 0]
Mode(m) == [Running EXCEPT !.mode = m]
Gate(k, n) == [kind |-> k, num |-> n]

ChipOf(port) == IF port \in {32, 33} THEN "master" ELSE "slave"

\* One outb(port, val) to a controller (command ports 0x20 and 0xA0, data
\* ports 0x21 and 0xA1).
WritePic(c, port, val) ==
  IF port \in {32, 160}
  THEN IF Bit(val, 4)
       THEN [c EXCEPT !.init = "icw2", !.icw4 = Bit(val, 0), !.single = Bit(val, 1),
                      !.imr = {}]
       ELSE IF ~Bit(val, 3) /\ (val \div 32) % 8 = 1 /\ c.isr # {}
       THEN [c EXCEPT !.isr = @ \ {Min(c.isr)}]
       ELSE c
  ELSE CASE c.init = "icw2" ->
              [c EXCEPT !.base = val - (val % 8),
                        !.init = IF ~c.single THEN "icw3"
                                 ELSE IF c.icw4 THEN "icw4" ELSE "ready"]
         [] c.init = "icw3" ->
              [c EXCEPT !.cascade = val, !.init = IF c.icw4 THEN "icw4" ELSE "ready"]
         [] c.init = "icw4" -> [c EXCEPT !.init = "ready"]
         [] OTHER -> [c EXCEPT !.imr = Bits(val)]

Out(ps, w) == [ps EXCEPT ![ChipOf(w[1])] = WritePic(@, w[1], w[2])]

\* Faulty variant: the slave's ICW2 is given the master's base.
RemapWritesSlaveBase ==
  << <<32, 17>>, <<160, 17>>, <<33, 32>>, <<161, 32>>, <<33, 4>>,
     <<161, 2>>, <<33, 1>>, <<161, 1>>, <<33, 0>>, <<161, 0>> >>

\* The outb sequence of init_idt's "Remap PIC".
RemapWrites ==
  << <<32, 17>>, <<160, 17>>, <<33, 32>>, <<161, 40>>, <<33, 4>>,
     <<161, 2>>, <<33, 1>>, <<161, 1>>, <<33, 0>>, <<161, 0>> >>

\* Faulty variant: the slave is acknowledged only for irq_num > 8.
EOIWritesOffByOne(n) ==
  IF n > 8 THEN << <<160, 32>>, <<32, 32>> >> ELSE << <<32, 32>> >>

\* irq_handler's end-of-interrupt writes for IRQ n.
EOIWrites(n) ==
  IF n >= 8 THEN << <<160, 32>>, <<32, 32>> >> ELSE << <<32, 32>> >>

\* The line a controller presents: requested, unmasked, and of higher
\* priority than every line in service.
Pending(c, req) == {l \in req \ c.imr : \A s \in c.isr : l < s}
SlaveReq == Pending(pic["slave"], pic["slave"].irr)
CascadeLines == {l \in 0..7 : Bit(pic["master"].cascade, l)}
MasterReq ==
  Pending(pic["master"],
          pic["master"].irr \cup (IF SlaveReq # {} THEN CascadeLines ELSE {}))

-----------------------------------------------------------------------------
\* At kernel_main the BIOS set-up is in place (vector bases 0x08 and 0x70)
\* and the boot loader left interrupts disabled.
Init ==
  /\ idt = [v \in Vectors |-> NoGate]
  /\ pic = [c \in Chips |->
              [init |-> "ready", icw4 |-> TRUE, single |-> FALSE,
               base |-> IF c = "master" THEN 8 ELSE 112,
               cascade |-> IF c = "master" THEN 4 ELSE 2,
               imr |-> {}, isr |-> {}, irr |-> {}]]
  /\ iflag = FALSE /\ boot = "start" /\ cpu = Running /\ waiting = {}
  /\ raises = [n \in Lines |-> 0]

\* init_idt: clear the table, install exception gates 0-31, remap the
\* controllers, install IRQ gates 32-47, lidt.
InitIdt ==
  /\ boot = "start"
  /\ idt' = [v \in Vectors |->
               IF v < 32 THEN Gate("isr", v)
               ELSE IF v < 48 THEN Gate("irq", v - 32) ELSE NoGate]
  /\ pic' = FoldLeft(Out, pic, RemapWrites)
  /\ boot' = "idt"
  /\ UNCHANGED <<iflag, cpu, waiting, raises>>

\* init_syscalls: set_idt_gate(0x80, syscall_interrupt).
InitSyscalls ==
  /\ boot = "idt"
  /\ idt' = [idt EXCEPT ![128] = Gate("syscall", 128)]
  /\ boot' = "syscalls"
  /\ UNCHANGED <<pic, iflag, cpu, waiting, raises>>

\* init_interrupts: asm volatile("sti").
Sti ==
  /\ boot = "syscalls"
  /\ iflag' = TRUE /\ boot' = "up"
  /\ UNCHANGED <<idt, pic, cpu, waiting, raises>>

\* A device raises IRQ n: the controller latches the request.
Raise(n) ==
  /\ boot = "up" /\ n \notin waiting /\ raises[n] < MaxRaises
  /\ pic' = IF n < 8 THEN [pic EXCEPT !["master"].irr = @ \cup {n}]
            ELSE [pic EXCEPT !["slave"].irr = @ \cup {n - 8}]
  /\ waiting' = waiting \cup {n}
  /\ raises' = [raises EXCEPT ![n] = @ + 1]
  /\ UNCHANGED <<idt, iflag, boot, cpu>>

\* The CPU acknowledges the master's highest-priority line and enters the
\* gate of its vector; the interrupt gate (type 0x8E) clears IF.
Accept ==
  /\ iflag /\ cpu.mode = "run" /\ MasterReq # {}
  /\ LET m     == Min(MasterReq)
         viaS  == m \in CascadeLines /\ m \notin pic["master"].irr
         s     == Min(SlaveReq)
         chip  == IF viaS THEN "slave" ELSE "master"
         line  == IF viaS THEN s ELSE m
         vec   == pic[chip].base + line
         irq   == IF viaS THEN 8 + s ELSE m
         p1    == [pic EXCEPT !["master"].irr = @ \ {m}, !["master"].isr = @ \cup {m}]
     IN  /\ pic' = IF viaS
                   THEN [p1 EXCEPT !["slave"].irr = @ \ {s}, !["slave"].isr = @ \cup {s}]
                   ELSE p1
         /\ cpu' = CASE idt[vec].kind = "irq" ->
                          [mode |-> "irq", num |-> idt[vec].num, line |-> irq]
                     [] idt[vec].kind = "isr" -> Mode("halted")
                     [] OTHER -> Mode("fault")
  /\ iflag' = FALSE
  /\ UNCHANGED <<idt, boot, waiting, raises>>

\* irq_handler(n): the timer or keyboard handler, then the EOI to the slave
\* if n >= 8 and to the master; iret restores IF.
IrqHandler ==
  /\ cpu.mode = "irq"
  /\ pic' = FoldLeft(Out, pic, EOIWrites(cpu.num))
  /\ waiting' = waiting \ {cpu.line}
  /\ cpu' = Running /\ iflag' = TRUE
  /\ UNCHANGED <<idt, boot, raises>>

\* After boot the foreground (the desktop loop) runs, touching none of this
\* state.  Taken as running: init_graphics_mode's first store to the
\* framebuffer at 0xA0000000, outside the 4 MB identity map, would
\* page-fault (vector 14, an exception gate, so exception_handler halts)
\* just after init_interrupts; that fault is not modelled, so the runs
\* show what dispatch would do for a foreground that does not fault.
Foreground ==
  /\ boot = "up" /\ cpu.mode = "run"
  /\ UNCHANGED vars

Next ==
  \/ InitIdt \/ InitSyscalls \/ Sti
  \/ \E n \in Lines : Raise(n)
  \/ Accept
  \/ IrqHandler
  \/ Foreground

\* Boot runs to the end, the CPU takes a pending interrupt while IF is set,
\* and a handler runs to its iret.
Fairness ==
  /\ WF_vars(InitIdt) /\ WF_vars(InitSyscalls) /\ WF_vars(Sti)
  /\ WF_vars(Accept) /\ WF_vars(IrqHandler)

Spec == Init /\ [][Next]_vars /\ Fairness

-----------------------------------------------------------------------------
(* Every hardware interrupt the CPU takes enters irq_handler with the      *)
(* number of the line that raised it: the remap sequence leaves the        *)
(* controllers initialised with vector bases 0x20 and 0x28 and the slave   *)
(* cascaded on the line the master expects, and no IRQ lands on an        *)
(* exception gate or an empty one.                                         *)
IrqDispatchedToItsHandler ==
  cpu.mode \in {"run", "irq"} /\ cpu.num = cpu.line

(* Every raised IRQ line is eventually handled once the devices stop      *)
(* raising: irq_handler's EOIs free the in-service lines of both           *)
(* controllers, so no line stays blocked behind one never acknowledged.   *)
IrqEventuallyHandled == \A n \in Lines : n \in waiting ~> n \notin waiting

=============================================================================
