-------------------------------- MODULE Timer --------------------------------
(***************************************************************************)
(* The two tick counters of the kernel and the sleep() built on one of     *)
(* them.                                                                   *)
(*                                                                         *)
(* kernel/core/interrupt.c: irq_handler(0) calls timer_handler(), which    *)
(* increments its static timer_ticks and calls the scheduler when the      *)
(* count is a multiple of 10.                                              *)
(*                                                                         *)
(* kernel/core/timer.c (bundled in drivers/keyboard.c) has a second static *)
(* timer_ticks, incremented only by timer_callback(); sleep(ms) computes a *)
(* target from it and halts until it is reached.  Nothing in the tree      *)
(* calls timer_callback(), so no action changes that counter.  sleep() is  *)
(* only reached through sys_sleep() in the int 0x80 handler.               *)
(*                                                                         *)
(* The scheduler call itself is modelled in Scheduler; here `since'        *)
(* counts the ticks since it was last called.                              *)
(***************************************************************************)
EXTENDS Integers

CONSTANTS
  WordBits,     \* width of unsigned int
  MsArgs,       \* the arguments of sys_sleep, as the unsigned ms of sleep()
  IFInSyscall   \* the int 0x80 stub re-enables interrupts

ASSUME WordBits \in Nat \ {0} /\ IFInSyscall \in BOOLEAN

Word == 2^WordBits

\* unsigned int arithmetic
U(n) == n % Word

ASSUME MsArgs \subseteq 0..(Word - 1)

TIMER_FREQUENCY == 100
\* timer_handler calls the scheduler when timer_ticks % 10 == 0
SchedPeriod == 10

VARIABLES
  irq_ticks,  \* interrupt.c's timer_ticks
  since,      \* timer IRQs since the scheduler was last called
  cb_ticks,   \* timer.c's timer_ticks
  spc,        \* the foreground: "idle" or inside sleep()
  ms, target, \* sleep()'s argument and computed target
  start       \* cb_ticks when sleep() was entered

vars == <<irq_ticks, since, cb_ticks, spc, ms, target, start>>

\* IRQ0 is taken unless the foreground is inside the int 0x80 gate.
IRQsEnabled == spc = "idle" \/ IFInSyscall

Init ==
  /\ irq_ticks = 0 /\ since = 0
  /\ cb_ticks = 0
  /\ spc = "idle" /\ ms = 0 /\ target = 0 /\ start = 0

\* irq_handler(0) -> timer_handler(): timer_ticks++, and every 10th count
\* schedule_processes().
TimerIRQ ==
  /\ IRQsEnabled
  /\ irq_ticks' = U(irq_ticks + 1)
  /\ since' = IF U(irq_ticks + 1) % SchedPeriod = 0 THEN 0 ELSE since + 1
  /\ UNCHANGED <<cb_ticks, spc, ms, target, start>>

\* sys_sleep(milliseconds) -> sleep(ms):
\*   target = timer_ticks + (ms * TIMER_FREQUENCY / 1000)
\* all in unsigned int.
SysSleep(m) ==
  /\ spc = "idle"
  /\ spc' = "sleep"
  /\ ms' = m
  /\ target' = U(cb_ticks + U(m * TIMER_FREQUENCY) \div 1000)
  /\ start' = cb_ticks
  /\ UNCHANGED <<irq_ticks, since, cb_ticks>>

\* while(timer_ticks < target) hlt;  sleep() and sys_sleep() return.
SleepWake ==
  /\ spc = "sleep"
  /\ ~(cb_ticks < target)
  /\ spc' = "idle"
  /\ UNCHANGED <<irq_ticks, since, cb_ticks, ms, target, start>>

Next ==
  \/ TimerIRQ
  \/ \E m \in MsArgs : SysSleep(m)
  \/ SleepWake

\* The PIT keeps interrupting; a sleeping caller re-tests its loop after
\* every wake-up.
Fairness == WF_vars(TimerIRQ) /\ WF_vars(SleepWake)

Spec == Init /\ [][Next]_vars /\ Fairness

-----------------------------------------------------------------------------
TypeOK ==
  /\ irq_ticks \in 0..(Word - 1) /\ cb_ticks \in 0..(Word - 1)
  /\ since \in 0..(SchedPeriod - 1)
  /\ spc \in {"idle", "sleep"}
  /\ ms \in MsArgs \cup {0} /\ target \in 0..(Word - 1) /\ start \in 0..(Word - 1)

(* A sys_sleep() call returns: the tick counter that backs sleep() is      *)
(* advanced by the periodic timer interrupt (spec 4.1, 5).                 *)
SleepReturns == spc = "sleep" ~> spc = "idle"

=============================================================================
