---------------------------- MODULE MC_Scheduler ----------------------------
(* Scheduler with three control-block slots, so that a freed block is      *)
(* reused while another is live, five process creations, two thread      *)
(* creations into the same blocks, and the scheduler                      *)
(* called on every second timer tick.                                      *)
EXTENDS Scheduler, TLC

CONSTANTS s1, s2, s3
MCSlots == {s1, s2, s3}
MCMaxPid == 7
MCMaxTid == 3
MCTicksPerSchedule == 2
MCSymmetry == Permutations(MCSlots)
=============================================================================
