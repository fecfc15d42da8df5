---------------------------- MODULE MC_Interrupts ----------------------------
(***************************************************************************)
(* Instance of Interrupts for TLC: the timer and keyboard lines of the     *)
(* master, and two slave lines (8, and the mouse's 12) so that the slave's *)
(* priority order and both EOIs matter.                                     *)
(***************************************************************************)
EXTENDS Interrupts

MCLines == {0, 1, 8, 12}

\* Two requests per line: a line is raised again after being handled.
MCMaxRaises == 2

=============================================================================
