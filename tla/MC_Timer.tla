------------------------------- MODULE MC_Timer -------------------------------
(***************************************************************************)
(* Instances of Timer for TLC.  unsigned int is narrowed to 12 bits: like  *)
(* 2^32, 2^12 leaves remainder 6 modulo 10, so the counter wraps to a      *)
(* multiple of 10 after 6 ticks in both; and ms * 100 overflows from       *)
(* ms = 41 on, as it does from ms = 42949673 in 32 bits.                   *)
(***************************************************************************)
EXTENDS Timer

MCWordBits == 12

\* sleep() arguments without overflow: below, at and above the one-tick
\* threshold.
MCMsArgs == {5, 10, 20}

=============================================================================
