----------------------------- MODULE MC_Console -----------------------------
(* The console scaled to 3 x 2 cells.  From clear_screen, kernel_main      *)
(* prints two status lines "OK\n" (as init_interrupts and init_drivers     *)
(* do), which takes the cursor to the last row and into a scroll, while    *)
(* up to two keys are echoed.                                              *)
EXTENDS Console

MCWidth == 3
MCHeight == 2
MCFgText == <<"O", "K", "\n", "O", "K", "\n">>
MCKeys == {"k", "\n"}
MCMaxKeys == 2
=============================================================================
