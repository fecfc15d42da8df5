---------------------------- MODULE MC_KeyBuffer ----------------------------
(* KeyBuffer with a 4-byte buffer, so that it fills up (3 keys) within    *)
(* the bound of 5 key presses; two printable keys, so that order shows,    *)
(* and the backspace.                                                      *)
EXTENDS KeyBuffer

CONSTANTS a, b, bs, nul
MCKeys == {a, b, bs}
MCBufSize == 4
MCMaxPresses == 5
=============================================================================
