------------------------------- MODULE Console -------------------------------
(***************************************************************************)
(* The VGA text console of kernel/core/kernel.c: print_colored() writes    *)
(* characters at (cursor_y * VGA_WIDTH + cursor_x), wraps at the right     *)
(* edge and scrolls when cursor_y reaches VGA_HEIGHT.  cursor_x, cursor_y  *)
(* are plain statics shared by every caller.                               *)
(*                                                                         *)
(* Two callers run at once.  kernel_main keeps printing its boot messages  *)
(* after init_interrupts() has executed sti with every PIC line unmasked   *)
(* (init_idt writes 0 to both mask registers); keyboard_handler (IRQ1)     *)
(* echoes each key through print().  The IRQ runs inside an interrupt gate *)
(* and so is atomic; the foreground can be interrupted between any two of  *)
(* its statements.                                                         *)
(*                                                                         *)
(* The screen is scaled to Width x Height; vga holds one more row, the     *)
(* video memory just past the text area.  Colours are left out.  Each of   *)
(* print_colored's statements on the cursor is one step; the scroll's two  *)
(* copy loops are one step (an IRQ inside them is not modelled).           *)
(***************************************************************************)
EXTENDS Integers, Sequences

CONSTANTS
  Width, Height,  \* VGA_WIDTH, VGA_HEIGHT
  FgText,         \* what kernel_main prints after sti, as a sequence of characters
  Keys,           \* the characters keyboard_handler echoes
  MaxKeys         \* bound on the keys pressed

ASSUME Width > 0 /\ Height > 0 /\ MaxKeys \in Nat

NL == "\n"
Blank == " "

\* The text area and the row of video memory after it.
Cells == 0..(Width * (Height + 1) - 1)

VARIABLES
  cursor_x, cursor_y,
  vga,       \* character of each cell
  fpc,       \* print_colored's statement in the foreground
  str,       \* index of *str in FgText
  presses    \* keys pressed so far

vars == <<cursor_x, cursor_y, vga, fpc, str, presses>>

\* vga_buffer[(cursor_y * VGA_WIDTH + cursor_x) * 2] = c, in cells.
Put(v, c) == [v EXCEPT ![cursor_y * Width + cursor_x] = c]

\* The two loops of the scroll: rows move up one, the last row is cleared.
Scrolled(v) ==
  [i \in Cells |-> IF i < (Height - 1) * Width THEN v[i + Width]
                   ELSE IF i < Height * Width THEN Blank
                   ELSE v[i]]

\* clear_screen(), the first thing kernel_main does.
Init ==
  /\ vga = [i \in Cells |-> Blank]
  /\ cursor_x = 0 /\ cursor_y = 0
  /\ fpc = IF FgText = <<>> THEN "done" ELSE "test"
  /\ str = 1
  /\ presses = 0

\* if (*str == '\n') { cursor_x = 0; cursor_y++; } else write the cell.
FgTest ==
  /\ fpc = "test"
  /\ IF FgText[str] = NL
       THEN /\ cursor_x' = 0 /\ cursor_y' = cursor_y + 1
            /\ fpc' = "wrap" /\ UNCHANGED vga
       ELSE /\ vga' = Put(vga, FgText[str])
            /\ fpc' = "inc" /\ UNCHANGED <<cursor_x, cursor_y>>
  /\ UNCHANGED <<str, presses>>

\* cursor_x++ after the write.
FgInc ==
  /\ fpc = "inc"
  /\ cursor_x' = cursor_x + 1
  /\ fpc' = "wrap"
  /\ UNCHANGED <<cursor_y, vga, str, presses>>

\* if (cursor_x >= VGA_WIDTH) { cursor_x = 0; cursor_y++; }
FgWrap ==
  /\ fpc = "wrap"
  /\ IF cursor_x >= Width
       THEN cursor_x' = 0 /\ cursor_y' = cursor_y + 1
       ELSE UNCHANGED <<cursor_x, cursor_y>>
  /\ fpc' = "scroll"
  /\ UNCHANGED <<vga, str, presses>>

\* if (cursor_y >= VGA_HEIGHT) scroll and cursor_y = VGA_HEIGHT - 1; str++,
\* and update_cursor() once the string is done.
FgScroll ==
  /\ fpc = "scroll"
  /\ IF cursor_y >= Height
       THEN vga' = Scrolled(vga) /\ cursor_y' = Height - 1
       ELSE UNCHANGED <<vga, cursor_y>>
  /\ str' = str + 1
  /\ fpc' = IF str < Len(FgText) THEN "test" ELSE "done"
  /\ UNCHANGED <<cursor_x, presses>>

\* print_colored(s) run to the end on a one-character string, as the IRQ
\* does: write or newline, wrap, scroll.
PrintChar(c) ==
  LET v1 == IF c = NL THEN vga ELSE Put(vga, c)
      x1 == IF c = NL THEN 0 ELSE cursor_x + 1
      y1 == IF c = NL THEN cursor_y + 1 ELSE cursor_y
      x2 == IF x1 >= Width THEN 0 ELSE x1
      y2 == IF x1 >= Width THEN y1 + 1 ELSE y1
  IN  /\ vga' = IF y2 >= Height THEN Scrolled(v1) ELSE v1
      /\ cursor_x' = x2
      /\ cursor_y' = IF y2 >= Height THEN Height - 1 ELSE y2

\* IRQ1: keyboard_handler echoes a printable key with print(str) and a
\* newline with print("\n").
KeyEcho(k) ==
  /\ presses < MaxKeys
  /\ presses' = presses + 1
  /\ PrintChar(k)
  /\ UNCHANGED <<fpc, str>>

Next ==
  \/ FgTest \/ FgInc \/ FgWrap \/ FgScroll
  \/ \E k \in Keys : KeyEcho(k)

Spec == Init /\ [][Next]_vars

-----------------------------------------------------------------------------
TypeOK ==
  /\ cursor_x \in 0..Width /\ cursor_y \in 0..Height
  /\ vga \in [Cells -> {Blank, NL} \cup Keys \cup {FgText[i] : i \in DOMAIN FgText}]
  /\ fpc \in {"test", "inc", "wrap", "scroll", "done"}
  /\ presses \in 0..MaxKeys

(* Every character print_colored writes lands in the text area: the index  *)
(* of kernel.c:167 is computed from cursor_y, which the scroll check keeps *)
(* below VGA_HEIGHT, so the row of video memory after the screen is never  *)
(* written.                                                                *)
WritesOnScreen == \A i \in (Width * Height)..(Width * (Height + 1) - 1) : vga[i] = Blank

=============================================================================
