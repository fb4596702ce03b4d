-------------------------------- MODULE Vt ---------------------------------
(***************************************************************************)
(* The virtual terminals (console/vt.c) that share one screen              *)
(* (console/screen/fb.c).  Output changes the cells of a terminal and      *)
(* marks its lines; vt_flush copies the marked lines to the screen, which  *)
(* shows the cursor by exchanging the colours of a cell while it is put.   *)
(*                                                                         *)
(* Output is a sequence of tokens: "a", "b" (printable), "cr", "nl", "bs", *)
(* "tab", "hi" (not ASCII), "esc", "[", the letters that end a control     *)
(* sequence, and numbers, the parameters between (a digit is printable).   *)
(* A control sequence is written whole: control characters inside one are  *)
(* not modelled.  Colours are numbers.                                     *)
(*                                                                         *)
(* tty_pwrite writes to any console; with Background = FALSE only to the   *)
(* active one.                                                             *)
(***************************************************************************)
EXTENDS Integers, Sequences, SequencesExt

CONSTANTS Vts,             \* the virtual consoles, 1..n
          NumColumns, NumRows,
          TAB_STOP,
          Outputs,         \* what a process may write at once
          Background,      \* processes write to consoles that are not active
          MaxOutputs       \* bound

VARIABLES vt, screen, activeVt, outputs,
          plainText        \* ghost: what was written, while it is plain text

vtVars == <<vt, screen, activeVt, outputs, plainText>>

DEFAULT_FG_COLOR == 15
DEFAULT_BG_COLOR == 0
TO_VGA_COLOR == <<0, 4, 2, 6, 1, 5, 3, 7>>

Columns == 0..(NumColumns - 1)
Rows == 0..(NumRows - 1)
Cell(ch, fg, bg) == [ch |-> ch, fg |-> fg, bg |-> bg]
Printable == {"a", "b"}
NotText == <<"none">>

-----------------------------------------------------------------------------
(* On a record v: struct vt.  line_is_dirty is a set of rows; setting the  *)
(* element after the last one, which the code does, has no effect here.    *)

set_cursor(v, x, y) ==
  [v EXCEPT !.stomp = FALSE, !.dirty = (@ \cup {v.y, y}) \cap Rows,
            !.x = x, !.y = y, !.cdirty = TRUE]

clear_line_at(v, x, y, length) ==
  [v EXCEPT !.cells = [p \in Columns \X Rows |->
                         IF p[2] = y /\ p[1] \in x..(x + length - 1)
                         THEN Cell(" ", v.fg, v.bg) ELSE v.cells[p]],
            !.dirty = @ \cup {y}]

clear_rows(v, rows) ==
  [v EXCEPT !.cells = [p \in Columns \X Rows |->
                         IF p[2] \in rows THEN Cell(" ", v.fg, v.bg) ELSE v.cells[p]],
            !.dirty = @ \cup rows]

clear_screen(v) == [clear_rows(v, Rows) EXCEPT !.clear = TRUE]

write_char_at(v, c) ==
  [v EXCEPT !.cells[<<v.x, v.y>>] = Cell(c, v.fg, v.bg), !.dirty = @ \cup {v.y}]

scroll_up(v) ==
  clear_line_at([v EXCEPT !.cells = [p \in Columns \X Rows |->
                                       IF p[2] + 1 \in Rows THEN v.cells[p[1], p[2] + 1]
                                       ELSE v.cells[p]],
                          !.dirty = @ \cup (Rows \ {NumRows - 1})],
                0, NumRows - 1, NumColumns)

vt_invalidate_all(v) == [v EXCEPT !.dirty = Rows, !.cdirty = TRUE, !.clear = TRUE]

(* The cursor went below the last line.                                    *)
Scrolled(v) ==
  IF v.y >= NumRows THEN set_cursor(scroll_up(v), v.x, NumRows - 1) ELSE v

(* The cursor stays on the last column; the next character wraps.          *)
Clamped(v) ==
  IF v.x >= NumColumns
  THEN [set_cursor(v, NumColumns - 1, v.y) EXCEPT !.stomp = TRUE] ELSE v

Printed(v, c) ==
  LET w == Scrolled(IF v.stomp THEN set_cursor(v, 0, v.y + 1) ELSE v)
  IN set_cursor(write_char_at(w, c), w.x + 1, w.y)

handle_ground(v, c) ==
  CASE c = "esc" -> [v EXCEPT !.state = "esc"]
    [] c = "cr" -> Clamped(set_cursor(v, 0, v.y))
    [] c = "nl" -> Clamped(Scrolled(set_cursor(v, 0, v.y + 1)))
    [] c = "bs" -> Clamped(IF v.x > 0 THEN set_cursor(v, v.x - 1, v.y) ELSE v)
    [] c = "tab" -> Clamped(set_cursor(v, ((v.x + TAB_STOP) \div TAB_STOP) * TAB_STOP, v.y))
    [] c = "hi" -> v
    [] OTHER -> Clamped(Printed(v, c))

handle_state_esc(v, c) ==
  IF c = "[" THEN [v EXCEPT !.params = <<>>, !.state = "csi"]
  ELSE handle_ground([v EXCEPT !.state = "ground"], c)

-----------------------------------------------------------------------------
(* Control sequences.  Param is atoi(param_buf): 0 when it is empty.       *)

Param(v) == IF v.params = <<>> THEN 0 ELSE v.params[1]
Count(v) == IF Param(v) = 0 THEN 1 ELSE Param(v)
Up(v) == IF Count(v) > v.y THEN 0 ELSE v.y - Count(v)
Within(n, size) == IF n >= size THEN size - 1 ELSE n
FromOne(n) == IF n > 0 THEN n - 1 ELSE n

handle_csi_cuu(v) == set_cursor(v, v.x, Up(v))
handle_csi_cud(v) == set_cursor(v, v.x, Within(v.y + Count(v), NumRows))
handle_csi_cuf(v) == set_cursor(v, Within(v.x + Count(v), NumColumns), v.y)
handle_csi_cub(v) == set_cursor(v, IF Count(v) > v.x THEN 0 ELSE v.x - Count(v), v.y)
handle_csi_cnl(v) == set_cursor(v, 0, Within(v.y + Count(v), NumRows))
handle_csi_cpl(v) == set_cursor(v, 0, Up(v))
handle_csi_cha(v) == set_cursor(v, Within(FromOne(Param(v)), NumColumns), v.y)

handle_csi_cup(v) ==
  LET x == IF Len(v.params) >= 2 THEN FromOne(v.params[2]) ELSE 0
  IN set_cursor(v, Within(x, NumColumns), Within(FromOne(Param(v)), NumRows))

handle_csi_ed(v) ==
  CASE Param(v) = 0 -> clear_rows(clear_line_at(v, v.x, v.y, NumColumns - v.x),
                                  {y \in Rows : y > v.y})
    [] Param(v) = 1 -> clear_line_at(clear_rows(v, {y \in Rows : y < v.y}), 0, v.y, v.x + 1)
    [] Param(v) = 2 -> clear_screen(v)
    [] OTHER -> v

handle_csi_el(v) ==
  CASE Param(v) = 0 -> clear_line_at(v, v.x, v.y, NumColumns - v.x)
    [] Param(v) = 1 -> clear_line_at(v, 0, v.y, v.x + 1)
    [] Param(v) = 2 -> clear_line_at(v, 0, v.y, NumColumns)
    [] OTHER -> v

(* One parameter of a rendition; e.bold is local to the sequence.          *)
Rendition(e, num) ==
  LET bright == IF e.bold THEN 8 ELSE 0
  IN CASE num = 0 -> [fg |-> DEFAULT_FG_COLOR, bg |-> DEFAULT_BG_COLOR, bold |-> FALSE]
       [] num = 1 -> [e EXCEPT !.bold = TRUE]
       [] num = 7 -> [e EXCEPT !.fg = e.bg, !.bg = e.fg]
       [] num = 22 -> [e EXCEPT !.fg = DEFAULT_FG_COLOR, !.bold = FALSE]
       [] num \in 30..37 -> [e EXCEPT !.fg = (TO_VGA_COLOR[num - 29] % 8) + bright]
       [] num = 38 -> [e EXCEPT !.fg = DEFAULT_FG_COLOR]
       [] num \in 40..47 -> [e EXCEPT !.bg = (TO_VGA_COLOR[num - 39] % 8) + bright]
       [] num = 48 -> [e EXCEPT !.bg = DEFAULT_BG_COLOR]
       [] num \in 90..97 -> [e EXCEPT !.fg = TO_VGA_COLOR[num - 89] + 8]
       [] num \in 100..107 -> [e EXCEPT !.bg = TO_VGA_COLOR[num - 99] + 8]
       [] OTHER -> e

handle_csi_sgr(v) ==
  LET e == FoldLeft(Rendition, [fg |-> v.fg, bg |-> v.bg, bold |-> FALSE],
                    IF v.params = <<>> THEN <<0>> ELSE v.params)
  IN [v EXCEPT !.fg = e.fg, !.bg = e.bg]

(* -25 stands for "?25".                                                   *)
handle_csi_dectcem(v, c) ==
  IF v.params # <<-25>> THEN v
  ELSE [v EXCEPT !.vis = (c = "h"), !.dirty = @ \cup {v.y}, !.cdirty = TRUE]

handle_csi(v, c) ==
  CASE c = "A" -> handle_csi_cuu(v)
    [] c = "B" -> handle_csi_cud(v)
    [] c = "C" -> handle_csi_cuf(v)
    [] c = "D" -> handle_csi_cub(v)
    [] c = "E" -> handle_csi_cnl(v)
    [] c = "F" -> handle_csi_cpl(v)
    [] c = "G" -> handle_csi_cha(v)
    [] c = "H" -> handle_csi_cup(v)
    [] c = "J" -> handle_csi_ed(v)
    [] c = "K" -> handle_csi_el(v)
    [] c = "m" -> handle_csi_sgr(v)
    [] c \in {"h", "l"} -> handle_csi_dectcem(v, c)
    [] OTHER -> v

(* Whatever ends a sequence ends it.                                       *)
handle_state_csi(v, t) ==
  IF t.number THEN [v EXCEPT !.params = Append(@, t.n)]
  ELSE [handle_csi(v, t.c) EXCEPT !.state = "ground"]

on_char(v, t) ==
  CASE v.state = "ground" -> handle_ground(v, t.c)
    [] v.state = "esc" -> handle_state_esc(v, t.c)
    [] v.state = "csi" -> handle_state_csi(v, t)

-----------------------------------------------------------------------------
(* vt_flush on e: a terminal and the screen.                               *)

Put(s, p, cell) ==
  IF s.vis /\ p = <<s.x, s.y>> THEN Cell(cell.ch, cell.bg, cell.fg) ELSE cell

vt_flush(e) ==
  LET v == e.vt
      s == IF v.cdirty THEN [e.screen EXCEPT !.x = v.x, !.y = v.y, !.vis = v.vis]
           ELSE e.screen
      blank == Cell(" ", v.bg, v.bg)
      shown == [p \in Columns \X Rows |->
                  IF p[2] \in v.dirty THEN Put(s, p, v.cells[p])
                  ELSE IF v.clear THEN blank ELSE s.cells[p]]
  IN [vt |-> [v EXCEPT !.dirty = {}, !.cdirty = FALSE, !.clear = FALSE],
      screen |-> [s EXCEPT !.cells = shown]]

(* vt_create: everything is clear and drawn; the cursor is not.            *)
Blank == [p \in Columns \X Rows |-> Cell(" ", DEFAULT_FG_COLOR, DEFAULT_BG_COLOR)]
FreshVt ==
  [cells |-> Blank, x |-> 0, y |-> 0, vis |-> TRUE, state |-> "ground", stomp |-> FALSE,
   params |-> <<>>, fg |-> DEFAULT_FG_COLOR, bg |-> DEFAULT_BG_COLOR,
   dirty |-> {}, cdirty |-> FALSE, clear |-> FALSE, touched |-> FALSE]

Init ==
  /\ vt = [v \in Vts |-> FreshVt]
  /\ screen = [cells |-> Blank, x |-> 0, y |-> 0, vis |-> FALSE]
  /\ activeVt = 1
  /\ outputs = 0
  /\ plainText = [v \in Vts |-> <<>>]

(* processed_echo: a newline is preceded by a return.  Each character is   *)
(* echoed, hence flushed, for itself.                                      *)
Processed(tokens) ==
  LET step(s, t) == IF t.c = "nl" THEN s \o <<[t EXCEPT !.c = "cr"], t>> ELSE Append(s, t)
  IN FoldLeft(step, <<>>, tokens)

Echoed(v, tokens) ==
  LET step(e, t) == vt_flush([e EXCEPT !.vt = [on_char(e.vt, t) EXCEPT
                                                 !.touched = @ \/ on_char(e.vt, t).cdirty]])
  IN FoldLeft(step, [vt |-> vt[v], screen |-> screen], tokens)

IsText(tokens) == \A i \in DOMAIN tokens : tokens[i].c \in Printable \cup {"nl"}

tty_pwrite(v, tokens) ==
  LET e == Echoed(v, Processed(tokens))
  IN /\ outputs < MaxOutputs /\ outputs' = outputs + 1
     /\ v = activeVt \/ Background
     /\ vt' = [vt EXCEPT ![v] = e.vt]
     /\ screen' = e.screen
     /\ plainText' = [plainText EXCEPT ![v] =
                        IF @ # NotText /\ IsText(tokens)
                        THEN @ \o [i \in DOMAIN tokens |-> tokens[i].c] ELSE NotText]
     /\ UNCHANGED activeVt

(* Ctrl-Alt-Fn                                                             *)
Switch(v) ==
  LET e == vt_flush([vt |-> vt_invalidate_all(vt[v]), screen |-> screen])
  IN /\ v # activeVt
     /\ activeVt' = v
     /\ vt' = [vt EXCEPT ![v] = [e.vt EXCEPT !.touched = TRUE]]
     /\ screen' = e.screen
     /\ UNCHANGED <<outputs, plainText>>

Next ==
  \/ \E v \in Vts, tokens \in Outputs : tty_pwrite(v, tokens)
  \/ \E v \in Vts : Switch(v)

Spec == Init /\ [][Next]_vtVars

-----------------------------------------------------------------------------
(* The screen shows the active terminal: its cells, and its cursor, once,  *)
(* from the first time it moved; no flush leaves a line or an old cursor   *)
(* behind, whatever was written and however consoles were switched.        *)
ScreenShowsActive ==
  LET v == vt[activeVt]
      drawn == [screen EXCEPT !.x = v.x, !.y = v.y, !.vis = v.vis]
  IN /\ v.x \in Columns /\ v.y \in Rows
     /\ v.touched => /\ screen.x = v.x /\ screen.y = v.y /\ screen.vis = v.vis
                     /\ screen.cells = [p \in Columns \X Rows |-> Put(drawn, p, v.cells[p])]

(* The lines of a text: a character begins a new one when its line is full. *)
Layout(text) ==
  LET step(lines, c) ==
        IF c = "nl" THEN Append(lines, <<>>)
        ELSE IF Len(Last(lines)) = NumColumns THEN Append(lines, <<c>>)
        ELSE Append(Front(lines), Append(Last(lines), c))
  IN FoldLeft(step, << <<>> >>, text)

(* Plain text is on a terminal as the last lines of its layout: wrapping   *)
(* waits for the next character, so that a full line followed by a newline *)
(* is one line, and scrolling loses the topmost line only.                 *)
TextLaidOut ==
  \A v \in Vts : plainText[v] # NotText =>
    LET lines == Layout(plainText[v])
        first == IF Len(lines) > NumRows THEN Len(lines) - NumRows ELSE 0
        at(x, y) == IF first + y + 1 > Len(lines) THEN " "
                    ELSE IF x + 1 > Len(lines[first + y + 1]) THEN " "
                    ELSE lines[first + y + 1][x + 1]
    IN \A p \in Columns \X Rows : vt[v].cells[p].ch = at(p[1], p[2])
=============================================================================
