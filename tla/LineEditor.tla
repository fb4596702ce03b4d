----------------------------- MODULE LineEditor -----------------------------
(***************************************************************************)
(* The line editor of the shell (userland/sh.c).  The line is a buffer of  *)
(* BufSize bytes that the parser reads up to the first NUL, with a length  *)
(* and a cursor beside it; editing moves bytes inside the buffer.          *)
(*                                                                         *)
(* A key is a record: `c' the character ("a", "b", "/", " " are printable, *)
(* "^B" a control character), `n' the number a parameter byte stands for.  *)
(* `text' and `point' are what a user would say the line and the cursor    *)
(* are, and are edited as a sequence.                                      *)
(*                                                                         *)
(* The code never looks at the size of the buffer: keys that would fill it *)
(* are not pressed here.                                                   *)
(***************************************************************************)
EXTENDS Integers, Sequences, SequencesExt, FiniteSets

CONSTANTS BufSize,
          KeySet,          \* what may be typed
          Directory,       \* the names readdir yields, in its order
          PathDirectories, \* a sequence of such, for $PATH
          MaxHistory,      \* bound: lines entered
          MaxEntered,      \* bound: bytes of a line that is entered
          MaxParams        \* bound: bytes in param_buf

VARIABLES ed,              \* struct line_editor
          text, point      \* ghost: the line and the cursor

edVars == <<ed, text, point>>

Nul == "nul"
Printable == {"a", "b", "/", " "}
Positions == 0..(BufSize - 1)
Zeroed == [i \in Positions |-> Nul]

(* The buffer as a C string                                                *)
StrLen(buf) ==
  LET nuls == {i \in Positions : buf[i] = Nul}
  IN CHOOSE n \in nuls : \A k \in nuls : n <= k
Str(buf) == [i \in 1..StrLen(buf) |-> buf[i - 1]]

(* memmove and memset                                                      *)
Move(buf, to, from, n) ==
  [i \in Positions |-> IF i \in to..(to + n - 1) THEN buf[i - to + from] ELSE buf[i]]
Fill(buf, at, n) == [i \in Positions |-> IF i \in at..(at + n - 1) THEN Nul ELSE buf[i]]
Copy(buf, at, s) ==
  [i \in Positions |-> IF i \in at..(at + Len(s) - 1) THEN s[i - at + 1] ELSE buf[i]]

-----------------------------------------------------------------------------
on_left(e) == IF e.cursor > 0 THEN [e EXCEPT !.cursor = @ - 1] ELSE e
on_right(e) == IF e.cursor < e.len THEN [e EXCEPT !.cursor = @ + 1] ELSE e
on_home(e) == [e EXCEPT !.cursor = 0]
on_end(e) == [e EXCEPT !.cursor = e.len]

(* The line becomes that of the history; 0 is no entry.                    *)
Recalled(e, h) ==
  LET buf == IF h = 0 THEN Zeroed ELSE e.history[h]
  IN [e EXCEPT !.hcursor = h, !.buf = buf, !.len = StrLen(buf), !.cursor = StrLen(buf)]

on_up(e) ==
  LET h == IF e.hcursor = 0 THEN Len(e.history)
           ELSE IF e.hcursor > 1 THEN e.hcursor - 1 ELSE e.hcursor
  IN IF h = 0 THEN e ELSE Recalled(e, h)

on_down(e) ==
  IF e.hcursor = 0 THEN e
  ELSE Recalled(e, IF e.hcursor < Len(e.history) THEN e.hcursor + 1 ELSE 0)

(* Mutant: the byte after the line stays.                                  *)
on_delete_short(e) ==
  IF e.cursor >= e.len THEN e
  ELSE [e EXCEPT !.buf = Move(@, e.cursor, e.cursor + 1, e.len - e.cursor - 1),
                 !.len = @ - 1]

on_delete(e) ==
  IF e.cursor >= e.len THEN e
  ELSE [e EXCEPT !.buf = Fill(Move(@, e.cursor, e.cursor + 1, e.len - e.cursor - 1),
                              e.len - 1, 1),
                 !.len = @ - 1]

Insert(e, s) ==
  [e EXCEPT !.buf = Copy(Move(@, e.cursor + Len(s), e.cursor, e.len - e.cursor), e.cursor, s),
            !.len = @ + Len(s), !.cursor = @ + Len(s)]

Backspace(e) ==
  IF e.cursor = 0 THEN e
  ELSE [e EXCEPT !.buf = Fill(Move(@, e.cursor - 1, e.cursor, e.len - e.cursor), e.len - 1, 1),
                 !.len = @ - 1, !.cursor = @ - 1]

KillBackward(e) ==
  [e EXCEPT !.buf = Fill(Move(@, 0, e.cursor, e.len - e.cursor), e.len - e.cursor, e.cursor),
            !.len = @ - e.cursor, !.cursor = 0]

KillForward(e) == [e EXCEPT !.buf = Fill(@, e.cursor, e.len - e.cursor), !.len = e.cursor]

(* ^D on an empty line: the length stays 0, so that it is not remembered.  *)
Exit(e) == [e EXCEPT !.buf = Copy(@, 0, <<"a">>), !.state = "accepted"]

-----------------------------------------------------------------------------
(* Completion: the word before the cursor, and the first longer name that  *)
(* begins with it.                                                         *)

Filename == Printable \ {"/", " "}
WordStart(e) ==
  LET starts == {i \in 0..e.cursor : \A k \in i..(e.cursor - 1) : e.buf[k] \in Filename}
  IN CHOOSE i \in starts : \A k \in starts : i <= k
Word(e) == [i \in 1..(e.cursor - WordStart(e)) |-> e.buf[WordStart(e) + i - 1]]

Completions(names, word) ==
  SelectSeq(names, LAMBDA name : Len(name) > Len(word) /\ IsPrefix(word, name))

(* "." or the directory the word names (here they are the same), then each *)
(* directory of $PATH unless a directory was named                         *)
Searched(e) ==
  IF WordStart(e) > 0 /\ e.buf[WordStart(e) - 1] = "/" THEN Directory
  ELSE FoldLeft(LAMBDA a, d : a \o d, Directory, PathDirectories)

Completable(e) ==
  /\ e.cursor > 0 /\ e.buf[e.cursor - 1] \in Filename
  /\ e.cursor = e.len \/ e.buf[e.cursor] = " "

Completed(e) ==
  LET found == Completions(Searched(e), Word(e))
  IN IF Completable(e) /\ found # <<>>
     THEN SubSeq(found[1], Len(Word(e)) + 1, Len(found[1])) ELSE <<>>

complete(e) == Insert(e, Completed(e))

-----------------------------------------------------------------------------
handle_ground(e, c) ==
  CASE c \in Printable -> Insert(e, <<c>>)
    [] c = "esc" -> [e EXCEPT !.state = "esc"]
    [] c = "nl" -> [e EXCEPT !.state = "accepted"]
    [] c = "^B" -> on_left(e)
    [] c = "^F" -> on_right(e)
    [] c = "^A" -> on_home(e)
    [] c = "^E" -> on_end(e)
    [] c = "^P" -> on_up(e)
    [] c = "^N" -> on_down(e)
    [] c = "^H" -> Backspace(e)
    [] c = "^U" -> KillBackward(e)
    [] c = "^K" -> KillForward(e)
    [] c = "^D" -> IF e.len = 0 THEN Exit(e) ELSE on_delete(e)
    [] c = "tab" -> complete(e)
    [] OTHER -> e

handle_state_esc(e, c) ==
  IF c = "[" THEN [e EXCEPT !.params = <<>>, !.state = "csi"]
  ELSE handle_ground([e EXCEPT !.state = "ground"], c)

(* atoi: spaces, then digits up to something else                          *)
IsSpace(k) == k.n = 0 /\ k.c \in {" ", "tab", "nl"}
Atoi(s) ==
  LET step(a, k) ==
        IF a.ended \/ (IsSpace(k) /\ ~a.begun) THEN a
        ELSE IF k.n = 0 THEN [a EXCEPT !.ended = TRUE]
        ELSE [a EXCEPT !.value = @ * 10 + k.n, !.begun = TRUE]
  IN FoldLeft(step, [value |-> 0, begun |-> FALSE, ended |-> FALSE], s).value

handle_csi_vt(e) ==
  CASE Atoi(e.params) \in {1, 7} -> on_home(e)
    [] Atoi(e.params) \in {4, 8} -> on_end(e)
    [] Atoi(e.params) = 3 -> on_delete(e)
    [] OTHER -> e

Final(e, c) ==
  CASE c = "A" -> on_up(e)
    [] c = "B" -> on_down(e)
    [] c = "C" -> on_right(e)
    [] c = "D" -> on_left(e)
    [] c = "H" -> on_home(e)
    [] c = "F" -> on_end(e)
    [] c = "~" -> handle_csi_vt(e)
    [] OTHER -> e

(* Digits, blanks and control characters are below 0x40.                   *)
Low(k) == k.n # 0 \/ k.c \notin {"a", "b", "[", "~", "A", "B", "C", "D", "H", "F"}

handle_state_csi(e, k) ==
  IF Low(k) THEN [e EXCEPT !.params = Append(@, k)]
  ELSE [Final(e, k.c) EXCEPT !.state = "ground", !.params = <<>>]

on_char(e, k) ==
  CASE e.state = "ground" -> handle_ground(e, k.c)
    [] e.state = "esc" -> handle_state_esc(e, k.c)
    [] e.state = "csi" -> handle_state_csi(e, k)

-----------------------------------------------------------------------------
(* What a user would say a key does.  Effect names it, escape sequences    *)
(* included.                                                               *)

Effect(e, k) ==
  CASE e.state = "csi" ->
         (CASE Low(k) -> "nothing"
            [] k.c = "A" -> "^P" [] k.c = "B" -> "^N" [] k.c = "C" -> "^F"
            [] k.c = "D" -> "^B" [] k.c = "H" -> "^A" [] k.c = "F" -> "^E"
            [] k.c = "~" /\ Atoi(e.params) \in {1, 7} -> "^A"
            [] k.c = "~" /\ Atoi(e.params) \in {4, 8} -> "^E"
            [] k.c = "~" /\ Atoi(e.params) = 3 -> "delete"
            [] OTHER -> "nothing")
    [] e.state = "esc" /\ k.c = "[" -> "nothing"
    [] k.c = "^D" -> IF text = <<>> THEN "exit" ELSE "delete"
    [] OTHER -> k.c

Before == SubSeq(text, 1, point)
After == SubSeq(text, point + 1, Len(text))

RecalledText(e, f) ==
  IF f.hcursor = 0 THEN (IF e.hcursor = 0 THEN text ELSE <<>>) ELSE Str(f.history[f.hcursor])

NewText(e, f, effect) ==
  CASE effect \in Printable -> Before \o <<effect>> \o After
    [] effect = "^H" /\ point > 0 -> Front(Before) \o After
    [] effect = "^U" -> After
    [] effect = "^K" -> Before
    [] effect = "delete" /\ After # <<>> -> Before \o Tail(After)
    [] effect = "exit" -> <<"a">>
    [] effect = "tab" -> Before \o Completed(e) \o After
    [] effect \in {"^P", "^N"} -> RecalledText(e, f)
    [] OTHER -> text

NewPoint(e, f, effect) ==
  CASE effect \in Printable -> point + 1
    [] effect \in {"^H", "^B"} -> IF point > 0 THEN point - 1 ELSE 0
    [] effect = "^F" -> IF point < Len(text) THEN point + 1 ELSE point
    [] effect \in {"^U", "^A"} -> 0
    [] effect = "^E" -> Len(text)
    [] effect = "tab" -> point + Len(Completed(e))
    [] effect \in {"^P", "^N"} -> IF f.hcursor = 0 /\ e.hcursor = 0 THEN point
                                  ELSE Len(RecalledText(e, f))
    [] OTHER -> point

-----------------------------------------------------------------------------
Fresh(history) ==
  [buf |-> Zeroed, len |-> 0, cursor |-> 0, state |-> "ground", params |-> <<>>,
   history |-> history, hcursor |-> 0]

Init == ed = Fresh(<<>>) /\ text = <<>> /\ point = 0

(* A key is read and handled.                                              *)
Key(k) ==
  LET f == on_char(ed, k)
      effect == Effect(ed, k)
  IN /\ ed.state # "accepted" /\ (ed.state = "csi" /\ Low(k) => Len(ed.params) < MaxParams)
     /\ ed.len + Len(Completed(ed)) + 1 < BufSize
     /\ ed' = f
     /\ text' = NewText(ed, f, effect)
     /\ point' = NewPoint(ed, f, effect)

(* The end of read_input: the line is remembered, then run; the next one   *)
(* begins in an empty buffer.                                              *)
read_input ==
  /\ ed.state = "accepted" /\ Len(ed.history) < MaxHistory /\ ed.len <= MaxEntered
  /\ ed' = Fresh(IF ed.len = 0 THEN ed.history ELSE Append(ed.history, ed.buf))
  /\ text' = <<>> /\ point' = 0

Next == (\E k \in KeySet : Key(k)) \/ read_input

Spec == Init /\ [][Next]_edVars

-----------------------------------------------------------------------------
(* The buffer that the parser will read as a string is the line as a user  *)
(* would describe it, and the cursor is where it is shown, after any       *)
(* editing, completion and recall (the moves inside input_buf leave no     *)
(* byte behind).                                                           *)
EditorExact ==
  /\ Str(ed.buf) = text
  /\ \A i \in Positions : i >= Len(text) => ed.buf[i] = Nul
  /\ ed.state # "accepted" => ed.cursor = point /\ ed.len = Len(text)
=============================================================================
