------------------------------ MODULE Console ------------------------------
(***************************************************************************)
(* Terminal input: the PS/2 keyboard interrupt and /dev/kbd, the virtual   *)
(* and serial consoles, and the line discipline of tty.c.                  *)
(*                                                                         *)
(* A key interrupt goes to the active virtual console and then into the    *)
(* queue of /dev/kbd; readers sleep in file_block and read again under the *)
(* lock.  A step is what is done under one lock.  A character is named for *)
(* its part in the line discipline: "intr" is c_cc[VINTR], "x" is any      *)
(* printable, "hi" is "x" with its eighth bit, "esc" any other control.    *)
(* `id' numbers what was typed; it and `eol' travel with the character.    *)
(***************************************************************************)
EXTENDS Naturals, Sequences, FiniteSets, SequencesExt

CONSTANTS VirtualTtys,     \* tty1..: 1..n
          SerialTtys,      \* ttyS0..
          TtyReaders,      \* tasks that read a terminal or the keyboard
          LineSize,        \* elements of line_buf
          RingSize,        \* attr_chars in input_buf
          QUEUE_SIZE,      \* of the keyboard's events
          Scancodes,       \* what the keyboard sends: a row of the scancode tables
                           \* (keycode, number of a function key, character), pressed
          SerialChars,     \* what comes in over a serial line
          Modes,           \* sets of termios flags that programs set
          LiveGroups,      \* process groups with a member
          MaxTyped,        \* bound: characters typed
          MaxEvents,       \* bound: key interrupts
          ReadSizes,       \* what each task asks for
          MaxReads,        \* bound: reads of each task
          MaxIoctls        \* bound

VARIABLES tty,             \* struct tty, by device
          active,          \* active_device
          kbd,             \* keyboard.c: state, received_e0, the queue
          irq,             \* the event the interrupt handler has yet to queue
          reader,          \* where a task is in its read
          typed,           \* how many characters were typed
          ioctls,
          sent             \* ghost: signals sent to process groups

conVars == <<tty, active, kbd, irq, reader, typed, ioctls, sent>>

Ring == INSTANCE RingBuf WITH Capacity <- RingSize

Ttys == VirtualTtys \cup SerialTtys
Default == {"ECHO", "ICANON", "ISIG", "ECHOE", "ECHOK", "ECHONL", "ICRNL"}
NoEvent == [code |-> "none"]
Idle == [at |-> "user", of |-> 0, count |-> 0, reads |-> 0]

(* tty_init; `cols' is how many columns of the screen the line occupies,   *)
(* `got' the numbers of the characters read, `plain' says that the flags   *)
(* are still the default ones, `stuck' that a line was left in line_buf by *)
(* a change of mode, `overread' that an empty input_buf was read.          *)
FreshTty ==
  [flags |-> Default, pgid |-> 0, line |-> <<>>, ring |-> Ring!Fresh, cols |-> 0,
   got |-> <<>>, plain |-> TRUE, stuck |-> FALSE, overread |-> FALSE]

FreshKbd ==
  [state |-> {}, e0 |-> FALSE, read |-> 0, write |-> 0,
   queue |-> [i \in 0..(QUEUE_SIZE - 1) |-> NoEvent], got |-> <<>>, events |-> 0]

Init ==
  /\ tty = [t \in Ttys |-> FreshTty]
  /\ active = 1
  /\ kbd = FreshKbd
  /\ irq = NoEvent
  /\ reader = [r \in TtyReaders |-> Idle]
  /\ typed = 0
  /\ ioctls = 0
  /\ sent = {}

-----------------------------------------------------------------------------
(* The line discipline, on a record s: struct tty, and the error.          *)

Attr(c, ch, eol) == [ch |-> ch, eol |-> eol, id |-> c.id]

(* processed_echo of n columns that belong to the line; while the flags    *)
(* are the default ones they are counted.                                  *)
Echo(s, n) == IF s.plain /\ "ECHO" \in s.flags THEN [s EXCEPT !.cols = @ + n] ELSE s

do_backspace(s) ==
  IF s.line = <<>> THEN s
  ELSE [s EXCEPT !.line = Front(s.line),
                 !.cols = IF s.plain THEN @ - 1 ELSE @]

(* The bound is in bytes, an element of line_buf has two.                  *)
append_char(s, ac) ==
  IF Len(s.line) >= 2 * LineSize THEN s ELSE [s EXCEPT !.line = Append(@, ac)]

commit_line(s) ==
  IF s.line = <<>> THEN s
  ELSE [s EXCEPT !.ring = Ring!AfterEvictingWrite(@, s.line),
                 !.line = <<>>, !.cols = 0]

(* ISTRIP is looked for in c_lflag, where its bit is ECHOK's.              *)
Stripped(s, ch) == IF "ECHOK" \in s.flags /\ ch = "hi" THEN "x" ELSE ch

Translated(s, ch) ==
  IF ch = "cr" /\ "ICRNL" \in s.flags THEN "nl"
  ELSE IF ch = "nl" /\ "INLCR" \in s.flags THEN "cr"
  ELSE ch

Raw(s, c) ==
  [s EXCEPT !.ring = Ring!AfterEvictingWrite(@, <<Attr(c, c.ch, FALSE)>>)]

Kill(s) == [s EXCEPT !.line = <<>>, !.cols = IF s.plain THEN @ - Len(s.line) ELSE @]

(* A control character is put into the line as two: ^ and a letter.        *)
Ordinary(s, c) ==
  IF c.ch = "x"
  THEN append_char(Echo(s, 1), Attr(c, "x", FALSE))
  ELSE append_char(append_char(Echo(s, 2), Attr(c, "^", FALSE)), Attr(c, "@", FALSE))

Canonical(s, c) ==
  CASE c.ch = "kill" /\ "ECHOK" \in s.flags -> Kill(s)
    [] c.ch = "erase" /\ "ECHOE" \in s.flags -> do_backspace(s)
    [] c.ch = "eol" -> commit_line(s)
    [] c.ch = "eof" -> commit_line(append_char(s, Attr(c, "nul", TRUE)))
    [] c.ch = "nl" -> commit_line(append_char(s, Attr(c, "nl", TRUE)))
    [] OTHER -> Ordinary(s, c)

Signalled(s, ch) == "ISIG" \in s.flags /\ ch \in {"intr", "quit", "susp"}

(* on_char; the result of task_send_signal to a group with no member is an *)
(* error.                                                                  *)
on_char(e, c0) ==
  LET s == e.tty
      ch == Stripped(s, c0.ch)
      c == [c0 EXCEPT !.ch = Translated(s, ch)]
  IN IF Signalled(s, ch)
     THEN [e EXCEPT !.sent = @ \cup ({<<s.pgid, ch>>} \cap (LiveGroups \X {ch})),
                    !.err = s.pgid \notin LiveGroups]
     ELSE [e EXCEPT !.tty = IF "ICANON" \in s.flags THEN Canonical(s, c) ELSE Raw(s, c)]

(* tty_emit: the first error ends it.                                      *)
tty_emit(s, chars) ==
  LET step(e, c) == IF e.err THEN e ELSE on_char(e, c)
  IN FoldLeft(step, [tty |-> s, sent |-> sent, err |-> FALSE], chars)

(* The characters of one key or one byte, numbered.                        *)
Numbered(chars) == [i \in 1..Len(chars) |-> [ch |-> chars[i], id |-> typed + i]]

Emitted(t, chars) ==
  LET e == tty_emit(tty[t], Numbered(chars))
  IN /\ typed + Len(chars) <= MaxTyped
     /\ typed' = typed + Len(chars)
     /\ tty' = [tty EXCEPT ![t] = e.tty]
     /\ sent' = e.sent

-----------------------------------------------------------------------------
(* The keyboard.                                                           *)

(* set_state; only Alt heeds the prefix.                                   *)
StateOf(key) == IF key = "alt" /\ kbd.e0 THEN "altgr" ELSE key

StateAfter(key, pressed) ==
  IF key \notin {"alt", "ctrl", "shift"} THEN kbd.state
  ELSE IF pressed THEN kbd.state \cup {StateOf(key)}
  ELSE kbd.state \ {StateOf(key)}

(* The event that is given to the handler and to the queue.                *)
Event(k, pressed, mods) ==
  [code |-> k.code, fn |-> k.fn, key |-> k.key, mods |-> mods, pressed |-> pressed,
   id |-> kbd.events + 1]

(* on_key_event: Ctrl-Alt-Fn selects a console, the arrow keys are         *)
(* sequences, a key without a character is nothing.                        *)
Switches(e) == e.fn \in VirtualTtys /\ {"ctrl", "alt"} \subseteq e.mods

Typing(e) ==
  CASE e.code = "up" -> <<"esc", "x", "x">>
    [] e.key = "c" -> IF "ctrl" \in e.mods /\ "shift" \notin e.mods
                      THEN <<"intr">> ELSE <<"x">>
    [] OTHER -> <<e.key>>

on_key_event(e) ==
  \/ /\ e.pressed /\ Switches(e)
     /\ active' = e.fn
     /\ UNCHANGED <<tty, typed, sent>>
  \/ /\ e.pressed /\ ~Switches(e) /\ (e.code = "up" \/ e.key # "none")
     /\ Emitted(active, Typing(e))
     /\ UNCHANGED active
  \/ /\ ~e.pressed \/ (~Switches(e) /\ e.code # "up" /\ e.key = "none")
     /\ UNCHANGED <<tty, active, typed, sent>>

Prefix ==
  /\ irq = NoEvent /\ ~kbd.e0 /\ kbd.events < MaxEvents
  /\ kbd' = [kbd EXCEPT !.e0 = TRUE]
  /\ UNCHANGED <<tty, active, irq, reader, typed, ioctls, sent>>

irq_handler(k) ==
  LET mods == StateAfter(k.code, k.pressed)
      e == Event(k, k.pressed, mods)
  IN /\ irq = NoEvent
     /\ kbd.events < MaxEvents
     /\ kbd' = [kbd EXCEPT !.state = mods, !.e0 = FALSE, !.events = @ + 1]
     /\ on_key_event(e)
     /\ irq' = e
     /\ UNCHANGED <<reader, ioctls>>

(* The end of irq_handler; nobody looks whether the queue has room.        *)
Enqueue ==
  /\ irq # NoEvent
  /\ kbd' = [kbd EXCEPT !.queue[kbd.write] = irq, !.write = (@ + 1) % QUEUE_SIZE]
  /\ irq' = NoEvent
  /\ UNCHANGED <<tty, active, reader, typed, ioctls, sent>>

(* A byte on a serial line                                                 *)
SerialChar(t, ch) ==
  /\ Emitted(t, <<ch>>)
  /\ UNCHANGED <<active, kbd, irq, reader, ioctls>>

-----------------------------------------------------------------------------
(* Reading.  `of' is a terminal, or 0 for /dev/kbd.                        *)

can_read(d) == IF d = 0 THEN kbd.read # kbd.write ELSE ~Ring!IsEmpty(tty[d].ring)

BeginRead(r, d, count) ==
  /\ reader[r].at = "user" /\ reader[r].reads < MaxReads[r]
  /\ reader' = [reader EXCEPT ![r] = [at |-> "blocked", of |-> d, count |-> count,
                                      reads |-> @.reads + 1]]
  /\ UNCHANGED <<tty, active, kbd, irq, typed, ioctls, sent>>

ToUser(r) == reader' = [reader EXCEPT ![r].at = "user", ![r].of = 0, ![r].count = 0]

(* file_block returns: there is something, or a signal or O_NONBLOCK       *)
Woken(r) ==
  /\ reader[r].at = "blocked" /\ can_read(reader[r].of)
  /\ reader' = [reader EXCEPT ![r].at = "woken"]
  /\ UNCHANGED <<tty, active, kbd, irq, typed, ioctls, sent>>

GivesUp(r) ==
  /\ reader[r].at = "blocked"
  /\ ToUser(r)
  /\ UNCHANGED <<tty, active, kbd, irq, typed, ioctls, sent>>

(* Mutant: the reader sleeps again without looking.                        *)
BlockAgainBlindly(r) ==
  /\ reader[r].at = "woken"
  /\ reader' = [reader EXCEPT ![r].at = "blocked"]
  /\ UNCHANGED <<tty, active, kbd, irq, typed, ioctls, sent>>

(* Somebody else was faster.                                               *)
BlockAgain(r) ==
  /\ reader[r].at = "woken" /\ ~can_read(reader[r].of)
  /\ reader' = [reader EXCEPT ![r].at = "blocked"]
  /\ UNCHANGED <<tty, active, kbd, irq, typed, ioctls, sent>>

(* How many elements a read of count characters takes out of input_buf: it *)
(* stops after an end of line, which may have no character.  More than     *)
(* there are means that the loop went on with an empty buffer.             *)
Taken(ring, count) ==
  LET all == Ring!Bytes(ring, Ring!Length(ring))
      chars(n) == Cardinality({i \in 1..n : all[i].ch # "nul"})
      stop == {n \in 1..Len(all) : all[n].eol \/ chars(n) = count}
  IN IF stop = {} THEN Len(all) + 1 ELSE CHOOSE n \in stop : \A k \in stop : n <= k

Numbers(attrs) == [i \in 1..Len(attrs) |-> attrs[i].id]

(* Mutant: the end of the line stays in input_buf.                         *)
tty_pread_peeking(r) ==
  LET d == reader[r].of
      s == tty[d]
      n == Taken(s.ring, reader[r].count)
  IN /\ reader[r].at = "woken" /\ d # 0 /\ can_read(d)
     /\ IF n > Ring!Length(s.ring)
        THEN tty' = [tty EXCEPT ![d].overread = TRUE]
        ELSE tty' = [tty EXCEPT ![d].ring = Ring!AfterRead(@, n - 1),
                                ![d].got = @ \o Numbers(Ring!Bytes(s.ring, n))]
     /\ ToUser(r)
     /\ UNCHANGED <<active, kbd, irq, typed, ioctls, sent>>

(* What happens after an empty buffer was read is not modelled.            *)
tty_pread(r) ==
  LET d == reader[r].of
      s == tty[d]
      n == Taken(s.ring, reader[r].count)
  IN /\ reader[r].at = "woken" /\ d # 0 /\ can_read(d)
     /\ IF n > Ring!Length(s.ring)
        THEN tty' = [tty EXCEPT ![d].overread = TRUE]
        ELSE tty' = [tty EXCEPT ![d].ring = Ring!AfterRead(@, n),
                                ![d].got = @ \o Numbers(Ring!Bytes(s.ring, n))]
     /\ ToUser(r)
     /\ UNCHANGED <<active, kbd, irq, typed, ioctls, sent>>

(* As many whole events as fit; Queued(n) is the n-th unread one.          *)
QueueLen == (kbd.write + QUEUE_SIZE - kbd.read) % QUEUE_SIZE
Queued(n) == kbd.queue[(kbd.read + n - 1) % QUEUE_SIZE]

ps2_keyboard_device_pread(r) ==
  LET n == IF reader[r].count < QueueLen THEN reader[r].count ELSE QueueLen
  IN /\ reader[r].at = "woken" /\ reader[r].of = 0 /\ can_read(0)
     /\ kbd' = [kbd EXCEPT !.read = (@ + n) % QUEUE_SIZE,
                           !.got = @ \o [i \in 1..n |-> Queued(i).id]]
     /\ ToUser(r)
     /\ UNCHANGED <<tty, active, irq, typed, ioctls, sent>>

-----------------------------------------------------------------------------
(* ioctl: TCSETS and TCSETSW, TCSETSF, TIOCSPGRP                           *)

SetMode(s, flags) ==
  [s EXCEPT !.flags = flags, !.plain = FALSE,
            !.stuck = @ \/ (s.line # <<>> /\ "ICANON" \notin flags)]

Flushed(s) == [s EXCEPT !.line = <<>>, !.ring = Ring!Cleared(@)]

tty_ioctl(t) ==
  /\ ioctls < MaxIoctls /\ ioctls' = ioctls + 1
  /\ \/ \E flags \in Modes : tty' = [tty EXCEPT ![t] = SetMode(@, flags)]
     \/ \E flags \in Modes : tty' = [tty EXCEPT ![t] = Flushed(SetMode(@, flags))]
     \/ \E g \in LiveGroups : tty' = [tty EXCEPT ![t].pgid = g]
  /\ UNCHANGED <<active, kbd, irq, reader, typed, sent>>

Overread == \E t \in Ttys : tty[t].overread

ReaderStep(r) ==
  Woken(r) \/ BlockAgain(r) \/ tty_pread(r) \/ ps2_keyboard_device_pread(r)

Next ==
  /\ ~Overread
  /\ \/ Prefix \/ Enqueue
     \/ \E k \in Scancodes : irq_handler(k)
     \/ \E t \in SerialTtys, ch \in SerialChars : SerialChar(t, ch)
     \/ \E r \in TtyReaders, d \in Ttys \cup {0} : \E count \in ReadSizes[r] : BeginRead(r, d, count)
     \/ \E r \in TtyReaders : ReaderStep(r) \/ GivesUp(r)
     \/ \E t \in Ttys : tty_ioctl(t)

(* Weak fairness of ReaderStep(r), with what enables it written out.       *)
CanStep(r) ==
  reader[r].at = "woken" \/ (reader[r].at = "blocked" /\ can_read(reader[r].of))
Fairness ==
  \A r \in TtyReaders : []<>(~CanStep(r) \/ Overread) \/ []<><<ReaderStep(r)>>_conVars

Spec == Init /\ [][Next]_conVars /\ Fairness

-----------------------------------------------------------------------------
Unread(ring) == IF Ring!IsEmpty(ring) THEN <<>> ELSE Ring!Bytes(ring, Ring!Length(ring))
InOrderOnce(s) ==
  \A i \in 1..(Len(s) - 1) : s[i] <= s[i + 1] /\ (i > 1 => s[i - 1] < s[i + 1])

(* What readers were given, what input_buf holds and what is in the line   *)
(* are in the order typed and nothing is there twice (a control character  *)
(* is two), whoever reads and whatever was evicted; unless a change of     *)
(* mode left a line behind in line_buf (tty_ioctl), or a read ran past the *)
(* end of input_buf (tty_pread).  The events of /dev/kbd are read once and *)
(* in order even when the queue wrapped.                                   *)
TypedOnce ==
  /\ \A t \in Ttys : ~tty[t].stuck /\ ~tty[t].overread =>
       InOrderOnce(tty[t].got \o Numbers(Unread(tty[t].ring)) \o Numbers(tty[t].line))
  /\ \A i, j \in 1..Len(kbd.got) : i < j => kbd.got[i] < kbd.got[j]

(* With the default modes the screen shows of the line what line_buf holds *)
(* of it: do_backspace never erases what is not the line's.                *)
EchoMatchesLine ==
  \A t \in Ttys : tty[t].plain => tty[t].cols = Len(tty[t].line)

(* A task that sleeps in tty_pread or the keyboard's read while there is   *)
(* something to read returns, or another task has taken it.                *)
ReadersWake ==
  \A r \in TtyReaders :
    (reader[r].at # "user" /\ can_read(reader[r].of))
      ~> (reader[r].at = "user" \/ ~can_read(reader[r].of) \/ Overread)
=============================================================================
