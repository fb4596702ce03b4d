------------------------------- MODULE Script -------------------------------
(***************************************************************************)
(* The shell reading a script (script_main of userland/sh.c): the file     *)
(* goes through a buffer of BUF_SIZE bytes, one byte more ends it; a line  *)
(* is cut off at the front and what follows it is moved there.             *)
(*                                                                         *)
(* A script as long as the buffer or longer is outside the model: the      *)
(* buffer would be filled again from its beginning, over the lines that    *)
(* were moved there.                                                       *)
(***************************************************************************)
EXTENDS Integers, Sequences, SequencesExt

CONSTANTS BUF_SIZE, Scripts

VARIABLES script,   \* the file
          input,    \* the buffer
          reading,  \* the file has not been read
          ran,      \* the lines given to parse_and_run
          done

scriptVars == <<script, input, reading, ran, done>>

NL == "nl"
NUL == "nul"
Size == 0..BUF_SIZE

Init == /\ script \in Scripts
        /\ input = [i \in Size |-> NUL]
        /\ reading = TRUE /\ ran = <<>> /\ done = FALSE

(* The inner loop: read until the end of the file                          *)
Fill == /\ reading /\ reading' = FALSE
        /\ input' = [i \in Size |-> IF i < Len(script) THEN script[i + 1] ELSE input[i]]
        /\ UNCHANGED <<script, ran, done>>

Nearest(S) == CHOOSE n \in S : \A k \in S : n <= k
StrLen == Nearest({i \in Size : input[i] = NUL})
Newlines == {i \in 0..(StrLen - 1) : input[i] = NL}

(* What follows the newline at n goes to the front.                        *)
Moved(n) ==
  [i \in Size |-> IF i < BUF_SIZE - n - 1 THEN input[i + n + 1]
                  ELSE IF i = n THEN NUL ELSE input[i]]

Line(n) == [i \in 1..n |-> input[i - 1]]

(* A line is run; an empty one does nothing.                               *)
RunLine ==
  /\ ~reading /\ ~done
  /\ IF Newlines = {}
     THEN /\ ran' = Append(ran, Line(StrLen))
          /\ done' = TRUE /\ UNCHANGED input
     ELSE /\ ran' = Append(ran, Line(Nearest(Newlines)))
          /\ input' = Moved(Nearest(Newlines)) /\ UNCHANGED done
  /\ UNCHANGED <<script, reading>>

Next == Fill \/ RunLine

-----------------------------------------------------------------------------
Joined(lines) == FoldLeft(LAMBDA a, l : a \o <<NL>> \o l, lines[1], Tail(lines))

(* The lines run so far, joined again, are the beginning of the script,    *)
(* and all of it at the end: moving the rest of the buffer to its front    *)
(* neither loses nor repeats a line of a script that fits.                 *)
ScriptInOrder ==
  ran # <<>> => /\ IsPrefix(Joined(ran), script)
                /\ done => Joined(ran) = script
=============================================================================
