------------------------------ MODULE MCShell ------------------------------
(***************************************************************************)
(* The shell: a behaviour is about its line editor, its parser, a script,  *)
(* or a line that runs.                                                    *)
(***************************************************************************)
EXTENDS ShellRun

CONSTANTS BufSize, KeySet, Directory, PathDirectories, MaxHistory, MaxEntered, MaxParams,
          MAX_ARGC, Characters, MaxLine, Memories, BUF_SIZE, Scripts

VARIABLES which, ed, text, point, line, nodes, script, input, reading, ran, done

E == INSTANCE LineEditor
P == INSTANCE ShellParser
F == INSTANCE Script

edVars == <<ed, text, point>>
parserVars == <<line, nodes>>
scriptVars == <<script, input, reading, ran, done>>

MCDirectory == << <<"b">>, <<"a", "b">> >>
MCPath == << << <<"b", "a">> >> >>
Ch(c) == [c |-> c, n |-> 0]
MCKeySet == { Ch(c) : c \in {"a", "b", " ", "esc", "nl", "^B", "^P", "^N", "^H", "^U", "^K", "^D", "tab", "[", "D", "~"} }
             \cup {[c |-> "a", n |-> 3]}

X(a) == [t |-> "execute", argv |-> a]
Pipe(l, r) == [t |-> "pipe", left |-> l, right |-> r]
Jux(l, r) == [t |-> "juxtaposition", left |-> l, right |-> r]
Redirect(l, d) == [t |-> "redirect", left |-> l, fd |-> d]
Back(l) == [t |-> "background", left |-> l]

MCLines == <<
  { X("exit"), Redirect(X("missing"), 1), Pipe(X("exit"), X("cat")),
    Pipe(X("endless"), Pipe(X("cat"), X("true"))), Pipe(X("echo"), Pipe(X("cat"), X("cat"))),
    Jux(Back(Pipe(X("endless"), X("missing"))), X("true")),
    Jux(Back(X("endless")), Pipe(X("echo"), Pipe(X("echo"), X("true")))),
    Jux(Pipe(X("endless"), X("echo")), Redirect(Redirect(X("cat"), 0), 1)) },
  { X("cd") } >>

MCScripts == UNION {[1..n -> {"a", "b", "nl"}] : n \in 0..(BUF_SIZE - 1)}

MCInit == /\ Init /\ E!Init /\ P!Init /\ F!Init /\ which \in {"editor", "parser", "script", "run"}
          /\ which # "script" => script = <<>>
MCNext ==
  /\ UNCHANGED which
  /\ \/ which = "editor" /\ E!Next /\ UNCHANGED <<parserVars, runVars, scriptVars>>
     \/ which = "parser" /\ P!Next /\ UNCHANGED <<edVars, runVars, scriptVars>>
     \/ which = "script" /\ F!Next /\ UNCHANGED <<edVars, parserVars, runVars>>
     \/ which = "run" /\ Next /\ UNCHANGED <<edVars, parserVars, scriptVars>>
MCFairness ==
  \A p \in Pids : WF_runVars(/\ which = "run" /\ Step(p)
                            /\ UNCHANGED <<which, edVars, parserVars, scriptVars>>)
MCSpec == MCInit /\ [][MCNext]_<<runVars, edVars, parserVars, scriptVars, which>> /\ MCFairness

(* The line editor's buffer holds the line a user would say it does, the   *)
(* parser accepts the well-formed lines and keeps their words in order,    *)
(* and the lines of a script that fits are run once each, in order.        *)
LinesExact == E!EditorExact /\ P!ParsesTheLine /\ F!ScriptInOrder

(* Back at the prompt the shell has the descriptors it started with, and   *)
(* programs joined by a pipe are in one group.                             *)
PipelinesExact == PromptFds /\ PipelineOneGroup
=============================================================================
