------------------------------ MODULE ShellRun ------------------------------
(***************************************************************************)
(* How the shell (userland/sh.c) runs a parsed line: run_command walks the *)
(* tree, forks subshells, joins them with pipes, replaces and restores its *)
(* own descriptors, and waits.                                             *)
(*                                                                         *)
(* A process is a record: `stack' the calls it has under way (an executed  *)
(* program has none), `rc' what the last call returned to the frame on     *)
(* top, `fds' its descriptors, each an open file.  What one process does   *)
(* between two waits is one step: others see of it only which ends of a    *)
(* pipe are open, and those only decide who may go on.                     *)
(* From the kernel come fork, exit, waitpid and the pipes: a pipe is the   *)
(* number of bytes in it, and its readers and writers are the processes    *)
(* with a descriptor of that end.                                          *)
(***************************************************************************)
EXTENDS Naturals, Sequences, FiniteSets, SequencesExt, FiniteSetsExt

CONSTANTS Lines,          \* the parsed lines that may be entered, first, second, ...
          Pids, Shell,    \* process ids; the shell's
          PipeIds,
          Capacity,       \* bytes a pipe holds
          MaxFd           \* bound: the largest descriptor

VARIABLES procs, pipes, tty, entered

runVars == <<procs, pipes, tty, entered>>

Init_ == 0            \* the parent of orphans

Closed == [k |-> "closed", n |-> 0]
Terminal == [k |-> "tty", n |-> 0]
Regular == [k |-> "file", n |-> 0]
ReadEnd(n) == [k |-> "r", n |-> n]
WriteEnd(n) == [k |-> "w", n |-> n]

Free == [st |-> "free", parent |-> Init_, pgid |-> 0, stack |-> <<>>, rc |-> "none",
         fds |-> [d \in 0..MaxFd |-> Closed], prog |-> "sh"]
ShellFds == [d \in 0..MaxFd |-> IF d \in 0..2 THEN Terminal ELSE Closed]

Frame(at, ctx) == [at |-> at, ctx |-> ctx, node |-> [t |-> "none"], pid |-> 0, saved |-> 0, fd |-> 0]
Call(node, ctx) == [Frame("call", ctx) EXCEPT !.node = node]
Foreground == [pgid |-> 0, fg |-> TRUE]

(* Execution of node in a frame below which `below' goes on                *)
Run(p, below, node, ctx) == [p EXCEPT !.stack = below \o <<Call(node, ctx)>>]
Below(p) == Front(p.stack)
Top(p) == p.stack[Len(p.stack)]
Returned(p, rc) == [p EXCEPT !.stack = Below(p), !.rc = rc]
Replace(p, frame) == [p EXCEPT !.stack = Append(Below(p), frame)]

Lowest(fds) == Min({d \in 0..MaxFd : fds[d] = Closed})
Dup(fds, from) == [fds EXCEPT ![Lowest(fds)] = fds[from]]
Dup2(fds, from, to) == [fds EXCEPT ![to] = fds[from]]
Close(fds, d) == [fds EXCEPT ![d] = Closed]

Holds(file) == \E p \in Pids : procs[p].st = "live" /\ \E d \in 0..MaxFd : procs[p].fds[d] = file
FreePids == {p \in Pids : procs[p].st = "free"}
NewPid == Min(FreePids)
FreePipes == {n \in PipeIds : ~Holds(ReadEnd(n)) /\ ~Holds(WriteEnd(n))}

Init == /\ procs = [p \in Pids |-> IF p = Shell
                     THEN [Free EXCEPT !.st = "live", !.pgid = Shell, !.fds = ShellFds,
                                       !.stack = <<Frame("prompt", Foreground)>>]
                     ELSE Free]
        /\ pipes = [n \in PipeIds |-> 0]
        /\ tty = Shell
        /\ entered = 0

AtPrompt == procs[Shell].st = "live" /\ Top(procs[Shell]).at = "prompt"

(* exit: the children pass to init, which reaps them.                      *)
Gone(ps, p, status) ==
  [q \in Pids |->
     IF q = p THEN IF ps[p].parent = Init_ /\ p # Shell THEN Free
                   ELSE [Free EXCEPT !.st = "dead", !.parent = ps[p].parent, !.prog = status]
     ELSE IF ps[q].parent = p /\ q # Shell
          THEN IF ps[q].st = "dead" THEN Free ELSE [ps[q] EXCEPT !.parent = Init_]
     ELSE ps[q]]

Becomes(p, new) == procs' = [procs EXCEPT ![p] = new]
Exits(p, status) == procs' = Gone(procs, p, status) /\ UNCHANGED <<pipes, tty>>
Forks(p, parent, child) ==
  procs' = [procs EXCEPT ![p] = parent, ![NewPid] = [child EXCEPT !.parent = p]]

(* parse_and_run: background processes that have ended are reaped.         *)
parse_and_run(line) ==
  /\ AtPrompt /\ procs[Shell].rc = "none" /\ entered < Len(Lines)
  /\ entered' = entered + 1
  /\ procs' = [q \in Pids |->
       CASE q = Shell -> Run(procs[q], procs[q].stack, line, Foreground)
         [] procs[q].st = "dead" /\ procs[q].parent = Shell -> Free
         [] OTHER -> procs[q]]
  /\ UNCHANGED <<pipes, tty>>

-----------------------------------------------------------------------------
At(p, t) == procs[p].stack # <<>> /\ Top(procs[p]).at = "call" /\ Top(procs[p]).node.t = t

(* run_execute: exit and cd are the shell's own; anything else is forked,  *)
(* and the child puts itself into its group, takes the terminal if its     *)
(* standard input is that, and becomes the program.                        *)
Builtin(p, x) ==
  \/ /\ x.node.argv = "exit"
     /\ Exits(p, "exited")
  \/ /\ x.node.argv = "cd"
     /\ \E rc \in {"ok", "error"} : Becomes(p, Returned(procs[p], rc))
     /\ UNCHANGED <<pipes, tty>>

Spawned(p, x, pid) ==
  [procs[p] EXCEPT !.stack = <<Frame("exec", [x.ctx EXCEPT !.pgid = IF @ = 0 THEN pid ELSE @])>>,
                   !.prog = x.node.argv]

(* pipe, fork or open fails, as it may at any time.                        *)
CallFails(p) ==
  /\ Becomes(p, Returned(procs[p], "error"))
  /\ UNCHANGED <<pipes, tty>>

run_execute(p) ==
  /\ At(p, "execute")
  /\ LET x == Top(procs[p]) IN
       \/ Builtin(p, x)
       \/ /\ x.node.argv \notin {"exit", "cd"}
          /\ \/ /\ FreePids # {}
                /\ Forks(p, Replace(procs[p], [Frame("wait", x.ctx) EXCEPT !.pid = NewPid]),
                         Spawned(p, x, NewPid))
                /\ UNCHANGED <<pipes, tty>>
             \/ CallFails(p)
  /\ UNCHANGED entered

exec(p) ==
  /\ procs[p].stack # <<>> /\ Top(procs[p]).at = "exec"
  /\ LET ctx == Top(procs[p]).ctx IN
       /\ tty' = IF ctx.fg /\ procs[p].fds[0] = Terminal THEN ctx.pgid ELSE tty
       /\ IF procs[p].prog = "missing"
          THEN procs' = Gone(procs, p, "signaled")
          ELSE Becomes(p, [procs[p] EXCEPT !.stack = <<>>, !.pgid = ctx.pgid])
  /\ UNCHANGED <<pipes, entered>>

run_juxtaposition(p) ==
  /\ At(p, "juxtaposition")
  /\ LET x == Top(procs[p]) IN
       Becomes(p, Run(procs[p], Append(Below(procs[p]), [x EXCEPT !.at = "right"]), x.node.left, x.ctx))
  /\ UNCHANGED <<pipes, tty, entered>>

(* The left side runs in a subshell whose standard output is the pipe, the *)
(* right side in this process with the pipe as its standard input; both    *)
(* sides' programs are in the subshell's group.                            *)

(* Mutant: the subshell does not close the pipe's read end.                *)
LeftSideReading(p, x, n, pid) ==
  LET ctx == [x.ctx EXCEPT !.pgid = IF @ = 0 THEN pid ELSE @]
  IN Run([procs[p] EXCEPT !.fds = [@ EXCEPT ![1] = WriteEnd(n), ![Lowest(@)] = ReadEnd(n)]],
         <<Frame("subshell", ctx)>>, x.node.left, ctx)

LeftSide(p, x, n, pid) ==
  LET ctx == [x.ctx EXCEPT !.pgid = IF @ = 0 THEN pid ELSE @]
  IN Run([procs[p] EXCEPT !.fds = [@ EXCEPT ![1] = WriteEnd(n)]],
         <<Frame("subshell", ctx)>>, x.node.left, ctx)

RightSide(p, x, n, pid) ==
  LET saved == Lowest(procs[p].fds)
      ctx == [x.ctx EXCEPT !.pgid = IF @ = 0 THEN pid ELSE @]
  IN Run([procs[p] EXCEPT !.fds = [Dup(@, 0) EXCEPT ![0] = ReadEnd(n)]],
         Append(Below(procs[p]), [Frame("pipe", ctx) EXCEPT !.pid = pid, !.saved = saved]),
         x.node.right, ctx)

run_pipe(p) ==
  /\ At(p, "pipe")
  /\ \/ /\ FreePipes # {} /\ FreePids # {}
        /\ LET x == Top(procs[p])
               n == Min(FreePipes)
           IN /\ Forks(p, RightSide(p, x, n, NewPid), LeftSide(p, x, n, NewPid))
              /\ pipes' = [pipes EXCEPT ![n] = 0]
        /\ UNCHANGED tty
     \/ CallFails(p)
  /\ UNCHANGED entered

run_redirect(p) ==
  /\ At(p, "redirect")
  /\ \/ /\ LET x == Top(procs[p])
               d == x.node.fd
               saved == Lowest(procs[p].fds)
           IN Becomes(p, Run([procs[p] EXCEPT !.fds = [Dup(@, d) EXCEPT ![d] = Regular]],
                Append(Below(procs[p]), [Frame("redirect", x.ctx) EXCEPT !.saved = saved, !.fd = d]),
                x.node.left, x.ctx))
        /\ UNCHANGED <<pipes, tty>>
     \/ CallFails(p)
  /\ UNCHANGED entered

run_background(p) ==
  /\ At(p, "background")
  /\ \/ /\ FreePids # {}
        /\ LET ctx == [pgid |-> NewPid, fg |-> FALSE]
           IN Forks(p, Returned(procs[p], "ok"),
                    Run(procs[p], <<Frame("subshell", ctx)>>, Top(procs[p]).node.left, ctx))
        /\ UNCHANGED <<pipes, tty>>
     \/ CallFails(p)
  /\ UNCHANGED entered

-----------------------------------------------------------------------------
(* What follows a call: the frame on top goes on with what it returned.    *)
Resumes(p, at) == procs[p].rc # "none" /\ Top(procs[p]).at = at

AfterLeft(p) ==
  /\ Resumes(p, "right")
  /\ LET x == Top(procs[p]) IN
       Becomes(p, IF procs[p].rc # "ok" THEN Returned(procs[p], procs[p].rc)
                  ELSE [Run(procs[p], Below(procs[p]), x.node.right, x.ctx) EXCEPT !.rc = "none"])
  /\ UNCHANGED <<pipes, tty, entered>>

AfterRight(p) ==
  /\ Resumes(p, "pipe")
  /\ LET x == Top(procs[p])
         q == [procs[p] EXCEPT !.fds = Close(Dup2(@, x.saved, 0), x.saved)]
     IN Becomes(p, IF q.rc # "ok" THEN Returned(q, q.rc)
                   ELSE [Replace(q, [x EXCEPT !.at = "pipewait"]) EXCEPT !.rc = "none"])
  /\ UNCHANGED <<pipes, tty, entered>>

(* Mutant: an inner failure returns without restoring.                     *)
AfterInnerEarly(p) ==
  /\ Resumes(p, "redirect")
  /\ LET x == Top(procs[p]) IN
       Becomes(p, IF procs[p].rc # "ok" THEN Returned(procs[p], procs[p].rc)
                  ELSE [Returned(procs[p], procs[p].rc) EXCEPT
                          !.fds = Close(Dup2(@, x.saved, x.fd), x.saved)])
  /\ UNCHANGED <<pipes, tty, entered>>

AfterInner(p) ==
  /\ Resumes(p, "redirect")
  /\ LET x == Top(procs[p]) IN
       Becomes(p, [Returned(procs[p], procs[p].rc) EXCEPT
                     !.fds = Close(Dup2(@, x.saved, x.fd), x.saved)])
  /\ UNCHANGED <<pipes, tty, entered>>

(* A subshell aborts after RUN_ERROR.                                      *)
SubshellEnds(p) ==
  /\ Resumes(p, "subshell")
  /\ Exits(p, IF procs[p].rc = "error" THEN "signaled" ELSE "exited")
  /\ UNCHANGED entered

(* Back in the main loop: RUN_ERROR ends the shell.                        *)
LineDone(p) ==
  /\ Resumes(p, "prompt")
  /\ IF procs[p].rc = "error" THEN Exits(p, "exited")
     ELSE Becomes(p, [procs[p] EXCEPT !.rc = "none"]) /\ UNCHANGED <<pipes, tty>>
  /\ UNCHANGED entered

(* waitpid of one process, which is reaped; run_pipe does not look at how  *)
(* it ended.                                                               *)
waitpid(p) ==
  /\ procs[p].stack # <<>> /\ procs[p].rc = "none"
  /\ Top(procs[p]).at \in {"wait", "pipewait"}
  /\ LET q == Top(procs[p]).pid IN
       /\ procs[q].st = "dead"
       /\ procs' = [procs EXCEPT ![q] = Free,
            ![p] = Returned(@, IF Top(@).at = "wait" /\ procs[q].prog = "signaled"
                               THEN "signaled" ELSE "ok")]
  /\ UNCHANGED <<pipes, tty, entered>>

-----------------------------------------------------------------------------
(* The programs: "echo" writes once and ends, "cat" copies until the end   *)
(* of its input, "endless" (cat of a device) writes for ever, "true" ends. *)
(* The user ends the terminal's input at once.                             *)
Program(p) == procs[p].st = "live" /\ procs[p].stack = <<>>

(* Writes once; the processes are then `after'.                            *)
Write(p, after) ==
  LET out == procs[p].fds[1] IN
  /\ UNCHANGED tty
  /\ CASE out.k = "w" /\ ~Holds(ReadEnd(out.n)) ->
            procs' = Gone(procs, p, "signaled") /\ UNCHANGED pipes
       [] out.k = "w" /\ Holds(ReadEnd(out.n)) ->
            /\ pipes[out.n] < Capacity
            /\ pipes' = [pipes EXCEPT ![out.n] = @ + 1] /\ procs' = after
       [] OTHER -> procs' = after /\ UNCHANGED pipes

Ends(p) == procs' = Gone(procs, p, "exited") /\ UNCHANGED tty

echo(p) == procs[p].prog = "echo" /\ Write(p, Gone(procs, p, "exited"))
endless(p) == procs[p].prog = "endless" /\ Write(p, procs)

(* cat has read a block and is about to write it.                          *)
catRead(p) ==
  /\ procs[p].prog = "cat"
  /\ LET in == procs[p].fds[0] IN
       \/ /\ in.k = "r" /\ pipes[in.n] > 0
          /\ pipes' = [pipes EXCEPT ![in.n] = @ - 1]
          /\ Becomes(p, [procs[p] EXCEPT !.prog = "copying"]) /\ UNCHANGED tty
       \/ /\ in.k = "r" => pipes[in.n] = 0 /\ ~Holds(WriteEnd(in.n))
          /\ Ends(p) /\ UNCHANGED pipes
catWrite(p) ==
  /\ procs[p].prog = "copying"
  /\ Write(p, [procs EXCEPT ![p].prog = "cat"])

quiet(p) == procs[p].prog = "true" /\ Ends(p) /\ UNCHANGED pipes

Utility(p) ==
  /\ Program(p)
  /\ echo(p) \/ endless(p) \/ catRead(p) \/ catWrite(p) \/ quiet(p)
  /\ UNCHANGED entered

-----------------------------------------------------------------------------
Walk(p) == \/ run_execute(p) \/ run_juxtaposition(p) \/ run_pipe(p) \/ run_redirect(p)
           \/ run_background(p)
Resume(p) == \/ AfterLeft(p) \/ AfterRight(p) \/ AfterInner(p) \/ SubshellEnds(p) \/ LineDone(p)

Step(p) ==
  /\ procs[p].st = "live"
  /\ \/ procs[p].rc = "none" /\ Walk(p)
     \/ procs[p].stack # <<>> /\ Resume(p)
     \/ exec(p) \/ waitpid(p) \/ Utility(p)

Next == \/ \E l \in Lines[Min({entered + 1, Len(Lines)})] : parse_and_run(l)
        \/ \E p \in Pids : Step(p)

Fairness == \A p \in Pids : WF_runVars(Step(p))
Spec == Init /\ [][Next]_runVars /\ Fairness

-----------------------------------------------------------------------------
(* Back at the prompt the shell has the descriptors it started with: no    *)
(* redirection and no end of a pipe outlives its line, whatever failed.    *)
PromptFds == AtPrompt /\ procs[Shell].rc = "none" => procs[Shell].fds = ShellFds

(* Programs joined by a pipe are in one group, and the terminal belongs to *)
(* no background program.                                                  *)
PipelineOneGroup ==
  \A p, q \in {r \in Pids : Program(r)} :
    procs[p].fds[1].k = "w" /\ procs[q].fds[0] = ReadEnd(procs[p].fds[1].n)
      => procs[p].pgid = procs[q].pgid

(* A line that is entered comes to its end: no process of a pipeline waits *)
(* for another because someone kept an end of a pipe open, and a writer    *)
(* without a reader is ended.                                              *)
PromptReturns == ~AtPrompt ~> (AtPrompt \/ procs[Shell].st # "live")
=============================================================================
