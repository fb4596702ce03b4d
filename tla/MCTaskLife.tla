----------------------------- MODULE MCTaskLife -----------------------------
(***************************************************************************)
(* Processes: a behaviour is about the life of tasks, the signals of one,  *)
(* an execve, or threads of the C library.                                 *)
(***************************************************************************)
EXTENDS TaskLife

CONSTANTS Tasks, Term, Ign, Cont, Stop, Unblockable, Actions, Masks, SuspendMasks,
          MaxSent, MaxCalls, ArgLists, StackSizes, Base, W, NumRandom, Threads

VARIABLES which, pending, blocked, call, frames, alive, action, wanted, sent, calls,
          xpc, args, size, ptr, badFree, vmRefs, vm, mem, sp, tables, area,
          pstate, retval, at, memory, main

Sig == INSTANCE Signals
X == INSTANCE Exec WITH pc <- xpc
Thr == INSTANCE Pthread WITH state <- pstate

sigVars == <<pending, blocked, call, frames, alive, action, wanted, sent, calls>>
execVars == <<xpc, args, size, ptr, badFree, vmRefs, vm, mem, sp, tables, area>>
pthreadVars == <<pstate, retval, at, memory, main>>

H(mask, flags) == [handler |-> "handler", mask |-> mask, flags |-> flags]
MCActions == { H({20}, {"RESTART"}), H({}, {"NODEFER", "RESETHAND"}),
               [handler |-> "ignore", mask |-> {}, flags |-> {}] }
MCArgLists == { <<>>, <<<<7>>>>, <<<<7, 8>>, <<>>>>, <<<<>>, <<7, 8, 9, 7>>>> }

(* Only a behaviour about execve begins with arguments.                    *)
MCInit == /\ Init /\ Sig!Init /\ X!Init /\ Thr!Init
          /\ which \in {"tasks", "signals", "exec", "threads"}
          /\ which # "exec" => args = [argv |-> <<>>, envp |-> <<>>] /\ size = 64 /\ vmRefs.old = 1
MCNext ==
  /\ UNCHANGED which
  /\ \/ which = "tasks" /\ Next /\ UNCHANGED <<sigVars, execVars, pthreadVars>>
     \/ which = "signals" /\ Sig!Next /\ UNCHANGED <<vars, execVars, pthreadVars>>
     \/ which = "exec" /\ X!Next /\ UNCHANGED <<vars, sigVars, pthreadVars>>
     \/ which = "threads" /\ Thr!Next /\ UNCHANGED <<vars, sigVars, execVars>>
MCVars == <<which, vars, sigVars, execVars, pthreadVars>>
(* In the initial state of each part none of its fair actions is enabled:  *)
(* a behaviour about the others is fair to it.                             *)
MCSpec == MCInit /\ [][MCNext]_MCVars /\ Fairness /\ Sig!Fairness

(* Zombies left to init are reaped, killed tasks die, and a signal that is *)
(* pending and not blocked is acted upon.                                  *)
TasksReact == OrphansReaped /\ KilledDies /\ Sig!SignalActs

(* Handlers nest, and leave the mask the program asked for.                *)
HandlersNest == Sig!HandlersNest

(* The program finds on its stack what execve was given, and execve gives  *)
(* back once what it allocated, whatever fails.                            *)
ExecExact == X!StackAsGiven /\ X!GivenBack

(* A thread's memory is given back once and its value handed over.         *)
HandedOver == Thr!HandedOver
=============================================================================
