------------------------------ MODULE TaskLife ------------------------------
(***************************************************************************)
(* Birth and death of tasks: sys_clone and sys_wait4 of syscall/task.c,    *)
(* exit, exit_group and the signals they send in task.c, and the loop of   *)
(* userland/init.c that reaps what has been left to it.                    *)
(*                                                                         *)
(* A thread group is a set of tasks with one tgid; the group and the table *)
(* of signal handlers are counted objects that its tasks point to.  Only   *)
(* the list of all tasks is locked: clone and exit may be preempted, or    *)
(* overtaken by another CPU, between any two of the steps below.           *)
(***************************************************************************)
EXTENDS Naturals, FiniteSets

CONSTANTS
  Tids,       \* 1..n: tids are handed out in order and never reused
  NoTid       \* the NULL pointer, or ppid 0

InitTid == 1
ASSUME TidsAssumption == InitTid \in Tids /\ Tids \subseteq Nat /\ NoTid \notin Tids

VARIABLES
  state,        \* task->state; NEW until sched_register, FREED after the last unref
  listed,       \* the tasks on the list all_tasks
  tgid, ppid,
  exitSignal,   \* task->exit_signal is not 0: a process leader's SIGCHLD
  killed,       \* SIGKILL is in pending_signals
  threadGroup,  \* task->thread_group; a group has the name of its leader
  sighand,      \* task->sighand; a table has the name of the task it was made for
  numRunning,   \* thread_group->num_running
  groupRefs,    \* thread_group->ref_count
  sighandRefs,  \* sighand->ref_count
  pc,           \* where a task is in sys_clone or exit
  arg,          \* the child sys_clone builds, or the ppid read for task_send_signal
  notified      \* history: exit signals sent on behalf of a group

vars == <<state, listed, tgid, ppid, exitSignal, killed, threadGroup, sighand,
          numRunning, groupRefs, sighandRefs, pc, arg, notified>>

Pcs == {"user", "clone", "exit", "notify", "unref", "clear", "reparent", "dead"}

TypeOK ==
  /\ state \in [Tids -> {"NEW", "RUNNING", "DEAD", "FREED"}]
  /\ listed \subseteq Tids
  /\ tgid \in [Tids -> Tids \cup {NoTid}]
  /\ ppid \in [Tids -> Tids \cup {NoTid}]
  /\ exitSignal \in [Tids -> BOOLEAN]
  /\ killed \in [Tids -> BOOLEAN]
  /\ threadGroup \in [Tids -> Tids \cup {NoTid}]
  /\ sighand \in [Tids -> Tids \cup {NoTid}]
  /\ numRunning \in [Tids -> Nat]
  /\ groupRefs \in [Tids -> Nat]
  /\ sighandRefs \in [Tids -> Nat]
  /\ pc \in [Tids -> Pcs]
  /\ arg \in [Tids -> Tids \cup {NoTid}]
  /\ notified \in [Tids -> Nat]

(* task_create and userland_init: the init task is the only one.           *)
OnlyInit(x, y) == [t \in Tids |-> IF t = InitTid THEN x ELSE y]
Init ==
  /\ state = OnlyInit("RUNNING", "NEW")
  /\ listed = {InitTid}
  /\ tgid = OnlyInit(InitTid, NoTid)
  /\ ppid = [t \in Tids |-> NoTid]
  /\ exitSignal = [t \in Tids |-> FALSE]
  /\ killed = [t \in Tids |-> FALSE]
  /\ threadGroup = OnlyInit(InitTid, NoTid)
  /\ sighand = OnlyInit(InitTid, NoTid)
  /\ numRunning = OnlyInit(1, 0)
  /\ groupRefs = OnlyInit(1, 0)
  /\ sighandRefs = OnlyInit(1, 0)
  /\ pc = [t \in Tids |-> "user"]
  /\ arg = [t \in Tids |-> NoTid]
  /\ notified = [t \in Tids |-> 0]

-----------------------------------------------------------------------------
(* t executes at l; a killed task executes no more user code.              *)
At(t, l) == state[t] = "RUNNING" /\ pc[t] = l /\ (l = "user" => ~killed[t])
Goto(t, l) == pc' = [pc EXCEPT ![t] = l]

Fresh(u) == /\ tgid[u] = NoTid
            /\ \A v \in Tids : tgid[v] = NoTid => u <= v

(* sys_clone up to the last thing that can fail: the child is built, and   *)
(* holds references, but nobody else can see it.  A thread takes over the  *)
(* ppid its creator has now.  (init.c forks, and creates no threads.)      *)
Clone(t, thread) ==
  /\ At(t, "user")
  /\ thread => t # InitTid
  /\ \E u \in Tids :
       /\ Fresh(u)
       /\ LET g == IF thread THEN threadGroup[t] ELSE u
              h == IF thread THEN sighand[t] ELSE u
          IN /\ tgid' = [tgid EXCEPT ![u] = IF thread THEN tgid[t] ELSE u]
             /\ ppid' = [ppid EXCEPT ![u] = IF thread THEN ppid[t] ELSE tgid[t]]
             /\ exitSignal' = [exitSignal EXCEPT ![u] = ~thread]
             /\ threadGroup' = [threadGroup EXCEPT ![u] = g]
             /\ sighand' = [sighand EXCEPT ![u] = h]
             /\ groupRefs' = [groupRefs EXCEPT ![g] = @ + 1]
             /\ sighandRefs' = [sighandRefs EXCEPT ![h] = @ + 1]
       /\ arg' = [arg EXCEPT ![t] = u]
  /\ Goto(t, "clone")
  /\ UNCHANGED <<state, listed, killed, numRunning, notified>>

(* The end of sys_clone: count the child as running and sched_register it. *)
CloneRegister(t) ==
  LET u == arg[t] IN
  /\ At(t, "clone")
  /\ numRunning' = [numRunning EXCEPT ![threadGroup[u]] = @ + 1]
  /\ state' = [state EXCEPT ![u] = "RUNNING"]
  /\ listed' = listed \cup {u}
  /\ arg' = [arg EXCEPT ![t] = NoTid]
  /\ Goto(t, "user")
  /\ UNCHANGED <<tgid, ppid, exitSignal, killed, threadGroup, sighand, groupRefs,
                 sighandRefs, notified>>

(* Mutant: the error path forgets the signal handlers.                     *)
CloneFailKeepingSighand(t) ==
  LET u == arg[t] IN
  /\ At(t, "clone")
  /\ groupRefs' = [groupRefs EXCEPT ![threadGroup[u]] = @ - 1]
  /\ threadGroup' = [threadGroup EXCEPT ![u] = NoTid]
  /\ sighand' = [sighand EXCEPT ![u] = NoTid]
  /\ state' = [state EXCEPT ![u] = "FREED"]
  /\ arg' = [arg EXCEPT ![t] = NoTid]
  /\ Goto(t, "user")
  /\ UNCHANGED <<listed, tgid, ppid, exitSignal, killed, numRunning, sighandRefs, notified>>

(* The error path of sys_clone (no memory, a bad user pointer).            *)
CloneFail(t) ==
  LET u == arg[t] IN
  /\ At(t, "clone")
  /\ groupRefs' = [groupRefs EXCEPT ![threadGroup[u]] = @ - 1]
  /\ sighandRefs' = [sighandRefs EXCEPT ![sighand[u]] = @ - 1]
  /\ threadGroup' = [threadGroup EXCEPT ![u] = NoTid]
  /\ sighand' = [sighand EXCEPT ![u] = NoTid]
  /\ state' = [state EXCEPT ![u] = "FREED"]
  /\ arg' = [arg EXCEPT ![t] = NoTid]
  /\ Goto(t, "user")
  /\ UNCHANGED <<listed, tgid, ppid, exitSignal, killed, numRunning, notified>>

-----------------------------------------------------------------------------
(* task_send_signal(to, SIGKILL): the tasks on the list that match and     *)
(* still have handlers (do_send_signal).  A SIGKILL for init, which makes  *)
(* exit panic, is left out.                                                *)
Kills(targets) ==
  killed' = [u \in Tids |-> killed[u] \/ (u \in listed \cap targets /\ sighand[u] # NoTid)]

(* kill(pid, SIGKILL) of another process.                                  *)
Kill(t, u) ==
  /\ At(t, "user")
  /\ u \in listed \ {t, InitTid} /\ ~killed[u]
  /\ Kills({u})
  /\ UNCHANGED <<state, listed, tgid, ppid, exitSignal, threadGroup, sighand, numRunning,
                 groupRefs, sighandRefs, pc, arg, notified>>

(* exit_group, or the default action of a fatal signal found by            *)
(* task_pop_signal: kill the rest of the group, then exit.                 *)
ExitGroup(t) ==
  /\ state[t] = "RUNNING" /\ pc[t] = "user" /\ t # InitTid
  /\ Kills({u \in Tids \ {t} : tgid[u] = tgid[t]})
  /\ Goto(t, "exit")
  /\ UNCHANGED <<state, listed, tgid, ppid, exitSignal, threadGroup, sighand, numRunning,
                 groupRefs, sighandRefs, arg, notified>>

(* sys_exit: this thread only.                                             *)
ExitThread(t) ==
  /\ At(t, "user") /\ t # InitTid
  /\ Goto(t, "exit")
  /\ UNCHANGED <<state, listed, tgid, ppid, exitSignal, killed, threadGroup, sighand,
                 numRunning, groupRefs, sighandRefs, arg, notified>>

(* Mutant: every thread of the group tells the parent.                     *)
ExitBeginAlwaysNotifying(t) ==
  LET g == threadGroup[t] IN
  /\ At(t, "exit")
  /\ numRunning[g] > 0
  /\ numRunning' = [numRunning EXCEPT ![g] = @ - 1]
  /\ IF ppid[t] # NoTid /\ exitSignal[t]
       THEN Goto(t, "notify") /\ arg' = [arg EXCEPT ![t] = ppid[t]]
       ELSE Goto(t, "unref") /\ UNCHANGED arg
  /\ UNCHANGED <<state, listed, tgid, ppid, exitSignal, killed, threadGroup, sighand,
                 groupRefs, sighandRefs, notified>>

(* exit: the last running task of the group, if it is the leader, reads    *)
(* its ppid in order to tell the parent.                                   *)
ExitBegin(t) ==
  LET g == threadGroup[t] IN
  /\ At(t, "exit")
  /\ numRunning[g] > 0                        \* ASSERTed
  /\ numRunning' = [numRunning EXCEPT ![g] = @ - 1]
  /\ IF numRunning[g] = 1 /\ ppid[t] # NoTid /\ exitSignal[t]
       THEN Goto(t, "notify") /\ arg' = [arg EXCEPT ![t] = ppid[t]]
       ELSE Goto(t, "unref") /\ UNCHANGED arg
  /\ UNCHANGED <<state, listed, tgid, ppid, exitSignal, killed, threadGroup, sighand,
                 groupRefs, sighandRefs, notified>>

(* task_send_signal(ppid, SIGCHLD) by the tid read before.                 *)
ExitNotify(t) ==
  /\ At(t, "notify")
  /\ arg[t] \in listed                        \* ASSERTed: see ExitSignalSent
  /\ notified' = [notified EXCEPT ![threadGroup[t]] = @ + 1]
  /\ arg' = [arg EXCEPT ![t] = NoTid]
  /\ Goto(t, "unref")
  /\ UNCHANGED <<state, listed, tgid, ppid, exitSignal, killed, threadGroup, sighand,
                 numRunning, groupRefs, sighandRefs>>

(* The release of the group, the handlers, the files: the pointer to the   *)
(* handlers is cleared after the object may have been freed.               *)
ExitUnref(t) ==
  /\ At(t, "unref")
  /\ groupRefs' = [groupRefs EXCEPT ![threadGroup[t]] = @ - 1]
  /\ threadGroup' = [threadGroup EXCEPT ![t] = NoTid]
  /\ sighandRefs' = [sighandRefs EXCEPT ![sighand[t]] = @ - 1]
  /\ Goto(t, "clear")
  /\ UNCHANGED <<state, listed, tgid, ppid, exitSignal, killed, sighand, numRunning,
                 arg, notified>>

ExitClear(t) ==
  /\ At(t, "clear")
  /\ sighand' = [sighand EXCEPT ![t] = NoTid]
  /\ Goto(t, "reparent")
  /\ UNCHANGED <<state, listed, tgid, ppid, exitSignal, killed, threadGroup, numRunning,
                 groupRefs, sighandRefs, arg, notified>>

(* Under all_tasks_lock, the children of the group go to init.             *)
ExitReparent(t) ==
  /\ At(t, "reparent")
  /\ ppid' = [u \in Tids |-> IF u \in listed /\ ppid[u] = tgid[t] THEN InitTid ELSE ppid[u]]
  /\ Goto(t, "dead")
  /\ UNCHANGED <<state, listed, tgid, exitSignal, killed, threadGroup, sighand, numRunning,
                 groupRefs, sighandRefs, arg, notified>>

ExitDead(t) ==
  /\ At(t, "dead")
  /\ state' = [state EXCEPT ![t] = "DEAD"]
  /\ UNCHANGED <<listed, tgid, ppid, exitSignal, killed, threadGroup, sighand, numRunning,
                 groupRefs, sighandRefs, pc, arg, notified>>

-----------------------------------------------------------------------------
Children(t) == {u \in listed : ppid[u] = tgid[t]}
Member(g) == {u \in listed : tgid[u] = g}

(* wait4 finds a dead task among the targets and frees it: the children of *)
(* the caller's group for pid -1, any task of a given group for pid > 0.   *)
(* Without one the caller stays blocked, or returns -ECHILD.               *)
WaitFor(t, targets) ==
  /\ At(t, "user")
  /\ \E u \in targets :
       /\ state[u] = "DEAD"
       /\ \A v \in targets : state[v] = "DEAD" => u <= v
       /\ state' = [state EXCEPT ![u] = "FREED"]
       /\ listed' = listed \ {u}
  /\ UNCHANGED <<tgid, ppid, exitSignal, killed, threadGroup, sighand, numRunning,
                 groupRefs, sighandRefs, pc, arg, notified>>

(* Mutant: wait4 only finds threads of the caller's own group.             *)
WaitAnyOwn(t) == WaitFor(t, {u \in listed : ppid[u] = t /\ tgid[u] = tgid[t]})

WaitAny(t) == WaitFor(t, Children(t))
WaitGroup(t, g) == WaitFor(t, Member(g))

-----------------------------------------------------------------------------
ExitStep(t) ==
  \/ ExitBegin(t) \/ ExitNotify(t) \/ ExitUnref(t)
  \/ ExitClear(t) \/ ExitReparent(t) \/ ExitDead(t)

CloneStep(t) == CloneRegister(t) \/ CloneFail(t)

Next ==
  \E t \in Tids :
    \/ Clone(t, FALSE) \/ Clone(t, TRUE) \/ CloneStep(t)
    \/ \E u \in Tids : Kill(t, u) \/ WaitGroup(t, u)
    \/ ExitGroup(t) \/ ExitThread(t) \/ ExitStep(t)
    \/ WaitAny(t)

Spec == Init /\ [][Next]_vars

(* The scheduler runs every task, a killed one dies at its next return to  *)
(* user mode, and init waits for ever (the last loop of init.c).           *)
Fairness ==
  /\ \A t \in Tids : WF_vars(ExitStep(t) \/ CloneStep(t) \/ (killed[t] /\ ExitGroup(t)))
  /\ WF_vars(WaitAny(InitTid))
FairSpec == Spec /\ Fairness

-----------------------------------------------------------------------------
(* The counters of the shared objects say how many tasks point to them,    *)
(* through every interleaving of clone, its error path and exit: nothing   *)
(* leaks and nothing is freed under a task.  A task between the unref and  *)
(* the clearing of its sighand holds a pointer it has given up.            *)
RefCountsExact ==
  \A o \in Tids :
    /\ groupRefs[o] = Cardinality({t \in Tids : threadGroup[t] = o})
    /\ sighandRefs[o] = Cardinality({t \in Tids : sighand[t] = o /\ pc[t] # "clear"})

(* A process tells its parent at most once, and only when no thread of it  *)
(* is running or can be created any more (exit, num_running).              *)
NotifiesOnceAtTheEnd ==
  \A g \in Tids :
    /\ notified[g] <= 1
    /\ notified[g] = 1 => \A t \in listed :
         tgid[t] = g => state[t] = "DEAD" \/ pc[t] \in {"unref", "clear", "reparent", "dead"}

(* No process is left with a dead parent: its ppid is init's, or names a   *)
(* process with a running thread, whose exit will hand it on.  (A thread   *)
(* may have a stale ppid, which it copied before it was on the list.)      *)
OrphansAdopted ==
  \A t \in listed :
    exitSignal[t] => \E u \in Member(ppid[t]) : state[u] = "RUNNING"

(* A process tells its parent once, at its very end, and no process is     *)
(* left with a dead parent.                                                *)
FamiliesExact == NotifiesOnceAtTheEnd /\ OrphansAdopted

(* ASSERT_OK in exit: the parent that is to be told is on the list.        *)
ExitSignalSent == \A t \in Tids : At(t, "notify") => arg[t] \in listed

(* A failed ASSERT_OK panics: the other CPUs are stopped, nothing follows. *)
Panicked == ~ExitSignalSent

(* Zombies left to init are reaped ("Reap zombies" in init.c).             *)
OrphansReaped ==
  \A t \in Tids :
    (state[t] = "DEAD" /\ ppid[t] = InitTid) ~> (state[t] = "FREED" \/ Panicked)

(* A killed task dies, whatever it was doing when the signal came.         *)
KilledDies ==
  \A t \in Tids : killed[t] ~> (state[t] \in {"DEAD", "FREED"} \/ Panicked)
=============================================================================
