------------------------------- MODULE Sched -------------------------------
(***************************************************************************)
(* The scheduler of kernel/sched.c on one or more CPUs, with the parts of  *)
(* a task's life that hand the task to it or take it back: sched_register  *)
(* (fork), sched_block, exit and the reaping of a dead child by wait4.     *)
(*                                                                         *)
(* A task is on exactly one of these sides at a time: queued, on a CPU,    *)
(* blocked, or dead.  The ready queue, the list of all tasks and the       *)
(* per-task state word are shared by the CPUs; only the two lists are      *)
(* locked.  A CPU with interrupts off (everything from push_cli in         *)
(* sched_block or sched_yield to the resumption of the next task) is not   *)
(* preempted, but the other CPUs run on: each of its accesses to shared    *)
(* state is a step of its own.                                             *)
(*                                                                         *)
(* An unblock function is abstracted to a condition that the rest of the   *)
(* kernel makes true or false at will ("event"), except unblock_waitpid,   *)
(* which has an effect: it unlinks the dead child it found.                *)
(***************************************************************************)
EXTENDS Naturals, Sequences, FiniteSets

CONSTANTS
  Cpus,       \* the CPUs that called sched_start
  Tasks,      \* tids, in the order the list of all tasks is sorted by
  Root,       \* tid 1, the init task
  Idle,       \* a CPU's idle task (tid 0, never on a list)
  NoTask,     \* the NULL pointer
  NoCpu,      \* all_tasks_lock is free
  Signalled   \* bound: the tasks that are sent signals

ASSUME TasksAssumption == Tasks \subseteq Nat /\ Root \in Tasks
ASSUME NoTaskAssumption == {Idle, NoTask} \cap Tasks = {} /\ Idle # NoTask
ASSUME NoCpuAssumption == NoCpu \notin Cpus
ASSUME SignalledAssumption == Signalled \subseteq Tasks

VARIABLES
  state,        \* task->state; NEW before sched_register, FREED after kfree
  refCount,     \* task->ref_count
  ppid,         \* task->ppid
  allTasks,     \* the list all_tasks, as a set: its order is the tids'
  readyQueue,   \* the list ready_queue
  allTasksLock, \* the CPU in a critical section of all_tasks_lock that spans steps
  event,        \* what the unblock function of a blocking task would return now
  signal,       \* pending_signals & ~blocked_signals is not empty
  interrupted,  \* task->interrupted
  sleep,        \* arguments of the task's current sched_block call
  waited,       \* waitpid_blocker.waited_task, or the child sys_clone registers
  tpc,          \* where a task is in its own kernel code
  current,      \* cpu->current_task
  prev,         \* prev_task in switch_context
  stack,        \* whose kernel stack the CPU is executing on
  scan,         \* the tasks unblock_tasks has still to visit
  cpc           \* where a CPU is in the scheduler; "run" outside it

taskVars == <<state, refCount, ppid, event, signal, interrupted, sleep, waited, tpc>>
listVars == <<allTasks, readyQueue, allTasksLock>>
cpuVars == <<current, prev, stack, scan, cpc>>
vars == <<taskVars, listVars, cpuVars>>

Blocked == {"INTERRUPTIBLE", "UNINTERRUPTIBLE"}
States == Blocked \cup {"NEW", "RUNNING", "DEAD", "FREED"}
Sleeps == [flag : Blocked, wait : BOOLEAN]
NoSleep == [flag |-> "INTERRUPTIBLE", wait |-> FALSE]   \* outside sched_block
Tpcs == {"user", "block", "asleep", "reap", "register"}
Cpcs == {"run", "unref", "save", "switch", "scan", "dequeue", "stack", "requeue"}

TypeOK ==
  /\ state \in [Tasks -> States]
  /\ refCount \in [Tasks -> Nat]
  /\ ppid \in [Tasks -> Tasks \cup {NoTask}]
  /\ event \in [Tasks -> BOOLEAN]
  /\ signal \in [Tasks -> BOOLEAN]
  /\ interrupted \in [Tasks -> BOOLEAN]
  /\ sleep \in [Tasks -> Sleeps]
  /\ waited \in [Tasks -> Tasks \cup {NoTask}]
  /\ tpc \in [Tasks -> Tpcs]
  /\ allTasks \subseteq Tasks
  /\ readyQueue \in Seq(Tasks)
  /\ allTasksLock \in Cpus \cup {NoCpu}
  /\ current \in [Cpus -> Tasks \cup {Idle, NoTask}]
  /\ prev \in [Cpus -> Tasks \cup {NoTask}]
  /\ stack \in [Cpus -> Tasks \cup {Idle}]
  /\ scan \in [Cpus -> SUBSET Tasks]
  /\ cpc \in [Cpus -> Cpcs]

(* main.c start: the init task is spawned and every CPU enters             *)
(* switch_context from sched_start, with no task yet.                      *)
Init ==
  /\ state = [t \in Tasks |-> IF t = Root THEN "RUNNING" ELSE "NEW"]
  /\ refCount = [t \in Tasks |-> IF t = Root THEN 2 ELSE 0]
  /\ ppid = [t \in Tasks |-> NoTask]
  /\ event = [t \in Tasks |-> FALSE]
  /\ signal = [t \in Tasks |-> FALSE]
  /\ interrupted = [t \in Tasks |-> FALSE]
  /\ sleep = [t \in Tasks |-> NoSleep]
  /\ waited = [t \in Tasks |-> NoTask]
  /\ tpc = [t \in Tasks |-> "user"]
  /\ allTasks = {Root}
  /\ readyQueue = <<Root>>
  /\ allTasksLock = NoCpu
  /\ current = [c \in Cpus |-> NoTask]
  /\ prev = [c \in Cpus |-> NoTask]
  /\ stack = [c \in Cpus |-> Idle]
  /\ scan = [c \in Cpus |-> {}]
  /\ cpc = [c \in Cpus |-> "switch"]

-----------------------------------------------------------------------------
Queued(t) == \E i \in 1..Len(readyQueue) : readyQueue[i] = t

(* Tasks u that unblock_waitpid takes for children of t.                   *)
Children(t) == {u \in allTasks : ppid[u] = t}
DeadChildren(t) == {u \in Children(t) : state[u] = "DEAD"}
First(S) == CHOOSE u \in S : \A v \in S : u <= v

(* The unblock function of a sched_block call by t with arguments s: what  *)
(* it returns, and the child it unlinks (none for an ordinary condition).  *)
Found(t, s) ==
  IF s.wait /\ DeadChildren(t) # {} THEN First(DeadChildren(t)) ELSE NoTask
Unblocks(t, s) ==
  IF s.wait THEN Children(t) = {} \/ Found(t, s) # NoTask ELSE event[t]

(* t executes its own code on c, outside the scheduler.                    *)
Runs(c, t) == cpc[c] = "run" /\ current[c] = t

GotoT(t, l) == tpc' = [tpc EXCEPT ![t] = l]
GotoC(c, l) == cpc' = [cpc EXCEPT ![c] = l]

-----------------------------------------------------------------------------
(* What the tasks do.                                                      *)

(* Mutant: sched_register takes no reference for the list.                 *)
ForkWithoutRef(c, t) ==
  /\ Runs(c, t) /\ tpc[t] = "user"
  /\ allTasksLock = NoCpu
  /\ \E u \in Tasks :
       /\ state[u] = "NEW" /\ \A v \in Tasks : state[v] = "NEW" => u <= v
       /\ state' = [state EXCEPT ![u] = "RUNNING"]
       /\ refCount' = [refCount EXCEPT ![u] = 1]
       /\ ppid' = [ppid EXCEPT ![u] = t]
       /\ allTasks' = allTasks \cup {u}
       /\ waited' = [waited EXCEPT ![t] = u]
  /\ GotoT(t, "register")
  /\ UNCHANGED <<event, signal, interrupted, sleep, readyQueue, allTasksLock, cpuVars>>

(* sys_clone up to the insertion in sched_register: the child is created   *)
(* with one reference, takes another for the list, and is linked.          *)
Fork(c, t) ==
  /\ Runs(c, t) /\ tpc[t] = "user"
  /\ allTasksLock = NoCpu
  /\ \E u \in Tasks :
       /\ state[u] = "NEW" /\ \A v \in Tasks : state[v] = "NEW" => u <= v
       /\ state' = [state EXCEPT ![u] = "RUNNING"]
       /\ refCount' = [refCount EXCEPT ![u] = 2]
       /\ ppid' = [ppid EXCEPT ![u] = t]
       /\ allTasks' = allTasks \cup {u}
       /\ waited' = [waited EXCEPT ![t] = u]
  /\ GotoT(t, "register")
  /\ UNCHANGED <<event, signal, interrupted, sleep, readyQueue, allTasksLock, cpuVars>>

(* The enqueue_ready at the end of sched_register.                         *)
ForkEnqueue(c, t) ==
  /\ Runs(c, t) /\ tpc[t] = "register"
  /\ ~Queued(waited[t])
  /\ readyQueue' = Append(readyQueue, waited[t])
  /\ waited' = [waited EXCEPT ![t] = NoTask]
  /\ GotoT(t, "user")
  /\ UNCHANGED <<state, refCount, ppid, event, signal, interrupted, sleep,
                 allTasks, allTasksLock, cpuVars>>

(* sched_block up to the first test of the unblock function, for a plain   *)
(* condition (true or false at this moment) or for wait4: when the test    *)
(* succeeds the call returns at once.                                      *)
Block(c, t) ==
  /\ Runs(c, t) /\ tpc[t] = "user"
  /\ interrupted' = [interrupted EXCEPT ![t] = FALSE]
  /\ \E s \in Sleeps :
       /\ s.wait => s.flag = "INTERRUPTIBLE" /\ allTasksLock = NoCpu
       /\ waited' = [waited EXCEPT ![t] = Found(t, s)]
       /\ allTasks' = allTasks \ {Found(t, s)}
       /\ \/ /\ s.wait => Unblocks(t, s)
             /\ GotoT(t, IF Found(t, s) = NoTask THEN "user" ELSE "reap")
             /\ UNCHANGED sleep
          \/ /\ s.wait => ~Unblocks(t, s)
             /\ GotoT(t, "block")
             /\ sleep' = [sleep EXCEPT ![t] = s]
  /\ UNCHANGED <<state, refCount, ppid, event, signal, readyQueue, allTasksLock, cpuVars>>

(* With interrupts off, the task says how it can be unblocked and changes  *)
(* its state: from here on unblock_tasks may pick it up.  sched_yield(false)*)
(* follows.                                                                *)
BlockPublish(c, t) ==
  /\ Runs(c, t) /\ tpc[t] = "block"
  /\ state' = [state EXCEPT ![t] = sleep[t].flag]
  /\ GotoT(t, "asleep")
  /\ GotoC(c, "unref")
  /\ UNCHANGED <<refCount, ppid, event, signal, interrupted, sleep, waited,
                 listVars, current, prev, stack, scan>>

(* The task is resumed inside sched_block and returns -EINTR or 0; wait4   *)
(* goes on with the child that was found for it.                           *)
BlockReturn(c, t) ==
  /\ Runs(c, t) /\ tpc[t] = "asleep"
  /\ GotoT(t, IF ~interrupted[t] /\ waited[t] # NoTask THEN "reap" ELSE "user")
  /\ sleep' = [sleep EXCEPT ![t] = NoSleep]
  /\ event' = [event EXCEPT ![t] = FALSE]
  /\ UNCHANGED <<state, refCount, ppid, signal, interrupted, waited, listVars, cpuVars>>

(* The end of wait4: the list's reference to the child, now wait4's, goes. *)
Reap(c, t) ==
  /\ Runs(c, t) /\ tpc[t] = "reap"
  /\ LET u == waited[t] IN
       /\ refCount' = [refCount EXCEPT ![u] = @ - 1]
       /\ state' = [state EXCEPT ![u] = IF refCount[u] = 1 THEN "FREED" ELSE @]
  /\ waited' = [waited EXCEPT ![t] = NoTask]
  /\ GotoT(t, "user")
  /\ UNCHANGED <<ppid, event, signal, interrupted, sleep, listVars, cpuVars>>

(* The end of exit() in task.c: children go to init, the task is dead and  *)
(* sched_yield(false) follows.  The two halves are in separate critical    *)
(* sections of the code, but interrupts are off and only DEAD publishes.   *)
Exit(c, t) ==
  /\ Runs(c, t) /\ tpc[t] = "user" /\ t # Root
  /\ allTasksLock = NoCpu
  /\ ppid' = [u \in Tasks |-> IF u \in allTasks /\ ppid[u] = t THEN Root ELSE ppid[u]]
  /\ state' = [state EXCEPT ![t] = "DEAD"]
  /\ GotoC(c, "unref")
  /\ UNCHANGED <<refCount, event, signal, interrupted, sleep, waited, tpc,
                 listVars, current, prev, stack, scan>>

(* task_pop_signal on the way back to user mode.                           *)
PopSignal(c, t) ==
  /\ Runs(c, t) /\ tpc[t] = "user" /\ signal[t]
  /\ signal' = [signal EXCEPT ![t] = FALSE]
  /\ UNCHANGED <<state, refCount, ppid, event, interrupted, sleep, waited, tpc,
                 listVars, cpuVars>>

(* The rest of the kernel: the condition of a sched_block call changes, or *)
(* a signal is sent (task_send_signal, under the list's lock) to a task    *)
(* that is not dead.                                                       *)
Happen(t) ==
  /\ tpc[t] \in {"block", "asleep"} /\ ~sleep[t].wait
  /\ event' = [event EXCEPT ![t] = ~@]
  /\ UNCHANGED <<state, refCount, ppid, signal, interrupted, sleep, waited, tpc,
                 listVars, cpuVars>>

SendSignal(t) ==
  /\ allTasksLock = NoCpu /\ t \in allTasks /\ state[t] # "DEAD" /\ ~signal[t]
  /\ signal' = [signal EXCEPT ![t] = TRUE]
  /\ UNCHANGED <<state, refCount, ppid, event, interrupted, sleep, waited, tpc,
                 listVars, cpuVars>>

-----------------------------------------------------------------------------
(* What the CPUs do.                                                       *)

(* Mutant: sched_tick returns early when the idle task was interrupted.    *)
YieldNeverIdle(c) ==
  /\ cpc[c] = "run" /\ current[c] # Idle
  /\ GotoC(c, "switch")
  /\ UNCHANGED <<taskVars, listVars, current, prev, stack, scan>>

(* Mutant: sched_tick preempts nothing but the idle task.                  *)
YieldOnlyIdle(c) ==
  /\ cpc[c] = "run" /\ current[c] = Idle
  /\ GotoC(c, "switch")
  /\ UNCHANGED <<taskVars, listVars, current, prev, stack, scan>>

(* sched_yield(true): a timer tick, sched_yield(2), a busy mutex.  The     *)
(* context is saved at once: nobody else can pick the task up before       *)
(* switch_context requeues it.                                             *)
Yield(c) ==
  /\ cpc[c] = "run"
  /\ GotoC(c, "switch")
  /\ UNCHANGED <<taskVars, listVars, current, prev, stack, scan>>

(* sched_yield(false): drop the CPU's reference, forget the task, and only *)
(* then save the context it will be resumed with.                          *)
YieldUnref(c) ==
  LET t == current[c] IN
  /\ cpc[c] = "unref"
  /\ refCount[t] > 1                    \* ASSERTed: see FreedByOther
  /\ refCount' = [refCount EXCEPT ![t] = @ - 1]
  /\ current' = [current EXCEPT ![c] = NoTask]
  /\ GotoC(c, "save")
  /\ UNCHANGED <<state, ppid, event, signal, interrupted, sleep, waited, tpc,
                 listVars, prev, stack, scan>>

YieldSave(c) ==
  /\ cpc[c] = "save"
  /\ GotoC(c, "switch")
  /\ UNCHANGED <<taskVars, listVars, current, prev, stack, scan>>

(* switch_context, from its start to the acquisition of all_tasks_lock.    *)
SwitchContext(c) ==
  /\ cpc[c] = "switch"
  /\ allTasksLock = NoCpu
  /\ prev' = [prev EXCEPT ![c] = IF current[c] = Idle THEN NoTask ELSE current[c]]
  /\ allTasksLock' = c
  /\ scan' = [scan EXCEPT ![c] = allTasks]
  /\ GotoC(c, "scan")
  /\ UNCHANGED <<taskVars, allTasks, readyQueue, current, stack>>

(* One iteration of unblock_tasks over a task that stays as it is.         *)
ScanSkip(c) ==
  /\ cpc[c] = "scan" /\ scan[c] # {}
  /\ LET t == First(scan[c]) IN
       /\ \/ state[t] \notin Blocked
          \/ ~Unblocks(t, sleep[t]) /\ ~(state[t] = "INTERRUPTIBLE" /\ signal[t])
       /\ scan' = [scan EXCEPT ![c] = @ \ {t}]
  /\ UNCHANGED <<taskVars, listVars, current, prev, stack, cpc>>

(* Mutant: the queue takes no reference to the task it is given.           *)
ScanWakeWithoutRef(c) ==
  /\ cpc[c] = "scan" /\ scan[c] # {}
  /\ LET t == First(scan[c])
         intr == state[t] = "INTERRUPTIBLE" /\ signal[t]
         found == IF intr THEN NoTask ELSE Found(t, sleep[t])
     IN /\ state[t] \in Blocked
        /\ intr \/ Unblocks(t, sleep[t])
        /\ ~Queued(t)
        /\ interrupted' = [interrupted EXCEPT ![t] = intr]
        /\ state' = [state EXCEPT ![t] = "RUNNING"]
        /\ refCount' = refCount
        /\ readyQueue' = Append(readyQueue, t)
        /\ waited' = [waited EXCEPT ![t] = found]
        /\ allTasks' = allTasks \ {found}
        /\ scan' = [scan EXCEPT ![c] = @ \ {t, found}]
  /\ UNCHANGED <<ppid, event, signal, sleep, tpc, allTasksLock, current, prev, stack, cpc>>

(* Mutant: the state of a task is not looked at before it is woken.        *)
ScanWakeAnyState(c) ==
  /\ cpc[c] = "scan" /\ scan[c] # {}
  /\ LET t == First(scan[c])
         intr == state[t] = "INTERRUPTIBLE" /\ signal[t]
         found == IF intr THEN NoTask ELSE Found(t, sleep[t])
     IN /\ state[t] \in Blocked \cup {"RUNNING"}
        /\ intr \/ Unblocks(t, sleep[t])
        /\ ~Queued(t)
        /\ interrupted' = [interrupted EXCEPT ![t] = intr]
        /\ state' = [state EXCEPT ![t] = "RUNNING"]
        /\ refCount' = [refCount EXCEPT ![t] = @ + 1]
        /\ readyQueue' = Append(readyQueue, t)
        /\ waited' = [waited EXCEPT ![t] = found]
        /\ allTasks' = allTasks \ {found}
        /\ scan' = [scan EXCEPT ![c] = @ \ {t, found}]
  /\ UNCHANGED <<ppid, event, signal, sleep, tpc, allTasksLock, current, prev, stack, cpc>>

(* Mutant: a signal interrupts an uninterruptible sleep too.               *)
ScanWakeIgnoringFlag(c) ==
  /\ cpc[c] = "scan" /\ scan[c] # {}
  /\ LET t == First(scan[c])
         intr == signal[t]
         found == IF intr THEN NoTask ELSE Found(t, sleep[t])
     IN /\ state[t] \in Blocked
        /\ intr \/ Unblocks(t, sleep[t])
        /\ ~Queued(t)
        /\ interrupted' = [interrupted EXCEPT ![t] = intr]
        /\ state' = [state EXCEPT ![t] = "RUNNING"]
        /\ refCount' = [refCount EXCEPT ![t] = @ + 1]
        /\ readyQueue' = Append(readyQueue, t)
        /\ waited' = [waited EXCEPT ![t] = found]
        /\ allTasks' = allTasks \ {found}
        /\ scan' = [scan EXCEPT ![c] = @ \ {t, found}]
  /\ UNCHANGED <<ppid, event, signal, sleep, tpc, allTasksLock, current, prev, stack, cpc>>

(* One iteration over a task that is woken: by a signal, without asking    *)
(* the unblock function, or because the unblock function returned true.    *)
ScanWake(c) ==
  /\ cpc[c] = "scan" /\ scan[c] # {}
  /\ LET t == First(scan[c])
         intr == state[t] = "INTERRUPTIBLE" /\ signal[t]
         found == IF intr THEN NoTask ELSE Found(t, sleep[t])
     IN /\ state[t] \in Blocked
        /\ intr \/ Unblocks(t, sleep[t])
        /\ ~Queued(t)
        /\ interrupted' = [interrupted EXCEPT ![t] = intr]
        /\ state' = [state EXCEPT ![t] = "RUNNING"]
        /\ refCount' = [refCount EXCEPT ![t] = @ + 1]
        /\ readyQueue' = Append(readyQueue, t)
        /\ waited' = [waited EXCEPT ![t] = found]
        /\ allTasks' = allTasks \ {found}
        /\ scan' = [scan EXCEPT ![c] = @ \ {t, found}]
  /\ UNCHANGED <<ppid, event, signal, sleep, tpc, allTasksLock, current, prev, stack, cpc>>

ScanDone(c) ==
  /\ cpc[c] = "scan" /\ scan[c] = {}
  /\ allTasksLock' = NoCpu
  /\ GotoC(c, "dequeue")
  /\ UNCHANGED <<taskVars, allTasks, readyQueue, current, prev, stack, scan>>

(* dequeue_ready: the head of the queue, or the CPU's idle task.  The CPU  *)
(* still executes on the stack it came in on.                              *)
Dequeue(c) ==
  /\ cpc[c] = "dequeue"
  /\ current' = [current EXCEPT ![c] = IF readyQueue = <<>> THEN Idle ELSE Head(readyQueue)]
  /\ readyQueue' = IF readyQueue = <<>> THEN <<>> ELSE Tail(readyQueue)
  /\ GotoC(c, "stack")
  /\ UNCHANGED <<taskVars, allTasks, allTasksLock, prev, stack, scan>>

(* The assembly of switch_context: load esp of the next task; afterwards   *)
(* the previous one, if it is to go on, is put back on the queue.          *)
SwitchStack(c) ==
  /\ cpc[c] = "stack"
  /\ stack' = [stack EXCEPT ![c] = current[c]]
  /\ GotoC(c, IF prev[c] = NoTask THEN "run" ELSE "requeue")
  /\ UNCHANGED <<taskVars, listVars, current, prev, scan>>

Requeue(c) ==
  /\ cpc[c] = "requeue"
  /\ state[prev[c]] = "RUNNING" /\ ~Queued(prev[c])    \* ASSERTed by enqueue_ready
  /\ readyQueue' = Append(readyQueue, prev[c])
  /\ prev' = [prev EXCEPT ![c] = NoTask]
  /\ GotoC(c, "run")
  /\ UNCHANGED <<taskVars, allTasks, allTasksLock, current, stack, scan>>

-----------------------------------------------------------------------------
TaskStep(c, t) ==
  \/ Fork(c, t) \/ ForkEnqueue(c, t)
  \/ Block(c, t) \/ BlockPublish(c, t) \/ BlockReturn(c, t)
  \/ Reap(c, t) \/ Exit(c, t) \/ PopSignal(c, t)

SwitchStep(c) ==
  \/ YieldUnref(c) \/ YieldSave(c) \/ SwitchContext(c)
  \/ ScanSkip(c) \/ ScanWake(c) \/ ScanDone(c)
  \/ Dequeue(c) \/ SwitchStack(c) \/ Requeue(c)

Next ==
  \/ \E c \in Cpus : Yield(c) \/ SwitchStep(c)
  \/ \E c \in Cpus, t \in Tasks : TaskStep(c, t)
  \/ \E t \in Tasks : Happen(t)
  \/ \E t \in Signalled : SendSignal(t)

Spec == Init /\ [][Next]_vars

(* A CPU with interrupts off runs on to the next task, and the timer keeps *)
(* ticking.  Tasks, conditions and signals owe nothing.                    *)
Fairness == \A c \in Cpus : WF_vars(SwitchStep(c)) /\ WF_vars(Yield(c))
FairSpec == Spec /\ Fairness

-----------------------------------------------------------------------------
Bit(p) == IF p THEN 1 ELSE 0

(* c has t and will requeue it or let it block: not a CPU on its way out   *)
(* of a task that is already blocked or dead.                              *)
Owns(c, t) == (current[c] = t /\ cpc[c] # "unref") \/ prev[c] = t
Registers(u, t) == tpc[u] = "register" /\ waited[u] = t

(* No task is lost and none is duplicated, whatever the CPUs do at once: a *)
(* runnable task is on the queue once, or on one CPU, or in the hands of   *)
(* the parent registering it, and never at two of these places; a blocked  *)
(* or dead one is at none (enqueue_ready, unblock_tasks, switch_context).  *)
OneSide ==
  /\ \A i, j \in 1..Len(readyQueue) : readyQueue[i] = readyQueue[j] => i = j
  /\ \A t \in Tasks :
       /\ \A c, d \in Cpus : Owns(c, t) /\ Owns(d, t) => c = d
       /\ \A u, v \in Tasks : Registers(u, t) /\ Registers(v, t) => u = v
       /\ \A c \in Cpus : Owns(c, t) => ~Queued(t)
       /\ \A u \in Tasks : Registers(u, t) => ~Queued(t)
       /\ \A c \in Cpus, u \in Tasks : ~(Owns(c, t) /\ Registers(u, t))
       /\ state[t] = "RUNNING" <=>
            \/ Queued(t)
            \/ \E c \in Cpus : Owns(c, t)
            \/ \E u \in Tasks : Registers(u, t)

(* ref_count is exactly the number of pointers the lists, the queue, the   *)
(* CPUs and the wait4 or clone calls in progress hold to the task.         *)
Holding(cur, prv, t) == {c \in Cpus : cur[c] = t \/ prv[c] = t}
Waiting(w, t) == {u \in Tasks : w[u] = t}
RefCountExact ==
  \A t \in Tasks :
    refCount[t] = Bit(t \in allTasks) + Bit(Queued(t))
                  + Cardinality(Holding(current, prev, t)) + Cardinality(Waiting(waited, t))

(* The assertion "task != current" of task_unref: sched_yield(false) never *)
(* drops the last reference to the task whose stack it runs on.            *)
FreedByOther ==
  \A c \in Cpus : cpc[c] = "unref" => refCount[current[c]] > 1

(* The comment in switch_context: no CPU uses the stack of a task while    *)
(* another CPU is still using it.                                          *)
StackExclusive ==
  \A c, d \in Cpus : c # d /\ stack[c] = stack[d] => stack[c] = Idle

(* sched_block returns -EINTR only if a signal is there to be handled, and *)
(* never to a caller that asked for BLOCK_UNINTERRUPTIBLE.                 *)
InterruptedHasSignal ==
  \A t \in Tasks : state[t] = "RUNNING" /\ tpc[t] = "asleep" /\ interrupted[t] =>
    signal[t] /\ sleep[t].flag = "INTERRUPTIBLE"

(* A queued task gets a CPU.                                               *)
ReadyRuns == \A t \in Tasks : Queued(t) ~> \E c \in Cpus : Runs(c, t)

(* No wakeup is lost: a task does not stay blocked while its condition, or *)
(* the death of a child it waits for, or a signal it accepts, holds on.    *)
NoLostWakeup ==
  \A t \in Tasks :
    []<>~(/\ state[t] \in Blocked
          /\ \/ Unblocks(t, sleep[t])
             \/ state[t] = "INTERRUPTIBLE" /\ signal[t])

-----------------------------------------------------------------------------
(* What makes OneSide inductive: where the pointers of a CPU may point at  *)
(* each of its steps, and what a task may be doing in each of its states.  *)
CpuShape ==
  \A c \in Cpus :
    /\ cpc[c] \in {"run", "unref", "save", "switch"} => prev[c] = NoTask
    /\ cpc[c] \in {"scan", "dequeue"} =>
         prev[c] = IF current[c] = Idle THEN NoTask ELSE current[c]
    /\ cpc[c] \in {"stack", "requeue"} => current[c] # NoTask /\ current[c] # prev[c]
    /\ cpc[c] = "requeue" => prev[c] # NoTask
    /\ cpc[c] = "unref" => current[c] \in Tasks
    /\ cpc[c] = "save" => current[c] = NoTask

TaskShape ==
  \A t \in Tasks :
    /\ state[t] \in Blocked => tpc[t] = "asleep"
    /\ tpc[t] \in {"register", "reap"} => waited[t] # NoTask
    /\ waited[t] # NoTask /\ tpc[t] # "register" => state[waited[t]] \in {"DEAD", "FREED"}

(* The part of TypeOK that OneSide depends on.                             *)
PlaceTypeOK ==
  /\ state \in [Tasks -> States]
  /\ waited \in [Tasks -> Tasks \cup {NoTask}]
  /\ tpc \in [Tasks -> Tpcs]
  /\ sleep \in [Tasks -> Sleeps]
  /\ allTasks \subseteq Tasks
  /\ readyQueue \in Seq(Tasks)
  /\ current \in [Cpus -> Tasks \cup {Idle, NoTask}]
  /\ prev \in [Cpus -> Tasks \cup {NoTask}]
  /\ scan \in [Cpus -> SUBSET Tasks]
  /\ cpc \in [Cpus -> Cpcs]

IInv == PlaceTypeOK /\ CpuShape /\ TaskShape /\ OneSide
=============================================================================
