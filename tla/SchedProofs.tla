---------------------------- MODULE SchedProofs ----------------------------
(***************************************************************************)
(* That no task is ever lost or duplicated by the scheduler, for any       *)
(* number of CPUs and of tasks.                                            *)
(***************************************************************************)
EXTENDS Sched, FiniteSetTheorems, WellFoundedInduction, TLAPS

(* The tid order of the list of all tasks has a least element in every     *)
(* part of the list that unblock_tasks or unblock_waitpid searches.        *)
LEMMA FirstIsMember ==
  ASSUME NEW S \in SUBSET Tasks, S # {}
  PROVE  First(S) \in S
<1>1. S \subseteq Nat
  BY TasksAssumption
<1>2. \E u \in S : \A v \in S : ~(<<v, u>> \in OpToRel(<, Nat))
  BY <1>1, NatLessThanWellFounded, WFMin
<1>3. PICK u \in S : \A v \in S : ~(<<v, u>> \in OpToRel(<, Nat))
  BY <1>2
<1>4. ASSUME NEW v \in S PROVE u <= v
  <2>1. u \in Nat /\ v \in Nat
    BY <1>1
  <2>2. v < u => <<v, u>> \in OpToRel(<, Nat)
    BY <2>1 DEF OpToRel
  <2>3. ~(v < u)
    BY <1>3, <2>2, Zenon
  <2> QED
    BY <2>1, <2>3
<1> QED
  BY <1>4 DEF First

(* What an unblock function finds is a dead child on the list.             *)
LEMMA FoundIsDead ==
  ASSUME PlaceTypeOK, NEW t \in Tasks, NEW s \in Sleeps, Found(t, s) # NoTask
  PROVE  Found(t, s) \in allTasks /\ state[Found(t, s)] = "DEAD"
<1>1. DeadChildren(t) # {} /\ Found(t, s) = First(DeadChildren(t))
  BY DEF Found
<1>2. DeadChildren(t) \in SUBSET Tasks
  BY DEF DeadChildren, Children, PlaceTypeOK
<1> QED
  BY <1>1, <1>2, FirstIsMember DEF DeadChildren, Children

(* The scheduler starts with the init task on the queue.                   *)
LEMMA InitIInv == Init => IInv
<1> SUFFICES ASSUME Init PROVE IInv
  OBVIOUS
<1> USE TasksAssumption, NoTaskAssumption DEF Init
<1>1. PlaceTypeOK
  BY DEF PlaceTypeOK, States, Blocked, Tpcs, Cpcs, Sleeps, NoSleep
<1>2. CpuShape /\ TaskShape
  BY DEF CpuShape, TaskShape, Blocked
<1>3. OneSide
  BY DEF OneSide, Owns, Registers, Queued
<1> QED
  BY <1>1, <1>2, <1>3 DEF IInv

(* The two ways the queue changes, and what they do to its members.        *)
LEMMA QueueAppend ==
  ASSUME PlaceTypeOK, NEW t \in Tasks, ~Queued(t),
         \A i, j \in 1..Len(readyQueue) : readyQueue[i] = readyQueue[j] => i = j,
         readyQueue' = Append(readyQueue, t)
  PROVE  /\ readyQueue' \in Seq(Tasks)
         /\ \A i, j \in 1..Len(readyQueue') : readyQueue'[i] = readyQueue'[j] => i = j
         /\ \A u \in Tasks : Queued(u)' <=> Queued(u) \/ u = t
<1>1. /\ Len(readyQueue') = Len(readyQueue) + 1 /\ Len(readyQueue) \in Nat
      /\ \A i \in 1..Len(readyQueue) : readyQueue'[i] = readyQueue[i]
      /\ readyQueue'[Len(readyQueue) + 1] = t
  BY DEF PlaceTypeOK
<1> QED
  BY <1>1 DEF Queued, PlaceTypeOK

(* Taking the head removes it, for it is there once.                       *)
LEMMA QueueTail ==
  ASSUME PlaceTypeOK, readyQueue # <<>>,
         \A i, j \in 1..Len(readyQueue) : readyQueue[i] = readyQueue[j] => i = j,
         readyQueue' = Tail(readyQueue)
  PROVE  /\ Head(readyQueue) \in Tasks /\ Queued(Head(readyQueue))
         /\ readyQueue' \in Seq(Tasks)
         /\ \A i, j \in 1..Len(readyQueue') : readyQueue'[i] = readyQueue'[j] => i = j
         /\ \A u \in Tasks : Queued(u)' <=> Queued(u) /\ u # Head(readyQueue)
<1>1. /\ Len(readyQueue') = Len(readyQueue) - 1 /\ Len(readyQueue) \in Nat \ {0}
      /\ \A i \in 1..Len(readyQueue') : readyQueue'[i] = readyQueue[i + 1]
      /\ Head(readyQueue) = readyQueue[1]
  BY DEF PlaceTypeOK
<1>2. Head(readyQueue) \in Tasks /\ Queued(Head(readyQueue))
  BY <1>1 DEF Queued, PlaceTypeOK
<1>3. ASSUME NEW u \in Tasks PROVE Queued(u)' <=> Queued(u) /\ u # Head(readyQueue)
  <2>1. ASSUME NEW i \in 1..Len(readyQueue), i # 1
        PROVE  readyQueue[i] = readyQueue'[i - 1] /\ i - 1 \in 1..Len(readyQueue')
    BY <1>1, <2>1
  <2> QED
    BY <1>1, <2>1 DEF Queued
<1> QED
  BY <1>1, <1>2, <1>3 DEF PlaceTypeOK

(* The variables that say where a task is.                                 *)
PlaceVars == <<state, waited, tpc, sleep, allTasks, readyQueue, current, prev, scan, cpc>>

(* No step of a task or of a CPU loses or duplicates a task.               *)
LEMMA NextIInv == IInv /\ [Next]_vars => IInv'
<1> SUFFICES ASSUME IInv, [Next]_vars PROVE IInv'
  OBVIOUS
<1> USE TasksAssumption, NoTaskAssumption
<1>s. ASSUME UNCHANGED PlaceVars PROVE IInv'
  BY <1>s DEF PlaceVars, IInv, PlaceTypeOK, CpuShape, TaskShape, OneSide, Owns, Registers, Queued
<1>0. CASE UNCHANGED vars
  BY <1>0, <1>s DEF vars, taskVars, listVars, cpuVars, PlaceVars
<1>1. ASSUME NEW c \in Cpus, NEW t \in Tasks, Fork(c, t) PROVE IInv'
  <2> PICK u \in Tasks :
         /\ state[u] = "NEW"
         /\ state' = [state EXCEPT ![u] = "RUNNING"]
         /\ allTasks' = allTasks \cup {u}
         /\ waited' = [waited EXCEPT ![t] = u]
    BY <1>1 DEF Fork
  <2>1. /\ cpc[c] = "run" /\ current[c] = t /\ tpc[t] = "user"
        /\ tpc' = [tpc EXCEPT ![t] = "register"]
        /\ UNCHANGED <<sleep, readyQueue, current, prev, scan, cpc>>
    BY <1>1 DEF Fork, Runs, GotoT, cpuVars
  <2>2. state[t] = "RUNNING" /\ u # t
    BY <2>1 DEF IInv, OneSide, Owns
  <2>3. PlaceTypeOK'
    BY <2>1 DEF IInv, PlaceTypeOK, States, Tpcs
  <2>4. CpuShape' /\ TaskShape'
    BY <2>1, <2>2 DEF IInv, PlaceTypeOK, CpuShape, TaskShape, Blocked
  <2>5. OneSide'
    BY <2>1, <2>2 DEF IInv, PlaceTypeOK, TaskShape, OneSide, Owns, Registers, Queued
  <2> QED
    BY <2>3, <2>4, <2>5 DEF IInv
<1>2. ASSUME NEW c \in Cpus, NEW t \in Tasks, ForkEnqueue(c, t) PROVE IInv'
  <2> DEFINE u == waited[t]
  <2>1. /\ cpc[c] = "run" /\ current[c] = t /\ tpc[t] = "register" /\ ~Queued(u)
        /\ readyQueue' = Append(readyQueue, u)
        /\ waited' = [waited EXCEPT ![t] = NoTask]
        /\ tpc' = [tpc EXCEPT ![t] = "user"]
        /\ UNCHANGED <<state, sleep, allTasks, current, prev, scan, cpc>>
    BY <1>2 DEF ForkEnqueue, Runs, GotoT, cpuVars
  <2>2. u \in Tasks /\ state[t] = "RUNNING" /\ Registers(t, u) /\ state[u] = "RUNNING"
    <3>1. u \in Tasks
      BY <2>1 DEF IInv, PlaceTypeOK, TaskShape
    <3>2. Owns(c, t) /\ Registers(t, u)
      BY <2>1 DEF Owns, Registers
    <3> QED
      BY <3>1, <3>2 DEF IInv, OneSide
  <2>3. /\ readyQueue' \in Seq(Tasks)
        /\ \A i, j \in 1..Len(readyQueue') : readyQueue'[i] = readyQueue'[j] => i = j
        /\ \A v \in Tasks : Queued(v)' <=> Queued(v) \/ v = u
    BY <2>1, <2>2, QueueAppend DEF IInv, OneSide
  <2>4. PlaceTypeOK'
    BY <2>1, <2>3 DEF IInv, PlaceTypeOK, Tpcs
  <2>5. CpuShape' /\ TaskShape'
    BY <2>1, <2>2 DEF IInv, PlaceTypeOK, CpuShape, TaskShape, Blocked
  <2>6. OneSide'
    BY <2>1, <2>2, <2>3 DEF IInv, PlaceTypeOK, OneSide, Owns, Registers
  <2> QED
    BY <2>4, <2>5, <2>6 DEF IInv
<1>3. ASSUME NEW c \in Cpus, NEW t \in Tasks, Block(c, t) PROVE IInv'
  <2> PICK s \in Sleeps :
         /\ waited' = [waited EXCEPT ![t] = Found(t, s)]
         /\ allTasks' = allTasks \ {Found(t, s)}
         /\ \/ /\ tpc' = [tpc EXCEPT ![t] = IF Found(t, s) = NoTask THEN "user" ELSE "reap"]
               /\ UNCHANGED sleep
            \/ /\ tpc' = [tpc EXCEPT ![t] = "block"]
               /\ sleep' = [sleep EXCEPT ![t] = s]
    BY <1>3 DEF Block, GotoT
  <2>1. /\ cpc[c] = "run" /\ current[c] = t /\ tpc[t] = "user"
        /\ UNCHANGED <<state, readyQueue, current, prev, scan, cpc>>
    BY <1>3 DEF Block, Runs, cpuVars
  <2>2. state[t] = "RUNNING"
    BY <2>1 DEF IInv, OneSide, Owns
  <2>3. Found(t, s) # NoTask => Found(t, s) \in Tasks /\ state[Found(t, s)] = "DEAD"
    BY FoundIsDead DEF IInv, PlaceTypeOK
  <2>4. PlaceTypeOK'
    <3>1. tpc' \in [Tasks -> Tpcs] /\ sleep' \in [Tasks -> Sleeps]
      BY DEF IInv, PlaceTypeOK, Tpcs
    <3>2. waited' \in [Tasks -> Tasks \cup {NoTask}]
      BY <2>3 DEF IInv, PlaceTypeOK
    <3> QED
      BY <2>1, <3>1, <3>2 DEF IInv, PlaceTypeOK
  <2>5. CpuShape' /\ TaskShape'
    BY <2>1, <2>2, <2>3 DEF IInv, PlaceTypeOK, CpuShape, TaskShape, Blocked
  <2>6. OneSide'
    BY <2>1, <2>2, <2>3, SMTT(40) DEF IInv, PlaceTypeOK, OneSide, Owns, Registers, Queued
  <2> QED
    BY <2>4, <2>5, <2>6 DEF IInv
<1>4. ASSUME NEW c \in Cpus, NEW t \in Tasks, BlockPublish(c, t) PROVE IInv'
  <2>1. /\ cpc[c] = "run" /\ current[c] = t /\ tpc[t] = "block"
        /\ state' = [state EXCEPT ![t] = sleep[t].flag]
        /\ tpc' = [tpc EXCEPT ![t] = "asleep"]
        /\ cpc' = [cpc EXCEPT ![c] = "unref"]
        /\ UNCHANGED <<waited, sleep, allTasks, readyQueue, current, prev, scan>>
    BY <1>4 DEF BlockPublish, Runs, GotoT, GotoC, listVars
  <2>2. sleep[t].flag \in Blocked /\ Owns(c, t) /\ state[t] = "RUNNING"
    BY <2>1 DEF IInv, PlaceTypeOK, Sleeps, OneSide, Owns
  <2>3. PlaceTypeOK'
    BY <2>1, <2>2 DEF IInv, PlaceTypeOK, States, Tpcs, Cpcs
  <2>4. CpuShape' /\ TaskShape'
    BY <2>1, <2>2 DEF IInv, PlaceTypeOK, CpuShape, TaskShape, Blocked
  <2>5. OneSide'
    BY <2>1, <2>2 DEF IInv, PlaceTypeOK, CpuShape, OneSide, Owns, Registers, Queued, Blocked
  <2> QED
    BY <2>3, <2>4, <2>5 DEF IInv
<1>5. ASSUME NEW c \in Cpus, NEW t \in Tasks, BlockReturn(c, t) PROVE IInv'
  <2>1. /\ cpc[c] = "run" /\ current[c] = t /\ tpc[t] = "asleep"
        /\ \/ tpc' = [tpc EXCEPT ![t] = "reap"] /\ waited[t] # NoTask
           \/ tpc' = [tpc EXCEPT ![t] = "user"]
        /\ sleep' = [sleep EXCEPT ![t] = NoSleep]
        /\ UNCHANGED <<state, waited, allTasks, readyQueue, current, prev, scan, cpc>>
    BY <1>5 DEF BlockReturn, Runs, GotoT, listVars, cpuVars
  <2>2. state[t] = "RUNNING"
    BY <2>1 DEF IInv, OneSide, Owns
  <2>3. PlaceTypeOK'
    BY <2>1 DEF IInv, PlaceTypeOK, Tpcs, Sleeps, NoSleep, Blocked
  <2>4. CpuShape' /\ TaskShape'
    BY <2>1, <2>2 DEF IInv, PlaceTypeOK, CpuShape, TaskShape, Blocked
  <2>5. OneSide'
    BY <2>1, SMTT(40) DEF IInv, PlaceTypeOK, OneSide, Owns, Registers, Queued
  <2> QED
    BY <2>3, <2>4, <2>5 DEF IInv
<1>6. ASSUME NEW c \in Cpus, NEW t \in Tasks, Reap(c, t) PROVE IInv'
  <2> DEFINE u == waited[t]
  <2>1. /\ cpc[c] = "run" /\ current[c] = t /\ tpc[t] = "reap"
        /\ state' = state \/ state' = [state EXCEPT ![u] = "FREED"]
        /\ waited' = [waited EXCEPT ![t] = NoTask]
        /\ tpc' = [tpc EXCEPT ![t] = "user"]
        /\ UNCHANGED <<sleep, allTasks, readyQueue, current, prev, scan, cpc>>
    <3>1. state' = [state EXCEPT ![u] = IF refCount[u] = 1 THEN "FREED" ELSE @]
      BY <1>6 DEF Reap
    <3>2. state' = state \/ state' = [state EXCEPT ![u] = "FREED"]
      BY <3>1 DEF IInv, PlaceTypeOK
    <3> QED
      BY <1>6, <3>2 DEF Reap, Runs, GotoT, listVars, cpuVars
  <2>2. u \in Tasks /\ state[t] = "RUNNING" /\ state[u] \in {"DEAD", "FREED"}
    BY <2>1 DEF IInv, PlaceTypeOK, TaskShape, OneSide, Owns
  <2>3. PlaceTypeOK'
    BY <2>1 DEF IInv, PlaceTypeOK, States, Tpcs
  <2>4. CpuShape' /\ TaskShape'
    <3>1. CpuShape'
      BY <2>1 DEF IInv, CpuShape
    <3>2. ASSUME NEW v \in Tasks
          PROVE  /\ state'[v] = state[v] \/ (v = u /\ state'[v] = "FREED")
                 /\ v # t => tpc'[v] = tpc[v] /\ waited'[v] = waited[v]
                 /\ tpc'[t] = "user" /\ waited'[t] = NoTask
      BY <2>1, <2>2 DEF IInv, PlaceTypeOK
    <3>3. \A v \in Tasks : waited[v] \in Tasks \cup {NoTask}
      BY DEF IInv, PlaceTypeOK
    <3>4. ASSUME NEW v \in Tasks
          PROVE  /\ state'[v] \in Blocked => tpc'[v] = "asleep"
                 /\ tpc'[v] \in {"register", "reap"} => waited'[v] # NoTask
      BY <2>2, <3>2 DEF IInv, TaskShape, Blocked
    <3>5. ASSUME NEW v \in Tasks, waited'[v] # NoTask, tpc'[v] # "register"
          PROVE  state'[waited'[v]] \in {"DEAD", "FREED"}
      <4>1. v # t /\ waited'[v] = waited[v] /\ waited[v] \in Tasks /\ tpc[v] # "register"
        BY <3>2, <3>3, <3>5
      <4>2. state[waited[v]] \in {"DEAD", "FREED"}
        BY <4>1 DEF IInv, TaskShape
      <4> QED
        BY <4>1, <4>2, <3>2
    <3>6. TaskShape'
      BY <3>4, <3>5 DEF TaskShape
    <3> QED
      BY <3>1, <3>6
  <2>5. OneSide'
    BY <2>1, <2>2, SMTT(40) DEF IInv, PlaceTypeOK, OneSide, Owns, Registers, Queued
  <2> QED
    BY <2>3, <2>4, <2>5 DEF IInv
<1>7. ASSUME NEW c \in Cpus, NEW t \in Tasks, Exit(c, t) PROVE IInv'
  <2>1. /\ cpc[c] = "run" /\ current[c] = t /\ tpc[t] = "user"
        /\ state' = [state EXCEPT ![t] = "DEAD"]
        /\ cpc' = [cpc EXCEPT ![c] = "unref"]
        /\ UNCHANGED <<waited, sleep, tpc, allTasks, readyQueue, current, prev, scan>>
    BY <1>7 DEF Exit, Runs, GotoC, listVars
  <2>2. Owns(c, t) /\ state[t] = "RUNNING"
    BY <2>1 DEF IInv, OneSide, Owns
  <2>3. PlaceTypeOK'
    BY <2>1 DEF IInv, PlaceTypeOK, States, Cpcs
  <2>4. CpuShape' /\ TaskShape'
    BY <2>1, <2>2 DEF IInv, PlaceTypeOK, CpuShape, TaskShape, Blocked
  <2>5. OneSide'
    BY <2>1, <2>2 DEF IInv, PlaceTypeOK, CpuShape, OneSide, Owns, Registers, Queued
  <2> QED
    BY <2>3, <2>4, <2>5 DEF IInv
<1>8. ASSUME NEW t \in Tasks,
             (\E c \in Cpus : PopSignal(c, t)) \/ Happen(t) \/ SendSignal(t)
      PROVE  IInv'
  BY <1>8, <1>s DEF PopSignal, Happen, SendSignal, listVars, cpuVars, PlaceVars
<1>9. ASSUME NEW c \in Cpus, Yield(c) \/ YieldSave(c) PROVE IInv'
  <2>1. /\ \/ cpc[c] = "run"
           \/ cpc[c] = "save"
        /\ cpc' = [cpc EXCEPT ![c] = "switch"]
        /\ UNCHANGED <<state, waited, sleep, tpc, allTasks, readyQueue, current, prev, scan>>
    BY <1>9 DEF Yield, YieldSave, GotoC, taskVars, listVars
  <2>2. PlaceTypeOK'
    BY <2>1 DEF IInv, PlaceTypeOK, Cpcs
  <2>3. CpuShape' /\ TaskShape'
    BY <2>1 DEF IInv, PlaceTypeOK, CpuShape, TaskShape
  <2>4. OneSide'
    BY <2>1 DEF IInv, PlaceTypeOK, OneSide, Owns, Registers, Queued
  <2> QED
    BY <2>2, <2>3, <2>4 DEF IInv
<1>10. ASSUME NEW c \in Cpus, YieldUnref(c) PROVE IInv'
  <2>1. /\ cpc[c] = "unref"
        /\ current' = [current EXCEPT ![c] = NoTask]
        /\ cpc' = [cpc EXCEPT ![c] = "save"]
        /\ UNCHANGED <<state, waited, sleep, tpc, allTasks, readyQueue, prev, scan>>
    BY <1>10 DEF YieldUnref, GotoC, listVars
  <2>2. PlaceTypeOK'
    BY <2>1 DEF IInv, PlaceTypeOK, Cpcs
  <2>3. CpuShape' /\ TaskShape'
    BY <2>1 DEF IInv, PlaceTypeOK, CpuShape, TaskShape
  <2>4. OneSide'
    BY <2>1, SMTT(40) DEF IInv, PlaceTypeOK, CpuShape, OneSide, Owns, Registers, Queued
  <2> QED
    BY <2>2, <2>3, <2>4 DEF IInv
<1>11. ASSUME NEW c \in Cpus, SwitchContext(c) PROVE IInv'
  <2>1. /\ cpc[c] = "switch"
        /\ prev' = [prev EXCEPT ![c] = IF current[c] = Idle THEN NoTask ELSE current[c]]
        /\ scan' = [scan EXCEPT ![c] = allTasks]
        /\ cpc' = [cpc EXCEPT ![c] = "scan"]
        /\ UNCHANGED <<state, waited, sleep, tpc, allTasks, readyQueue, current>>
    BY <1>11 DEF SwitchContext, GotoC, taskVars
  <2>2. PlaceTypeOK'
    BY <2>1 DEF IInv, PlaceTypeOK, Cpcs
  <2>3. CpuShape' /\ TaskShape'
    BY <2>1 DEF IInv, PlaceTypeOK, CpuShape, TaskShape
  <2>4. OneSide'
    BY <2>1, SMTT(40) DEF IInv, PlaceTypeOK, CpuShape, OneSide, Owns, Registers, Queued
  <2> QED
    BY <2>2, <2>3, <2>4 DEF IInv
<1>12. ASSUME NEW c \in Cpus, ScanSkip(c) \/ ScanDone(c) PROVE IInv'
  <2>1. /\ cpc[c] = "scan"
        /\ \/ cpc' = [cpc EXCEPT ![c] = "dequeue"] /\ UNCHANGED scan
           \/ scan' = [scan EXCEPT ![c] = @ \ {First(scan[c])}] /\ UNCHANGED cpc
        /\ UNCHANGED <<state, waited, sleep, tpc, allTasks, readyQueue, current, prev>>
    BY <1>12 DEF ScanSkip, ScanDone, GotoC, taskVars, listVars
  <2>2. PlaceTypeOK'
    BY <2>1 DEF IInv, PlaceTypeOK, Cpcs
  <2>3. CpuShape' /\ TaskShape'
    BY <2>1 DEF IInv, PlaceTypeOK, CpuShape, TaskShape
  <2>4. OneSide'
    BY <2>1 DEF IInv, PlaceTypeOK, OneSide, Owns, Registers, Queued
  <2> QED
    BY <2>2, <2>3, <2>4 DEF IInv
<1>13. ASSUME NEW c \in Cpus, ScanWake(c) PROVE IInv'
  <2> DEFINE t == First(scan[c])
  <2>1. t \in Tasks
    BY <1>13, FirstIsMember DEF ScanWake, IInv, PlaceTypeOK
  <2>2. PICK found :
           /\ found \in {NoTask, Found(t, sleep[t])}
           /\ state[t] \in Blocked /\ ~Queued(t)
           /\ state' = [state EXCEPT ![t] = "RUNNING"]
           /\ readyQueue' = Append(readyQueue, t)
           /\ waited' = [waited EXCEPT ![t] = found]
           /\ allTasks' = allTasks \ {found}
           /\ scan' = [scan EXCEPT ![c] = @ \ {t, found}]
           /\ UNCHANGED <<sleep, tpc, current, prev, cpc>>
    BY <1>13 DEF ScanWake
  <2>3. found # NoTask => found \in Tasks /\ state[found] = "DEAD"
    BY <2>1, <2>2, FoundIsDead DEF IInv, PlaceTypeOK
  <2>4. /\ readyQueue' \in Seq(Tasks)
        /\ \A i, j \in 1..Len(readyQueue') : readyQueue'[i] = readyQueue'[j] => i = j
        /\ \A v \in Tasks : Queued(v)' <=> Queued(v) \/ v = t
    BY <2>1, <2>2, QueueAppend DEF IInv, OneSide
  <2>5. tpc[t] = "asleep" /\ \A d \in Cpus : ~Owns(d, t)
    BY <2>1, <2>2 DEF IInv, TaskShape, OneSide, Blocked
  <2>6. PlaceTypeOK'
    BY <2>1, <2>2, <2>3, <2>4 DEF IInv, PlaceTypeOK, States
  <2>7. CpuShape' /\ TaskShape'
    BY <2>1, <2>2, <2>3, <2>5 DEF IInv, PlaceTypeOK, CpuShape, TaskShape, Blocked
  <2>8. OneSide'
    BY <2>1, <2>2, <2>4, <2>5, SMTT(40) DEF IInv, PlaceTypeOK, OneSide, Owns, Registers, Blocked
  <2> QED
    BY <2>6, <2>7, <2>8 DEF IInv
<1>14. ASSUME NEW c \in Cpus, Dequeue(c) PROVE IInv'
  <2>1. /\ cpc[c] = "dequeue"
        /\ cpc' = [cpc EXCEPT ![c] = "stack"]
        /\ UNCHANGED <<state, waited, sleep, tpc, allTasks, prev, scan>>
    BY <1>14 DEF Dequeue, GotoC, taskVars
  <2>2. CASE readyQueue = <<>>
    <3>1. current' = [current EXCEPT ![c] = Idle] /\ UNCHANGED readyQueue
      BY <1>14, <2>2 DEF Dequeue
    <3>2. PlaceTypeOK'
      BY <2>1, <3>1 DEF IInv, PlaceTypeOK, Cpcs
    <3>3. CpuShape' /\ TaskShape'
      BY <2>1, <3>1 DEF IInv, PlaceTypeOK, CpuShape, TaskShape
    <3>4. OneSide'
      BY <2>1, <3>1 DEF IInv, PlaceTypeOK, CpuShape, OneSide, Owns, Registers, Queued
    <3> QED
      BY <3>2, <3>3, <3>4 DEF IInv
  <2>3. CASE readyQueue # <<>>
    <3> DEFINE t == Head(readyQueue)
    <3>1. current' = [current EXCEPT ![c] = t] /\ readyQueue' = Tail(readyQueue)
      BY <1>14, <2>3 DEF Dequeue
    <3>2. /\ t \in Tasks /\ Queued(t)
          /\ readyQueue' \in Seq(Tasks)
          /\ \A i, j \in 1..Len(readyQueue') : readyQueue'[i] = readyQueue'[j] => i = j
          /\ \A u \in Tasks : Queued(u)' <=> Queued(u) /\ u # t
      BY <2>3, <3>1, QueueTail DEF IInv, OneSide
    <3>3. \A d \in Cpus : ~Owns(d, t)
      BY <3>2 DEF IInv, OneSide
    <3>4. PlaceTypeOK'
      BY <2>1, <3>1, <3>2 DEF IInv, PlaceTypeOK, Cpcs
    <3>5. CpuShape' /\ TaskShape'
      BY <2>1, <3>1, <3>2, <3>3 DEF IInv, PlaceTypeOK, CpuShape, TaskShape, Owns
    <3>6. OneSide'
      BY <2>1, <3>1, <3>2, <3>3 DEF IInv, PlaceTypeOK, CpuShape, OneSide, Owns, Registers
    <3> QED
      BY <3>4, <3>5, <3>6 DEF IInv
  <2> QED
    BY <2>2, <2>3
<1>15. ASSUME NEW c \in Cpus, SwitchStack(c) PROVE IInv'
  <2>1. /\ cpc[c] = "stack"
        /\ cpc' = [cpc EXCEPT ![c] = IF prev[c] = NoTask THEN "run" ELSE "requeue"]
        /\ UNCHANGED <<state, waited, sleep, tpc, allTasks, readyQueue, current, prev, scan>>
    BY <1>15 DEF SwitchStack, GotoC, taskVars, listVars
  <2>2. PlaceTypeOK'
    BY <2>1 DEF IInv, PlaceTypeOK, Cpcs
  <2>3. CpuShape' /\ TaskShape'
    BY <2>1 DEF IInv, PlaceTypeOK, CpuShape, TaskShape
  <2>4. OneSide'
    BY <2>1 DEF IInv, PlaceTypeOK, OneSide, Owns, Registers, Queued
  <2> QED
    BY <2>2, <2>3, <2>4 DEF IInv
<1>16. ASSUME NEW c \in Cpus, Requeue(c) PROVE IInv'
  <2> DEFINE t == prev[c]
  <2>1. /\ cpc[c] = "requeue" /\ ~Queued(t)
        /\ readyQueue' = Append(readyQueue, t)
        /\ prev' = [prev EXCEPT ![c] = NoTask]
        /\ cpc' = [cpc EXCEPT ![c] = "run"]
        /\ UNCHANGED <<state, waited, sleep, tpc, allTasks, current, scan>>
    BY <1>16 DEF Requeue, GotoC, taskVars
  <2>2. t \in Tasks /\ Owns(c, t) /\ state[t] = "RUNNING" /\ current[c] # t
    BY <2>1, ZenonT(40) DEF IInv, PlaceTypeOK, CpuShape, OneSide, Owns
  <2>3. /\ readyQueue' \in Seq(Tasks)
        /\ \A i, j \in 1..Len(readyQueue') : readyQueue'[i] = readyQueue'[j] => i = j
        /\ \A v \in Tasks : Queued(v)' <=> Queued(v) \/ v = t
    BY <2>1, <2>2, QueueAppend DEF IInv, OneSide
  <2>4. PlaceTypeOK'
    BY <2>1, <2>3 DEF IInv, PlaceTypeOK, Cpcs
  <2>5. CpuShape' /\ TaskShape'
    BY <2>1, <2>2 DEF IInv, PlaceTypeOK, CpuShape, TaskShape
  <2>6. OneSide'
    BY <2>1, <2>2, <2>3, SMTT(40) DEF IInv, PlaceTypeOK, OneSide, Owns, Registers
  <2> QED
    BY <2>4, <2>5, <2>6 DEF IInv
<1> QED
  BY <1>0, <1>1, <1>2, <1>3, <1>4, <1>5, <1>6, <1>7, <1>8, <1>9, <1>10, <1>11,
     <1>12, <1>13, <1>14, <1>15, <1>16, SignalledAssumption
     DEF Next, TaskStep, SwitchStep

(* No task is lost or duplicated: for any number of CPUs and tasks, a      *)
(* runnable task is on the ready queue once, or on one CPU, or about to be *)
(* queued by the parent that creates it, and a blocked or dead one is not. *)
THEOREM SchedOneSide == Spec => []OneSide
<1>1. IInv => OneSide
  BY DEF IInv
<1> QED
  BY InitIInv, NextIInv, <1>1, PTL DEF Spec
-----------------------------------------------------------------------------
(* The second invariant, on top of the first: what a task's kernel code is *)
(* doing says what its call has found and how it sleeps; who is not dead   *)
(* is on the list; and nothing points to a task that is not yet created.   *)
CallTypeOK ==
  /\ ppid \in [Tasks -> Tasks \cup {NoTask}]
  /\ event \in [Tasks -> BOOLEAN]
  /\ signal \in [Tasks -> BOOLEAN]
  /\ interrupted \in [Tasks -> BOOLEAN]
  /\ allTasksLock \in Cpus \cup {NoCpu}
  /\ stack \in [Cpus -> Tasks \cup {Idle}]

Fresh ==
  \A t \in Tasks : state[t] = "NEW" =>
    /\ t \notin allTasks /\ tpc[t] = "user"
    /\ \A c \in Cpus : current[c] # t /\ prev[c] # t
    /\ \A u \in Tasks : waited[u] # t

Listed == \A t \in Tasks : state[t] \in Blocked \cup {"RUNNING"} => t \in allTasks

Calls ==
  \A t \in Tasks :
    /\ tpc[t] \in {"user", "block"} => waited[t] = NoTask
    /\ state[t] \in Blocked => waited[t] = NoTask
    /\ tpc[t] = "asleep" /\ interrupted[t] => waited[t] = NoTask
    /\ state[t] \in Blocked => sleep[t].flag = state[t]

CallInv == CallTypeOK /\ Fresh /\ Listed /\ Calls /\ InterruptedHasSignal

(* The count, and that what it counts is finite, although tids are not.    *)
CountInv ==
  /\ refCount \in [Tasks -> Nat]
  /\ \A t \in Tasks : /\ IsFiniteSet(Holding(current, prev, t))
                       /\ IsFiniteSet(Waiting(waited, t))
  /\ RefCountExact

(* It holds at the start.                                                  *)
LEMMA InitCallInv == Init => CallInv
<1> SUFFICES ASSUME Init PROVE CallInv
  OBVIOUS
<1> USE TasksAssumption, NoTaskAssumption DEF Init
<1>1. CallTypeOK
  BY DEF CallTypeOK
<1>2. Fresh /\ Listed /\ InterruptedHasSignal
  BY DEF Fresh, Listed, InterruptedHasSignal, Blocked
<1>3. Calls
  BY DEF Calls, Blocked
<1> QED
  BY <1>1, <1>2, <1>3 DEF CallInv

(* Every step keeps it, given where the tasks are.                         *)
LEMMA NextCallInv ==
  ASSUME IInv, CallInv, [Next]_vars
  PROVE  CallInv'
<1> USE TasksAssumption, NoTaskAssumption
<1> DEFINE Parts == /\ CallTypeOK' /\ Fresh' /\ Listed' /\ Calls' /\ InterruptedHasSignal'
<1>q. Parts => CallInv'
  BY DEF CallInv
<1>r. ASSUME NEW c \in Cpus, NEW t \in Tasks, Runs(c, t)
      PROVE  state[t] = "RUNNING" /\ t \in allTasks
  BY <1>r DEF Runs, IInv, OneSide, Owns, CallInv, Listed
<1>0. CASE UNCHANGED vars
  BY <1>0 DEF vars, taskVars, listVars, cpuVars, CallInv, CallTypeOK, Fresh, Listed, Calls,
              InterruptedHasSignal
<1>1. ASSUME NEW c \in Cpus, NEW t \in Tasks, Fork(c, t) PROVE CallInv'
  <2> PICK u \in Tasks :
         /\ state[u] = "NEW"
         /\ state' = [state EXCEPT ![u] = "RUNNING"]
         /\ ppid' = [ppid EXCEPT ![u] = t]
         /\ allTasks' = allTasks \cup {u}
         /\ waited' = [waited EXCEPT ![t] = u]
    BY <1>1 DEF Fork
  <2>1. /\ Runs(c, t) /\ tpc[t] = "user"
        /\ tpc' = [tpc EXCEPT ![t] = "register"]
        /\ UNCHANGED <<event, signal, interrupted, sleep, allTasksLock, current, prev, stack>>
    BY <1>1 DEF Fork, GotoT, cpuVars
  <2>2. u # t /\ tpc[u] = "user"
    BY <1>r, <2>1 DEF CallInv, Fresh
  <2>3. CallTypeOK' /\ Listed' /\ InterruptedHasSignal'
    BY <2>1, <2>2 DEF IInv, PlaceTypeOK, CallInv, CallTypeOK, Listed, InterruptedHasSignal, Blocked
  <2>r. state[t] = "RUNNING" /\ t \in allTasks
    BY <1>r, <2>1
  <2>4. Fresh'
    BY <2>1, <2>2, <2>r DEF IInv, PlaceTypeOK, CallInv, Fresh
  <2>5. Calls'
    <3>1. \A v \in Tasks : /\ v # t => tpc'[v] = tpc[v] /\ waited'[v] = waited[v]
                           /\ v # u => state'[v] = state[v]
      BY <2>1 DEF IInv, PlaceTypeOK
    <3>2. tpc'[t] = "register" /\ state'[u] = "RUNNING" /\ state'[t] = "RUNNING" /\ waited[u] = NoTask
      BY <2>1, <2>2, <2>r DEF IInv, PlaceTypeOK, CallInv, Calls
    <3> QED
      BY <2>1, <2>2, <3>1, <3>2 DEF CallInv, Calls, Blocked
  <2> QED
    BY <1>q, <2>3, <2>4, <2>5
<1>2. ASSUME NEW c \in Cpus, NEW t \in Tasks, ForkEnqueue(c, t) PROVE CallInv'
  <2>1. /\ Runs(c, t) /\ tpc[t] = "register"
        /\ waited' = [waited EXCEPT ![t] = NoTask]
        /\ tpc' = [tpc EXCEPT ![t] = "user"]
        /\ UNCHANGED <<state, ppid, event, signal, interrupted, sleep, allTasks, allTasksLock,
                       current, prev, stack>>
    BY <1>2 DEF ForkEnqueue, GotoT, cpuVars
  <2>2. CallTypeOK' /\ Fresh' /\ Listed'
    BY <2>1, <1>r DEF IInv, PlaceTypeOK, CallInv, CallTypeOK, Fresh, Listed
  <2>3. Calls' /\ InterruptedHasSignal'
    BY <2>1, <1>r DEF IInv, PlaceTypeOK, CallInv, Calls, InterruptedHasSignal
  <2> QED
    BY <1>q, <2>2, <2>3
<1>3. ASSUME NEW c \in Cpus, NEW t \in Tasks, Block(c, t) PROVE CallInv'
  <2> PICK s \in Sleeps :
         /\ waited' = [waited EXCEPT ![t] = Found(t, s)]
         /\ allTasks' = allTasks \ {Found(t, s)}
         /\ \/ /\ tpc' = [tpc EXCEPT ![t] = IF Found(t, s) = NoTask THEN "user" ELSE "reap"]
               /\ UNCHANGED sleep
            \/ /\ s.wait => ~Unblocks(t, s)
               /\ tpc' = [tpc EXCEPT ![t] = "block"]
               /\ sleep' = [sleep EXCEPT ![t] = s]
    BY <1>3 DEF Block, GotoT
  <2>1. /\ Runs(c, t) /\ tpc[t] = "user" /\ interrupted' = [interrupted EXCEPT ![t] = FALSE]
        /\ UNCHANGED <<state, ppid, event, signal, allTasksLock, current, prev, stack>>
    BY <1>3 DEF Block, cpuVars
  <2>2. Found(t, s) # NoTask => Found(t, s) \in Tasks /\ state[Found(t, s)] = "DEAD"
    BY FoundIsDead DEF IInv, PlaceTypeOK
  <2>3. (s.wait => ~Unblocks(t, s)) => Found(t, s) = NoTask
    BY DEF Unblocks, Found
  <2>4. CallTypeOK' /\ Listed'
    BY <2>1, <2>2 DEF IInv, PlaceTypeOK, CallInv, CallTypeOK, Listed, Blocked
  <2>5. Fresh'
    BY <2>1, <2>2, <1>r DEF IInv, PlaceTypeOK, CallInv, Fresh
  <2>6. Calls' /\ InterruptedHasSignal'
    BY <2>1, <2>3, <1>r DEF IInv, PlaceTypeOK, CallInv, CallTypeOK, Calls, InterruptedHasSignal, Blocked
  <2> QED
    BY <1>q, <2>4, <2>5, <2>6
<1>4. ASSUME NEW c \in Cpus, NEW t \in Tasks, BlockPublish(c, t) PROVE CallInv'
  <2>1. /\ Runs(c, t) /\ tpc[t] = "block"
        /\ state' = [state EXCEPT ![t] = sleep[t].flag]
        /\ tpc' = [tpc EXCEPT ![t] = "asleep"]
        /\ UNCHANGED <<ppid, event, signal, interrupted, sleep, waited, allTasks, allTasksLock,
                       current, prev, stack>>
    BY <1>4 DEF BlockPublish, GotoT, listVars
  <2>2. sleep[t].flag \in Blocked /\ state[t] = "RUNNING" /\ t \in allTasks
    BY <2>1, <1>r DEF IInv, PlaceTypeOK, Sleeps
  <2>3. CallTypeOK' /\ Fresh' /\ Listed'
    BY <2>1, <2>2 DEF IInv, PlaceTypeOK, CallInv, CallTypeOK, Fresh, Listed, Blocked
  <2>4. Calls' /\ InterruptedHasSignal'
    BY <2>1, <2>2 DEF IInv, PlaceTypeOK, CallInv, Calls, InterruptedHasSignal, Blocked
  <2> QED
    BY <1>q, <2>3, <2>4
<1>5. ASSUME NEW c \in Cpus, NEW t \in Tasks, BlockReturn(c, t) PROVE CallInv'
  <2>1. /\ Runs(c, t) /\ tpc[t] = "asleep"
        /\ tpc' = [tpc EXCEPT ![t] = IF ~interrupted[t] /\ waited[t] # NoTask THEN "reap" ELSE "user"]
        /\ sleep' = [sleep EXCEPT ![t] = NoSleep]
        /\ event' = [event EXCEPT ![t] = FALSE]
        /\ UNCHANGED <<state, ppid, signal, interrupted, waited, allTasks, allTasksLock,
                       current, prev, stack>>
    BY <1>5 DEF BlockReturn, GotoT, listVars, cpuVars
  <2>2. CallTypeOK' /\ Fresh' /\ Listed'
    BY <2>1, <1>r DEF IInv, PlaceTypeOK, CallInv, CallTypeOK, Fresh, Listed
  <2>3. tpc'[t] = "reap" \/ (tpc'[t] = "user" /\ waited[t] = NoTask)
    <3>1. interrupted[t] => waited[t] = NoTask
      BY <2>1, Zenon DEF CallInv, Calls
    <3>2. tpc'[t] = IF ~interrupted[t] /\ waited[t] # NoTask THEN "reap" ELSE "user"
      BY <2>1 DEF IInv, PlaceTypeOK
    <3> QED
      BY <3>1, <3>2, Zenon
  <2>4. Calls' /\ InterruptedHasSignal'
    BY <2>1, <2>3, <1>r DEF IInv, PlaceTypeOK, CallInv, Calls, InterruptedHasSignal, Blocked
  <2> QED
    BY <1>q, <2>2, <2>4
<1>6. ASSUME NEW c \in Cpus, NEW t \in Tasks, Reap(c, t) PROVE CallInv'
  <2> DEFINE u == waited[t]
  <2>1. /\ Runs(c, t) /\ tpc[t] = "reap"
        /\ state' = [state EXCEPT ![u] = IF refCount[u] = 1 THEN "FREED" ELSE state[u]]
        /\ waited' = [waited EXCEPT ![t] = NoTask]
        /\ tpc' = [tpc EXCEPT ![t] = "user"]
        /\ UNCHANGED <<ppid, event, signal, interrupted, sleep, allTasks, allTasksLock,
                       current, prev, stack>>
    BY <1>6 DEF Reap, GotoT, listVars, cpuVars
  <2>2. u \in Tasks /\ state[u] \in {"DEAD", "FREED"}
    BY <2>1 DEF IInv, PlaceTypeOK, TaskShape
  <2>3. \A v \in Tasks : state'[v] = state[v] \/ (v = u /\ state'[v] = "FREED")
    BY <2>1, <2>2 DEF IInv, PlaceTypeOK
  <2>4. CallTypeOK' /\ Listed' /\ InterruptedHasSignal'
    BY <2>1, <2>2, <2>3, <1>r DEF IInv, PlaceTypeOK, CallInv, CallTypeOK, Listed, InterruptedHasSignal, Blocked
  <2>5. Fresh'
    BY <2>1, <2>2, <2>3, <1>r DEF IInv, PlaceTypeOK, CallInv, Fresh
  <2>6. Calls'
    BY <2>1, <2>2, <2>3, <1>r DEF IInv, PlaceTypeOK, CallInv, Calls, Blocked
  <2> QED
    BY <1>q, <2>4, <2>5, <2>6
<1>7. ASSUME NEW c \in Cpus, NEW t \in Tasks, Exit(c, t) PROVE CallInv'
  <2>1. /\ Runs(c, t) /\ tpc[t] = "user"
        /\ ppid' = [u \in Tasks |-> IF u \in allTasks /\ ppid[u] = t THEN Root ELSE ppid[u]]
        /\ state' = [state EXCEPT ![t] = "DEAD"]
        /\ UNCHANGED <<event, signal, interrupted, sleep, waited, tpc, allTasks, allTasksLock,
                       current, prev, stack>>
    BY <1>7 DEF Exit, listVars
  <2>2. CallTypeOK'
    BY <2>1 DEF CallInv, CallTypeOK
  <2>3. Fresh' /\ Listed'
    BY <2>1, <1>r DEF IInv, PlaceTypeOK, CallInv, Fresh, Listed, Blocked
  <2>4. Calls' /\ InterruptedHasSignal'
    BY <2>1, <1>r DEF IInv, PlaceTypeOK, CallInv, Calls, InterruptedHasSignal, Blocked
  <2> QED
    BY <1>q, <2>2, <2>3, <2>4
<1>8. ASSUME NEW c \in Cpus, NEW t \in Tasks, PopSignal(c, t) PROVE CallInv'
  <2>1. /\ tpc[t] = "user" /\ signal' = [signal EXCEPT ![t] = FALSE]
        /\ UNCHANGED <<state, ppid, event, interrupted, sleep, waited, tpc, allTasks, allTasksLock,
                       current, prev, stack>>
    BY <1>8 DEF PopSignal, listVars, cpuVars
  <2> QED
    BY <2>1 DEF CallInv, CallTypeOK, Fresh, Listed, Calls, InterruptedHasSignal
<1>9. ASSUME NEW t \in Tasks, Happen(t) \/ SendSignal(t) PROVE CallInv'
  <2>1. /\ \/ event' = [event EXCEPT ![t] = ~event[t]] /\ UNCHANGED signal
           \/ signal' = [signal EXCEPT ![t] = TRUE] /\ UNCHANGED event
        /\ UNCHANGED <<state, ppid, interrupted, sleep, waited, tpc, allTasks, allTasksLock,
                       current, prev, stack>>
    BY <1>9 DEF Happen, SendSignal, listVars, cpuVars
  <2>2. CallTypeOK' /\ InterruptedHasSignal'
    BY <2>1 DEF CallInv, CallTypeOK, InterruptedHasSignal
  <2>3. Fresh' /\ Listed' /\ Calls'
    BY <2>1 DEF CallInv, Fresh, Listed, Calls
  <2> QED
    BY <1>q, <2>2, <2>3
<1>10. ASSUME NEW c \in Cpus,
              Yield(c) \/ YieldSave(c) \/ ScanSkip(c) \/ ScanDone(c) \/ YieldUnref(c)
       PROVE  CallInv'
  <2>1. /\ current' = current \/ current' = [current EXCEPT ![c] = NoTask]
        /\ allTasksLock' \in {allTasksLock, NoCpu}
        /\ UNCHANGED <<state, ppid, event, signal, interrupted, sleep, waited, tpc, allTasks, prev, stack>>
    BY <1>10 DEF Yield, YieldSave, ScanSkip, ScanDone, YieldUnref, taskVars, listVars
  <2>2. CallTypeOK' /\ Listed' /\ Calls' /\ InterruptedHasSignal'
    BY <2>1 DEF CallInv, CallTypeOK, Listed, Calls, InterruptedHasSignal
  <2>3. Fresh'
    BY <2>1 DEF IInv, PlaceTypeOK, CallInv, Fresh
  <2> QED
    BY <1>q, <2>2, <2>3
<1>11. ASSUME NEW c \in Cpus, SwitchContext(c) PROVE CallInv'
  <2>1. /\ prev' = [prev EXCEPT ![c] = IF current[c] = Idle THEN NoTask ELSE current[c]]
        /\ allTasksLock' = c
        /\ UNCHANGED <<state, ppid, event, signal, interrupted, sleep, waited, tpc, allTasks,
                       current, stack>>
    BY <1>11 DEF SwitchContext, taskVars
  <2>2. CallTypeOK' /\ Listed' /\ Calls' /\ InterruptedHasSignal'
    BY <2>1 DEF CallInv, CallTypeOK, Listed, Calls, InterruptedHasSignal
  <2>3. Fresh'
    BY <2>1 DEF IInv, PlaceTypeOK, CallInv, Fresh
  <2> QED
    BY <1>q, <2>2, <2>3
<1>12. ASSUME NEW c \in Cpus, ScanWake(c) PROVE CallInv'
  <2> DEFINE t == First(scan[c])
             intr == state[t] = "INTERRUPTIBLE" /\ signal[t]
             found == IF intr THEN NoTask ELSE Found(t, sleep[t])
  <2>1. t \in Tasks
    BY <1>12, FirstIsMember DEF ScanWake, IInv, PlaceTypeOK
  <2>2. /\ state[t] \in Blocked
        /\ interrupted' = [interrupted EXCEPT ![t] = intr]
        /\ state' = [state EXCEPT ![t] = "RUNNING"]
        /\ waited' = [waited EXCEPT ![t] = found]
        /\ allTasks' = allTasks \ {found}
        /\ UNCHANGED <<ppid, event, signal, sleep, tpc, allTasksLock, current, prev, stack>>
    BY <1>12 DEF ScanWake
  <2>3. found # NoTask => found \in Tasks /\ state[found] = "DEAD"
    BY <2>1, FoundIsDead DEF IInv, PlaceTypeOK
  <2>4. (intr => found = NoTask) /\ intr \in BOOLEAN /\ (intr => state[t] = "INTERRUPTIBLE" /\ signal[t])
    OBVIOUS
  <2>5. tpc[t] = "asleep" /\ sleep[t].flag = state[t] /\ t \in allTasks
    BY <2>1, <2>2 DEF IInv, TaskShape, CallInv, Calls, Listed
  <2> HIDE DEF t, intr, found
  <2>6. CallTypeOK' /\ Listed'
    BY <2>1, <2>2, <2>3, <2>4, <2>5 DEF IInv, PlaceTypeOK, CallInv, CallTypeOK, Listed, Blocked
  <2>7. Fresh'
    BY <2>1, <2>2, <2>3 DEF IInv, PlaceTypeOK, CallInv, Fresh
  <2>8. Calls'
    <3>1. \A v \in Tasks : v # t => /\ state'[v] = state[v] /\ interrupted'[v] = interrupted[v]
                                    /\ waited'[v] = waited[v]
      BY <2>2 DEF IInv, PlaceTypeOK, CallInv, CallTypeOK
    <3>2. state'[t] = "RUNNING" /\ (interrupted'[t] => waited'[t] = NoTask)
      BY <2>1, <2>2, <2>4 DEF IInv, PlaceTypeOK, CallInv, CallTypeOK
    <3> QED
      BY <2>2, <2>5, <3>1, <3>2 DEF CallInv, Calls, Blocked
  <2>9. InterruptedHasSignal'
    BY <2>1, <2>2, <2>4, <2>5 DEF IInv, PlaceTypeOK, CallInv, CallTypeOK, InterruptedHasSignal
  <2> QED
    BY <1>q, <2>6, <2>7, <2>8, <2>9
<1>13. ASSUME NEW c \in Cpus, Dequeue(c) PROVE CallInv'
  <2>1. UNCHANGED <<state, ppid, event, signal, interrupted, sleep, waited, tpc, allTasks,
                    allTasksLock, prev, stack>>
    BY <1>13 DEF Dequeue, taskVars
  <2>2. \E t \in Tasks \cup {Idle} :
          /\ current' = [current EXCEPT ![c] = t]
          /\ t \in Tasks => state[t] = "RUNNING"
    <3>1. CASE readyQueue = <<>>
      BY <1>13, <3>1 DEF Dequeue
    <3>2. CASE readyQueue # <<>>
      <4>1. Head(readyQueue) \in Tasks /\ Queued(Head(readyQueue))
        BY <3>2 DEF Queued, IInv, PlaceTypeOK
      <4>2. state[Head(readyQueue)] = "RUNNING"
        BY <4>1 DEF IInv, OneSide
      <4> QED
        BY <1>13, <3>2, <4>1, <4>2 DEF Dequeue
    <3> QED
      BY <3>1, <3>2
  <2>3. CallTypeOK' /\ Listed' /\ Calls' /\ InterruptedHasSignal'
    BY <2>1 DEF CallInv, CallTypeOK, Listed, Calls, InterruptedHasSignal
  <2>4. Fresh'
    BY <2>1, <2>2 DEF IInv, PlaceTypeOK, CallInv, Fresh
  <2> QED
    BY <1>q, <2>3, <2>4
<1>14. ASSUME NEW c \in Cpus, SwitchStack(c) PROVE CallInv'
  <2>1. /\ cpc[c] = "stack" /\ stack' = [stack EXCEPT ![c] = current[c]]
        /\ UNCHANGED <<state, ppid, event, signal, interrupted, sleep, waited, tpc, allTasks,
                       allTasksLock, current, prev>>
    BY <1>14 DEF SwitchStack, taskVars, listVars
  <2>2. current[c] \in Tasks \cup {Idle}
    BY <2>1 DEF IInv, PlaceTypeOK, CpuShape
  <2> QED
    BY <2>1, <2>2 DEF CallInv, CallTypeOK, Fresh, Listed, Calls, InterruptedHasSignal
<1>15. ASSUME NEW c \in Cpus, Requeue(c) PROVE CallInv'
  <2>1. /\ prev' = [prev EXCEPT ![c] = NoTask]
        /\ UNCHANGED <<state, ppid, event, signal, interrupted, sleep, waited, tpc, allTasks,
                       allTasksLock, current, stack>>
    BY <1>15 DEF Requeue, taskVars
  <2>2. CallTypeOK' /\ Listed' /\ Calls' /\ InterruptedHasSignal'
    BY <2>1 DEF CallInv, CallTypeOK, Listed, Calls, InterruptedHasSignal
  <2>3. Fresh'
    BY <2>1 DEF IInv, PlaceTypeOK, CallInv, Fresh
  <2> QED
    BY <1>q, <2>2, <2>3
<1> QED
  BY <1>0, <1>1, <1>2, <1>3, <1>4, <1>5, <1>6, <1>7, <1>8, <1>9, <1>10, <1>11,
     <1>12, <1>13, <1>14, <1>15, SignalledAssumption
     DEF Next, TaskStep, SwitchStep
-----------------------------------------------------------------------------
(* The terms of the count are numbers.                                     *)
LEMMA Terms ==
  ASSUME CountInv, NEW t \in Tasks
  PROVE  /\ Cardinality(Holding(current, prev, t)) \in Nat
         /\ Cardinality(Waiting(waited, t)) \in Nat
         /\ Bit(t \in allTasks) \in {0, 1} /\ Bit(Queued(t)) \in {0, 1}
         /\ refCount[t] = Bit(t \in allTasks) + Bit(Queued(t))
                          + Cardinality(Holding(current, prev, t)) + Cardinality(Waiting(waited, t))
<1>1. /\ Cardinality(Holding(current, prev, t)) \in Nat
      /\ Cardinality(Waiting(waited, t)) \in Nat
  BY FS_CardinalityType DEF CountInv
<1>2. Bit(t \in allTasks) \in {0, 1} /\ Bit(Queued(t)) \in {0, 1}
  BY DEF Bit
<1> QED
  BY <1>1, <1>2 DEF CountInv, RefCountExact

(* When a task calls sched_block or a child is found for it, the child is  *)
(* one more that a call points to.                                         *)
LEMMA WaitingGains ==
  ASSUME PlaceTypeOK, CountInv, NEW t \in Tasks, NEW u \in Tasks, waited[t] = NoTask,
         waited' = [waited EXCEPT ![t] = u]
  PROVE  /\ Cardinality(Waiting(waited', u)) = Cardinality(Waiting(waited, u)) + 1
         /\ \A v \in Tasks : IsFiniteSet(Waiting(waited', v))
         /\ \A v \in Tasks \ {u} : Waiting(waited', v) = Waiting(waited, v)
<1>1. Waiting(waited', u) = Waiting(waited, u) \cup {t} /\ t \notin Waiting(waited, u)
  BY NoTaskAssumption DEF PlaceTypeOK, Waiting
<1>2. \A v \in Tasks \ {u} : Waiting(waited', v) = Waiting(waited, v)
  BY NoTaskAssumption DEF PlaceTypeOK, Waiting
<1>3. \A v \in Tasks : IsFiniteSet(Waiting(waited, v))
  BY DEF CountInv
<1>4. /\ IsFiniteSet(Waiting(waited, u) \cup {t})
      /\ Cardinality(Waiting(waited, u) \cup {t}) = Cardinality(Waiting(waited, u)) + 1
  BY <1>1, <1>3, FS_AddElement
<1> QED
  BY <1>1, <1>2, <1>3, <1>4

(* ... and one less when the call is through with it.                      *)
LEMMA WaitingLoses ==
  ASSUME PlaceTypeOK, CountInv, NEW t \in Tasks, NEW u \in Tasks, waited[t] = u,
         waited' = [waited EXCEPT ![t] = NoTask]
  PROVE  /\ Cardinality(Waiting(waited, u)) = Cardinality(Waiting(waited', u)) + 1
         /\ Cardinality(Waiting(waited', u)) \in Nat
         /\ \A v \in Tasks : IsFiniteSet(Waiting(waited', v))
         /\ \A v \in Tasks \ {u} : Waiting(waited', v) = Waiting(waited, v)
<1>1. Waiting(waited', u) = Waiting(waited, u) \ {t} /\ t \in Waiting(waited, u)
  BY NoTaskAssumption DEF PlaceTypeOK, Waiting
<1>2. \A v \in Tasks \ {u} : Waiting(waited', v) = Waiting(waited, v)
  BY NoTaskAssumption DEF PlaceTypeOK, Waiting
<1>3. \A v \in Tasks : IsFiniteSet(Waiting(waited, v)) /\ Cardinality(Waiting(waited, v)) \in Nat
  BY FS_CardinalityType DEF CountInv
<1>4. /\ IsFiniteSet(Waiting(waited, u) \ {t})
      /\ Cardinality(Waiting(waited, u) \ {t}) = Cardinality(Waiting(waited, u)) - 1
  BY <1>1, <1>3, FS_RemoveElement
<1>5. IsFiniteSet(Waiting(waited', u)) /\ Cardinality(Waiting(waited', u)) \in Nat
  BY <1>1, <1>4, FS_CardinalityType
<1>6. Cardinality(Waiting(waited, u)) = Cardinality(Waiting(waited', u)) + 1
  <2>1. Cardinality(Waiting(waited', u)) = Cardinality(Waiting(waited, u)) - 1
    BY <1>1, <1>4
  <2>2. Cardinality(Waiting(waited, u)) \in Nat
    BY <1>3
  <2> QED
    BY <2>1, <2>2
<1> QED
  BY <1>2, <1>3, <1>5, <1>6

(* Nothing is counted but the init task, by the list and the queue.        *)
LEMMA InitCountInv == Init => CountInv
<1> SUFFICES ASSUME Init PROVE CountInv
  OBVIOUS
<1> USE TasksAssumption, NoTaskAssumption DEF Init
<1>1. \A t \in Tasks : Holding(current, prev, t) = {} /\ Waiting(waited, t) = {}
  BY DEF Holding, Waiting
<1>2. IsFiniteSet({}) /\ Cardinality({}) = 0
  BY FS_EmptySet
<1>3. refCount \in [Tasks -> Nat]
  OBVIOUS
<1>4. RefCountExact
  <2>1. ASSUME NEW t \in Tasks PROVE Queued(t) <=> t = Root
    BY DEF Queued
  <2>2. ASSUME NEW t \in Tasks
        PROVE  refCount[t] = Bit(t \in allTasks) + Bit(Queued(t)) + 0 + 0
    BY <2>1 DEF Bit
  <2> QED
    BY <1>1, <1>2, <2>2 DEF RefCountExact
<1> QED
  BY <1>1, <1>2, <1>3, <1>4 DEF CountInv

(* Every step keeps the count, given where the tasks are.                  *)
LEMMA NextCountInv ==
  ASSUME IInv, CallInv, CountInv, [Next]_vars
  PROVE  CountInv'
<1> USE TasksAssumption, NoTaskAssumption
<1>t. PlaceTypeOK /\ refCount \in [Tasks -> Nat]
  BY DEF IInv, CountInv
<1>f. \A v \in Tasks : /\ IsFiniteSet(Holding(current, prev, v))
                       /\ IsFiniteSet(Waiting(waited, v))
  BY DEF CountInv
<1>s. ASSUME \A v \in Tasks : /\ Holding(current', prev', v) = Holding(current, prev, v)
                              /\ Queued(v)' = Queued(v),
             UNCHANGED <<refCount, allTasks, waited>>
      PROVE  CountInv'
  BY <1>s DEF CountInv, RefCountExact
<1>n. ASSUME UNCHANGED <<refCount, allTasks, waited, readyQueue, current, prev>>
      PROVE  CountInv'
  BY <1>n, <1>s DEF Queued
<1>m. ASSUME NEW t \in Tasks, NEW u \in Tasks, u \in allTasks, waited[t] = NoTask,
             waited' = [waited EXCEPT ![t] = u], allTasks' = allTasks \ {u},
             UNCHANGED <<refCount, readyQueue, current, prev>>
      PROVE  CountInv'
  <2>1. /\ Cardinality(Waiting(waited', u)) = Cardinality(Waiting(waited, u)) + 1
        /\ \A v \in Tasks : IsFiniteSet(Waiting(waited', v))
        /\ \A v \in Tasks \ {u} : Waiting(waited', v) = Waiting(waited, v)
    BY <1>t, <1>m, WaitingGains
  <2>2. \A v \in Tasks : Queued(v)' = Queued(v)
    BY <1>m DEF Queued
  <2>3. ASSUME NEW v \in Tasks
        PROVE  refCount[v] = Bit(v \in allTasks') + Bit(Queued(v))
                 + Cardinality(Holding(current, prev, v)) + Cardinality(Waiting(waited', v))
    <3>1. CASE v = u
      <4>1. Bit(v \in allTasks') = 0 /\ Bit(v \in allTasks) = 1
        BY <1>m, <3>1 DEF Bit
      <4> QED
        BY <2>1, <3>1, <4>1, Terms
    <3>2. CASE v # u
      <4>1. Bit(v \in allTasks') = Bit(v \in allTasks)
        BY <1>m, <3>2 DEF Bit
      <4> QED
        BY <2>1, <3>2, <4>1, Terms
    <3> QED
      BY <3>1, <3>2
  <2>4. RefCountExact'
    BY <1>m, <2>2, <2>3 DEF RefCountExact
  <2>5. /\ refCount' \in [Tasks -> Nat]
        /\ \A v \in Tasks : IsFiniteSet(Holding(current', prev', v)) /\ IsFiniteSet(Waiting(waited', v))
    BY <1>t, <1>f, <1>m, <2>1
  <2> QED
    BY <2>4, <2>5 DEF CountInv
<1>0. CASE UNCHANGED vars
  BY <1>0, <1>n DEF vars, taskVars, listVars, cpuVars
<1>1. ASSUME NEW c \in Cpus, NEW t \in Tasks, Fork(c, t) PROVE CountInv'
  <2> PICK u \in Tasks :
         /\ state[u] = "NEW"
         /\ refCount' = [refCount EXCEPT ![u] = 2]
         /\ allTasks' = allTasks \cup {u}
         /\ waited' = [waited EXCEPT ![t] = u]
    BY <1>1 DEF Fork
  <2>1. tpc[t] = "user" /\ UNCHANGED <<readyQueue, current, prev>>
    BY <1>1 DEF Fork, cpuVars
  <2>2. waited[t] = NoTask
    BY <2>1 DEF CallInv, Calls
  <2>3. /\ Cardinality(Waiting(waited', u)) = Cardinality(Waiting(waited, u)) + 1
        /\ \A v \in Tasks : IsFiniteSet(Waiting(waited', v))
        /\ \A v \in Tasks \ {u} : Waiting(waited', v) = Waiting(waited, v)
    BY <1>t, <2>2, WaitingGains
  <2>4. Waiting(waited, u) = {} /\ Holding(current, prev, u) = {} /\ ~Queued(u)
    BY ZenonT(40) DEF CallInv, Fresh, Waiting, Holding, IInv, OneSide
  <2>5. Cardinality(Waiting(waited', u)) = 1 /\ Cardinality(Holding(current, prev, u)) = 0
    <3>1. Cardinality(Waiting(waited, u)) = 0 /\ Cardinality(Holding(current, prev, u)) = 0
      BY <2>4, FS_EmptySet
    <3> QED
      BY <2>3, <3>1
  <2>6. \A v \in Tasks : Queued(v)' = Queued(v)
    BY <2>1 DEF Queued
  <2>7. ASSUME NEW v \in Tasks
        PROVE  refCount'[v] = Bit(v \in allTasks') + Bit(Queued(v))
                 + Cardinality(Holding(current, prev, v)) + Cardinality(Waiting(waited', v))
    <3>1. CASE v = u
      <4>1. refCount'[v] = 2 /\ Bit(v \in allTasks') = 1 /\ Bit(Queued(v)) = 0
        BY <1>t, <2>4, <3>1 DEF Bit
      <4> QED
        BY <2>5, <3>1, <4>1
    <3>2. CASE v # u
      <4>1. refCount'[v] = refCount[v] /\ Bit(v \in allTasks') = Bit(v \in allTasks)
        BY <1>t, <3>2 DEF Bit
      <4> QED
        BY <2>3, <3>2, <4>1, Terms
    <3> QED
      BY <3>1, <3>2
  <2>8. RefCountExact'
    BY <2>1, <2>6, <2>7 DEF RefCountExact
  <2> QED
    BY <1>t, <1>f, <2>1, <2>3, <2>8 DEF CountInv
<1>2. ASSUME NEW c \in Cpus, NEW t \in Tasks, ForkEnqueue(c, t) PROVE CountInv'
  <2> DEFINE u == waited[t]
  <2>1. /\ tpc[t] = "register" /\ ~Queued(u)
        /\ readyQueue' = Append(readyQueue, u)
        /\ waited' = [waited EXCEPT ![t] = NoTask]
        /\ UNCHANGED <<refCount, allTasks, current, prev>>
    BY <1>2 DEF ForkEnqueue, cpuVars
  <2>2. u \in Tasks
    BY <2>1 DEF IInv, PlaceTypeOK, TaskShape
  <2>3. \A v \in Tasks : Queued(v)' <=> Queued(v) \/ v = u
    BY <1>t, <2>1, <2>2, QueueAppend DEF IInv, OneSide
  <2>4. /\ Cardinality(Waiting(waited, u)) = Cardinality(Waiting(waited', u)) + 1
        /\ Cardinality(Waiting(waited', u)) \in Nat
        /\ \A v \in Tasks : IsFiniteSet(Waiting(waited', v))
        /\ \A v \in Tasks \ {u} : Waiting(waited', v) = Waiting(waited, v)
    BY <1>t, <2>1, <2>2, WaitingLoses
  <2>5. ASSUME NEW v \in Tasks
        PROVE  refCount[v] = Bit(v \in allTasks) + Bit(Queued(v)')
                 + Cardinality(Holding(current, prev, v)) + Cardinality(Waiting(waited', v))
    <3>1. CASE v = u
      <4>1. Bit(Queued(v)') = 1 /\ Bit(Queued(v)) = 0
        BY <2>1, <2>3, <3>1 DEF Bit
      <4> QED
        BY <2>4, <3>1, <4>1, Terms
    <3>2. CASE v # u
      <4>1. Bit(Queued(v)') = Bit(Queued(v))
        BY <2>3, <3>2 DEF Bit
      <4> QED
        BY <2>4, <3>2, <4>1, Terms
    <3> QED
      BY <3>1, <3>2
  <2>6. RefCountExact'
    BY <2>1, <2>5 DEF RefCountExact
  <2>7. /\ refCount' \in [Tasks -> Nat]
        /\ \A v \in Tasks : IsFiniteSet(Holding(current', prev', v)) /\ IsFiniteSet(Waiting(waited', v))
    BY <1>t, <1>f, <2>1, <2>4
  <2> QED
    BY <2>6, <2>7 DEF CountInv
<1>3. ASSUME NEW c \in Cpus, NEW t \in Tasks, Block(c, t) PROVE CountInv'
  <2> PICK s \in Sleeps :
         /\ waited' = [waited EXCEPT ![t] = Found(t, s)]
         /\ allTasks' = allTasks \ {Found(t, s)}
    BY <1>3 DEF Block
  <2> DEFINE u == Found(t, s)
  <2>1. tpc[t] = "user" /\ UNCHANGED <<refCount, readyQueue, current, prev>>
    BY <1>3 DEF Block, cpuVars
  <2>2. waited[t] = NoTask
    BY <2>1 DEF CallInv, Calls
  <2>3. u # NoTask => u \in Tasks /\ u \in allTasks
    BY <1>t, FoundIsDead DEF PlaceTypeOK
  <2>4. waited' = [waited EXCEPT ![t] = u] /\ allTasks' = allTasks \ {u}
    OBVIOUS
  <2> HIDE DEF u
  <2>5. CASE u = NoTask
    <3>1. waited' = waited
      BY <1>t, <2>2, <2>4, <2>5 DEF PlaceTypeOK
    <3>2. allTasks' = allTasks
      <4>1. NoTask \notin allTasks
        BY <1>t DEF PlaceTypeOK
      <4> QED
        BY <2>4, <2>5, <4>1
    <3> QED
      BY <1>n, <2>1, <3>1, <3>2
  <2>6. CASE u # NoTask
    BY <1>m, <2>1, <2>2, <2>3, <2>4, <2>6
  <2> QED
    BY <2>5, <2>6
<1>4. ASSUME NEW c \in Cpus, NEW t \in Tasks,
             BlockPublish(c, t) \/ BlockReturn(c, t) \/ Exit(c, t) \/ PopSignal(c, t)
      PROVE  CountInv'
  BY <1>4, <1>n DEF BlockPublish, BlockReturn, Exit, PopSignal, listVars, cpuVars
<1>5. ASSUME NEW t \in Tasks, Happen(t) \/ SendSignal(t) PROVE CountInv'
  BY <1>5, <1>n DEF Happen, SendSignal, listVars, cpuVars
<1>6. ASSUME NEW c \in Cpus, NEW t \in Tasks, Reap(c, t) PROVE CountInv'
  <2> DEFINE u == waited[t]
  <2>1. /\ tpc[t] = "reap"
        /\ refCount' = [refCount EXCEPT ![u] = refCount[u] - 1]
        /\ waited' = [waited EXCEPT ![t] = NoTask]
        /\ UNCHANGED <<allTasks, readyQueue, current, prev>>
    BY <1>6 DEF Reap, listVars, cpuVars
  <2>2. u \in Tasks
    BY <2>1 DEF IInv, PlaceTypeOK, TaskShape
  <2>3. /\ Cardinality(Waiting(waited, u)) = Cardinality(Waiting(waited', u)) + 1
        /\ Cardinality(Waiting(waited', u)) \in Nat
        /\ \A v \in Tasks : IsFiniteSet(Waiting(waited', v))
        /\ \A v \in Tasks \ {u} : Waiting(waited', v) = Waiting(waited, v)
    BY <1>t, <2>1, <2>2, WaitingLoses
  <2>4. \A v \in Tasks : Queued(v)' = Queued(v)
    BY <2>1 DEF Queued
  <2> HIDE DEF u
  <2>5. refCount'[u] = refCount[u] - 1 /\ \A v \in Tasks \ {u} : refCount'[v] = refCount[v]
    BY <1>t, <2>1, <2>2
  <2>6. ASSUME NEW v \in Tasks
        PROVE  refCount'[v] = Bit(v \in allTasks) + Bit(Queued(v))
                 + Cardinality(Holding(current, prev, v)) + Cardinality(Waiting(waited', v))
    <3>1. CASE v = u
      BY <2>3, <2>5, <3>1, Terms
    <3>2. CASE v # u
      BY <2>3, <2>5, <3>2, Terms
    <3> QED
      BY <3>1, <3>2
  <2>7. RefCountExact'
    BY <2>1, <2>4, <2>6 DEF RefCountExact
  <2>8. refCount' \in [Tasks -> Nat]
    <3>1. refCount[u] - 1 \in Nat
      BY <2>2, <2>3, Terms
    <3> QED
      BY <1>t, <2>1, <3>1
  <2>9. \A v \in Tasks : IsFiniteSet(Holding(current', prev', v)) /\ IsFiniteSet(Waiting(waited', v))
    BY <1>f, <2>1, <2>3
  <2> QED
    BY <2>7, <2>8, <2>9 DEF CountInv
<1>7. ASSUME NEW c \in Cpus, Yield(c) \/ YieldSave(c) \/ ScanSkip(c) \/ ScanDone(c) \/ SwitchStack(c)
      PROVE  CountInv'
  BY <1>7, <1>n DEF Yield, YieldSave, ScanSkip, ScanDone, SwitchStack, taskVars, listVars
<1>8. ASSUME NEW c \in Cpus, YieldUnref(c) PROVE CountInv'
  <2> DEFINE t == current[c]
  <2>1. /\ cpc[c] = "unref"
        /\ refCount' = [refCount EXCEPT ![t] = refCount[t] - 1]
        /\ current' = [current EXCEPT ![c] = NoTask]
        /\ UNCHANGED <<allTasks, waited, readyQueue, prev>>
    BY <1>8 DEF YieldUnref, listVars
  <2>2. t \in Tasks /\ prev[c] = NoTask
    BY <2>1 DEF IInv, CpuShape
  <2>3. /\ Holding(current', prev, t) = Holding(current, prev, t) \ {c}
        /\ c \in Holding(current, prev, t)
        /\ \A v \in Tasks \ {t} : Holding(current', prev, v) = Holding(current, prev, v)
    BY <1>t, <2>1, <2>2 DEF Holding, PlaceTypeOK
  <2>4. \A v \in Tasks : Queued(v)' = Queued(v)
    BY <2>1 DEF Queued
  <2> HIDE DEF t
  <2>5. /\ IsFiniteSet(Holding(current', prev, t))
        /\ Cardinality(Holding(current', prev, t)) = Cardinality(Holding(current, prev, t)) - 1
    BY <1>f, <2>2, <2>3, FS_RemoveElement
  <2>6. Cardinality(Holding(current', prev, t)) \in Nat
    BY <2>5, FS_CardinalityType
  <2>7. refCount'[t] = refCount[t] - 1 /\ \A v \in Tasks \ {t} : refCount'[v] = refCount[v]
    BY <1>t, <2>1, <2>2
  <2>8. ASSUME NEW v \in Tasks
        PROVE  refCount'[v] = Bit(v \in allTasks) + Bit(Queued(v))
                 + Cardinality(Holding(current', prev, v)) + Cardinality(Waiting(waited, v))
    <3>1. CASE v = t
      BY <2>5, <2>7, <3>1, Terms
    <3>2. CASE v # t
      BY <2>3, <2>7, <3>2, Terms
    <3> QED
      BY <3>1, <3>2
  <2>9. RefCountExact'
    BY <2>1, <2>4, <2>8 DEF RefCountExact
  <2>10. refCount' \in [Tasks -> Nat]
    <3>1. refCount[t] - 1 \in Nat
      BY <2>2, <2>5, <2>6, Terms
    <3> QED
      BY <1>t, <2>1, <3>1
  <2>11. \A v \in Tasks : IsFiniteSet(Holding(current', prev', v)) /\ IsFiniteSet(Waiting(waited', v))
    BY <1>f, <2>1, <2>3, <2>5
  <2> QED
    BY <2>9, <2>10, <2>11 DEF CountInv
<1>9. ASSUME NEW c \in Cpus, SwitchContext(c) PROVE CountInv'
  <2>1. /\ cpc[c] = "switch"
        /\ prev' = [prev EXCEPT ![c] = IF current[c] = Idle THEN NoTask ELSE current[c]]
        /\ UNCHANGED <<refCount, allTasks, waited, readyQueue, current>>
    BY <1>9 DEF SwitchContext, taskVars
  <2>2. prev[c] = NoTask
    BY <2>1 DEF IInv, CpuShape
  <2>3. \A v \in Tasks : Holding(current', prev', v) = Holding(current, prev, v)
    BY <1>t, <2>1, <2>2 DEF Holding, PlaceTypeOK
  <2> QED
    BY <1>s, <2>1, <2>3 DEF Queued
<1>10. ASSUME NEW c \in Cpus, ScanWake(c) PROVE CountInv'
  <2> DEFINE t == First(scan[c])
  <2>1. t \in Tasks
    BY <1>10, FirstIsMember DEF ScanWake, IInv, PlaceTypeOK
  <2>2. PICK f :
           /\ f \in {NoTask, Found(t, sleep[t])}
           /\ state[t] \in Blocked /\ ~Queued(t)
           /\ refCount' = [refCount EXCEPT ![t] = refCount[t] + 1]
           /\ readyQueue' = Append(readyQueue, t)
           /\ waited' = [waited EXCEPT ![t] = f]
           /\ allTasks' = allTasks \ {f}
           /\ UNCHANGED <<current, prev>>
    BY <1>10 DEF ScanWake
  <2>3. f # NoTask => f \in Tasks /\ f \in allTasks /\ f # t
    <3>1. sleep[t] \in Sleeps
      BY <1>t, <2>1 DEF PlaceTypeOK
    <3> QED
      BY <1>t, <2>1, <2>2, <3>1, FoundIsDead, ZenonT(40) DEF PlaceTypeOK, Blocked
  <2>4. \A v \in Tasks : Queued(v)' <=> Queued(v) \/ v = t
    BY <1>t, <2>1, <2>2, QueueAppend DEF IInv, OneSide
  <2> HIDE DEF t
  <2>5. waited[t] = NoTask
    BY <2>1, <2>2 DEF CallInv, Calls
  <2>6. /\ \A v \in Tasks : /\ v = f => Cardinality(Waiting(waited', v)) = Cardinality(Waiting(waited, v)) + 1
                            /\ v # f => Waiting(waited', v) = Waiting(waited, v)
        /\ \A v \in Tasks : IsFiniteSet(Waiting(waited', v))
    <3>1. CASE f = NoTask
      <4>1. waited' = waited
        BY <1>t, <2>1, <2>2, <2>5, <3>1 DEF PlaceTypeOK
      <4> QED
        BY <1>f, <3>1, <4>1
    <3>2. CASE f # NoTask
      BY <1>t, <2>1, <2>2, <2>3, <2>5, <3>2, WaitingGains
    <3> QED
      BY <3>1, <3>2
  <2>7. refCount'[t] = refCount[t] + 1 /\ \A v \in Tasks \ {t} : refCount'[v] = refCount[v]
    BY <1>t, <2>1, <2>2
  <2>8. ASSUME NEW v \in Tasks
        PROVE  refCount'[v] = Bit(v \in allTasks') + Bit(Queued(v)')
                 + Cardinality(Holding(current, prev, v)) + Cardinality(Waiting(waited', v))
    <3>1. CASE v = t
      <4>1. Bit(v \in allTasks') = Bit(v \in allTasks) /\ Bit(Queued(v)') = 1 /\ Bit(Queued(v)) = 0
        BY <2>1, <2>2, <2>3, <2>4, <3>1 DEF Bit
      <4>2. v # f
        BY <2>1, <2>3, <3>1
      <4>3. Waiting(waited', v) = Waiting(waited, v)
        BY <2>6, <4>2
      <4> QED
        BY <2>7, <3>1, <4>1, <4>3, Terms
    <3>2. CASE v = f
      <4>1. Bit(v \in allTasks') = 0 /\ Bit(v \in allTasks) = 1 /\ Bit(Queued(v)') = Bit(Queued(v))
        BY <2>2, <2>3, <2>4, <3>2 DEF Bit
      <4>2. Cardinality(Waiting(waited', v)) = Cardinality(Waiting(waited, v)) + 1
        BY <2>6, <3>2
      <4>3. refCount'[v] = refCount[v]
        BY <2>3, <2>7, <3>2
      <4> QED
        BY <4>1, <4>2, <4>3, Terms
    <3>3. CASE v # t /\ v # f
      <4>1. Bit(v \in allTasks') = Bit(v \in allTasks) /\ Bit(Queued(v)') = Bit(Queued(v))
        BY <2>2, <2>4, <3>3 DEF Bit
      <4> QED
        BY <2>6, <2>7, <3>3, <4>1, Terms
    <3> QED
      BY <3>1, <3>2, <3>3
  <2>9. RefCountExact'
    BY <2>2, <2>8 DEF RefCountExact
  <2>10. /\ refCount' \in [Tasks -> Nat]
         /\ \A v \in Tasks : IsFiniteSet(Holding(current', prev', v)) /\ IsFiniteSet(Waiting(waited', v))
    <3>1. refCount[t] \in Nat /\ refCount[t] + 1 \in Nat
      BY <1>t, <2>1
    <3>2. refCount' \in [Tasks -> Nat]
      BY <1>t, <2>2, <3>1
    <3> QED
      BY <1>f, <2>2, <2>6, <3>2
  <2> QED
    BY <2>9, <2>10 DEF CountInv
<1>11. ASSUME NEW c \in Cpus, Dequeue(c) PROVE CountInv'
  <2>1. cpc[c] = "dequeue" /\ UNCHANGED <<refCount, allTasks, waited, prev>>
    BY <1>11 DEF Dequeue, taskVars
  <2>2. prev[c] = IF current[c] = Idle THEN NoTask ELSE current[c]
    BY <2>1 DEF IInv, CpuShape
  <2>3. CASE readyQueue = <<>>
    <3>1. current' = [current EXCEPT ![c] = Idle] /\ UNCHANGED readyQueue
      BY <1>11, <2>3 DEF Dequeue
    <3>2. \A v \in Tasks : Holding(current', prev', v) = Holding(current, prev, v)
      BY <1>t, <2>1, <2>2, <3>1 DEF Holding, PlaceTypeOK
    <3> QED
      BY <1>s, <2>1, <3>1, <3>2 DEF Queued
  <2>4. CASE readyQueue # <<>>
    <3> DEFINE t == Head(readyQueue)
    <3>1. current' = [current EXCEPT ![c] = t] /\ readyQueue' = Tail(readyQueue)
      BY <1>11, <2>4 DEF Dequeue
    <3>2. /\ t \in Tasks /\ Queued(t)
          /\ \A u \in Tasks : Queued(u)' <=> Queued(u) /\ u # t
      BY <1>t, <2>4, <3>1, QueueTail DEF IInv, OneSide
    <3> HIDE DEF t
    <3>3. \A d \in Cpus : ~Owns(d, t)
      BY <3>2 DEF IInv, OneSide
    <3>4. /\ Holding(current', prev', t) = Holding(current, prev, t) \cup {c}
          /\ c \notin Holding(current, prev, t)
          /\ \A v \in Tasks \ {t} : Holding(current', prev', v) = Holding(current, prev, v)
      <4>1. current[c] # t /\ prev[c] # t
        BY <2>1, <3>3 DEF Owns
      <4> QED
        BY <1>t, <2>1, <2>2, <3>1, <3>2, <4>1 DEF Holding, PlaceTypeOK
    <3>5. /\ IsFiniteSet(Holding(current', prev', t))
          /\ Cardinality(Holding(current', prev', t)) = Cardinality(Holding(current, prev, t)) + 1
      BY <1>f, <3>2, <3>4, FS_AddElement
    <3>6. ASSUME NEW v \in Tasks
          PROVE  refCount[v] = Bit(v \in allTasks) + Bit(Queued(v)')
                   + Cardinality(Holding(current', prev', v)) + Cardinality(Waiting(waited, v))
      <4>1. CASE v = t
        <5>1. Bit(Queued(v)') = 0 /\ Bit(Queued(v)) = 1
          BY <3>2, <4>1 DEF Bit
        <5> QED
          BY <3>5, <4>1, <5>1, Terms
      <4>2. CASE v # t
        <5>1. Bit(Queued(v)') = Bit(Queued(v))
          BY <3>2, <4>2 DEF Bit
        <5> QED
          BY <3>4, <4>2, <5>1, Terms
      <4> QED
        BY <4>1, <4>2
    <3>7. RefCountExact'
      BY <2>1, <3>6 DEF RefCountExact
    <3>8. /\ refCount' \in [Tasks -> Nat]
          /\ \A v \in Tasks : IsFiniteSet(Holding(current', prev', v)) /\ IsFiniteSet(Waiting(waited', v))
      BY <1>t, <1>f, <2>1, <3>4, <3>5
    <3> QED
      BY <3>7, <3>8 DEF CountInv
  <2> QED
    BY <2>3, <2>4
<1>12. ASSUME NEW c \in Cpus, Requeue(c) PROVE CountInv'
  <2> DEFINE t == prev[c]
  <2>1. /\ cpc[c] = "requeue" /\ ~Queued(t)
        /\ readyQueue' = Append(readyQueue, t)
        /\ prev' = [prev EXCEPT ![c] = NoTask]
        /\ UNCHANGED <<refCount, allTasks, waited, current>>
    BY <1>12 DEF Requeue, taskVars
  <2>2. t \in Tasks /\ current[c] # t
    BY <2>1 DEF IInv, PlaceTypeOK, CpuShape
  <2>3. \A v \in Tasks : Queued(v)' <=> Queued(v) \/ v = t
    BY <1>t, <2>1, <2>2, QueueAppend DEF IInv, OneSide
  <2>4. /\ Holding(current', prev', t) = Holding(current, prev, t) \ {c}
        /\ c \in Holding(current, prev, t)
        /\ \A v \in Tasks \ {t} : Holding(current', prev', v) = Holding(current, prev, v)
    BY <1>t, <2>1, <2>2 DEF Holding, PlaceTypeOK
  <2> HIDE DEF t
  <2>5. /\ IsFiniteSet(Holding(current', prev', t))
        /\ Cardinality(Holding(current', prev', t)) = Cardinality(Holding(current, prev, t)) - 1
    BY <1>f, <2>2, <2>4, FS_RemoveElement, ZenonT(40)
  <2>6. ASSUME NEW v \in Tasks
        PROVE  refCount[v] = Bit(v \in allTasks) + Bit(Queued(v)')
                 + Cardinality(Holding(current', prev', v)) + Cardinality(Waiting(waited, v))
    <3>1. CASE v = t
      <4>1. Bit(Queued(v)') = 1 /\ Bit(Queued(v)) = 0
        BY <2>1, <2>3, <3>1 DEF Bit
      <4> QED
        BY <2>5, <3>1, <4>1, Terms
    <3>2. CASE v # t
      <4>1. Bit(Queued(v)') = Bit(Queued(v))
        BY <2>3, <3>2 DEF Bit
      <4> QED
        BY <2>4, <3>2, <4>1, Terms
    <3> QED
      BY <3>1, <3>2
  <2>7. RefCountExact'
    BY <2>1, <2>6 DEF RefCountExact
  <2>8. /\ refCount' \in [Tasks -> Nat]
        /\ \A v \in Tasks : IsFiniteSet(Holding(current', prev', v)) /\ IsFiniteSet(Waiting(waited', v))
    BY <1>t, <1>f, <2>1, <2>4, <2>5
  <2> QED
    BY <2>7, <2>8 DEF CountInv
<1> QED
  BY <1>0, <1>1, <1>2, <1>3, <1>4, <1>5, <1>6, <1>7, <1>8, <1>9, <1>10, <1>11,
     <1>12, SignalledAssumption DEF Next, TaskStep, SwitchStep
-----------------------------------------------------------------------------
FullInv == IInv /\ CallInv /\ CountInv

(* The three invariants together.                                          *)
LEMMA SchedInvariant == Spec => []FullInv
<1>1. Init => FullInv
  BY InitIInv, InitCallInv, InitCountInv DEF FullInv
<1>2. FullInv /\ [Next]_vars => FullInv'
  BY NextIInv, NextCallInv, NextCountInv DEF FullInv
<1> QED
  BY <1>1, <1>2, PTL DEF Spec

(* Every variable keeps its type: in particular ref_count never wraps      *)
(* below zero, and a CPU never loads the stack pointer of no task.         *)
THEOREM SchedTypeOK == Spec => []TypeOK
<1>1. FullInv => TypeOK
  BY DEF FullInv, IInv, PlaceTypeOK, CallInv, CallTypeOK, CountInv, TypeOK
<1> QED
  BY SchedInvariant, <1>1, PTL

(* The ref_count of a task is the number of pointers the lists, the queue, *)
(* the CPUs and the calls in progress hold to it: for any number of CPUs   *)
(* and tasks, also while a CPU is on its way out of a task another CPU     *)
(* has woken, or has even reaped.                                          *)
THEOREM SchedRefCountExact == Spec => []RefCountExact
<1>1. FullInv => RefCountExact
  BY DEF FullInv, CountInv
<1> QED
  BY SchedInvariant, <1>1, PTL

(* sched_block returns -EINTR only to a task that has a signal to handle   *)
(* and that asked for BLOCK_INTERRUPTIBLE.                                 *)
THEOREM SchedInterruptedHasSignal == Spec => []InterruptedHasSignal
<1>1. FullInv => InterruptedHasSignal
  BY DEF FullInv, CallInv
<1> QED
  BY SchedInvariant, <1>1, PTL
-----------------------------------------------------------------------------
(* Without SMP: a CPU that is leaving a task finds it on the list still.   *)
LeavesListed == \A c \in Cpus : cpc[c] = "unref" => current[c] \in allTasks

(* The task was runnable, hence on the list, and nobody else runs in       *)
(* between who could unlink it.                                            *)
LEMMA NextLeavesListed ==
  ASSUME \A c, d \in Cpus : c = d, FullInv, LeavesListed, [Next]_vars
  PROVE  LeavesListed'
<1> USE TasksAssumption, NoTaskAssumption
<1>t. PlaceTypeOK
  BY DEF FullInv, IInv
<1>r. ASSUME NEW c \in Cpus, NEW t \in Tasks, Runs(c, t)
      PROVE  t \in allTasks
  <2>1. state[t] = "RUNNING"
    BY <1>r DEF Runs, FullInv, IInv, OneSide, Owns
  <2> QED
    BY <2>1 DEF FullInv, CallInv, Listed
<1>n. ASSUME UNCHANGED <<cpc, current, allTasks>> PROVE LeavesListed'
  BY <1>n DEF LeavesListed
<1>o. ASSUME NEW c \in Cpus, NEW l \in Cpcs, l # "unref", cpc' = [cpc EXCEPT ![c] = l]
      PROVE  LeavesListed'
  BY <1>o, <1>t DEF LeavesListed, PlaceTypeOK
<1>0. CASE UNCHANGED vars
  BY <1>0, <1>n DEF vars, listVars, cpuVars
<1>1. ASSUME NEW c \in Cpus, NEW t \in Tasks, BlockPublish(c, t) \/ Exit(c, t) PROVE LeavesListed'
  <2>1. Runs(c, t) /\ UNCHANGED <<current, allTasks>>
    BY <1>1 DEF BlockPublish, Exit, listVars
  <2> QED
    BY <1>r, <2>1 DEF LeavesListed, Runs
<1>2. ASSUME NEW c \in Cpus, NEW t \in Tasks, Fork(c, t) \/ Block(c, t) PROVE LeavesListed'
  <2>1. cpc[c] = "run" /\ UNCHANGED cpc
    BY <1>2 DEF Fork, Block, Runs, cpuVars
  <2> QED
    BY <2>1 DEF LeavesListed
<1>3. ASSUME NEW c \in Cpus, NEW t \in Tasks,
             ForkEnqueue(c, t) \/ BlockReturn(c, t) \/ Reap(c, t) \/ PopSignal(c, t)
      PROVE  LeavesListed'
  BY <1>3, <1>n DEF ForkEnqueue, BlockReturn, Reap, PopSignal, listVars, cpuVars
<1>4. ASSUME NEW t \in Tasks, Happen(t) \/ SendSignal(t) PROVE LeavesListed'
  BY <1>4, <1>n DEF Happen, SendSignal, listVars, cpuVars
<1>5. ASSUME NEW c \in Cpus, Yield(c) \/ SwitchStep(c) PROVE LeavesListed'
  <2>1. CASE ScanSkip(c) \/ ScanWake(c)
    <3>1. cpc[c] = "scan" /\ UNCHANGED cpc
      BY <2>1 DEF ScanSkip, ScanWake
    <3> QED
      BY <3>1 DEF LeavesListed
  <2>2. CASE ~(ScanSkip(c) \/ ScanWake(c))
    <3>1. \E l \in Cpcs \ {"unref"} : cpc' = [cpc EXCEPT ![c] = l]
      BY <1>5, <2>2 DEF SwitchStep, Yield, YieldUnref, YieldSave, SwitchContext, ScanDone, Dequeue,
                        SwitchStack, Requeue, GotoC, Cpcs
    <3> QED
      BY <1>o, <3>1
  <2> QED
    BY <2>1, <2>2
<1> QED
  BY <1>0, <1>1, <1>2, <1>3, <1>4, <1>5, SignalledAssumption DEF Next, TaskStep

(* The assertion "task != current" of task_unref, on the build without     *)
(* SMP: sched_yield(false) never drops the last reference to the task on   *)
(* whose stack it runs.  The list holds one, the CPU the other.            *)
THEOREM SchedFreedByOther ==
  ASSUME \A c, d \in Cpus : c = d
  PROVE  Spec => []FreedByOther
<1>1. Init => LeavesListed
  BY DEF Init, LeavesListed
<1>2. FullInv /\ LeavesListed /\ [Next]_vars => LeavesListed'
  BY NextLeavesListed
<1>3. ASSUME FullInv, LeavesListed PROVE FreedByOther
  <2>1. ASSUME NEW c \in Cpus, cpc[c] = "unref" PROVE refCount[current[c]] > 1
    <3> DEFINE t == current[c]
    <3>1. t \in Tasks /\ t \in allTasks
      BY <1>3, <2>1 DEF FullInv, IInv, CpuShape, LeavesListed
    <3>2. c \in Holding(current, prev, t)
      BY DEF Holding
    <3> HIDE DEF t
    <3>3. IsFiniteSet(Holding(current, prev, t)) /\ Cardinality(Holding(current, prev, t)) # 0
      BY <1>3, <3>1, <3>2, FS_EmptySet DEF FullInv, CountInv
    <3>4. Bit(t \in allTasks) = 1
      BY <3>1 DEF Bit
    <3>5. refCount[t] > 1
      BY <1>3, <3>1, <3>3, <3>4, Terms DEF FullInv
    <3> QED
      BY <3>5 DEF t
  <2> QED
    BY <2>1 DEF FreedByOther
<1> QED
  BY SchedInvariant, <1>1, <1>2, <1>3, PTL DEF Spec
=============================================================================
