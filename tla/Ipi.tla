-------------------------------- MODULE Ipi --------------------------------
(***************************************************************************)
(* Messages between CPUs (kernel/cpu.c) and what they are for: the TLB     *)
(* shootdown of flush_tlb_range (memory/page_table.c), the start of the    *)
(* other CPUs (smp.c) and halt (system.c).                                 *)
(*                                                                         *)
(* A page table entry is changed under the lock of its address space; the  *)
(* task may then be preempted and go on elsewhere before it calls          *)
(* flush_tlb_range, which runs with interrupts off to its end.  The queues *)
(* and the message pool are taken as atomic here: Mpsc looks inside them.  *)
(* A CPU's current task is abstracted to its vm, all the flush looks at.   *)
(***************************************************************************)
EXTENDS Integers, Sequences, FiniteSets, FiniteSetsExt

CONSTANTS
  NumCpus,      \* num_cpus, more than one with SMP; CPU 0 is the BSP
  KernelPages,  \* pages at kernel addresses: in the kernel's half of every vm
  UserVms,      \* address spaces of processes, one user page each
  KernelVm,     \* kernel_vm, the idle tasks' address space
  Identity,     \* the identity mapping that the APs start in
  Null,         \* the NULL pointer
  MaxModified,  \* bound: page table changes in a behaviour
  Halters       \* bound: the CPUs on which halt is called

ASSUME NumCpusAssumption == NumCpus \in Nat \ {0, 1}
ASSUME PagesAssumption ==
  /\ KernelPages \cap UserVms = {}
  /\ {KernelVm, Identity, Null} \cap (KernelPages \cup UserVms) = {}
  /\ Null # KernelVm /\ Null \notin 1..NumCpus
ASSUME BoundsAssumption == MaxModified \in Nat /\ Halters \subseteq Nat

Cpus == 0..(NumCpus - 1)
Vms == UserVms \cup {KernelVm}
Pages == KernelPages \cup UserVms        \* a user page has the name of its vm
Msgs == 1..NumCpus

VARIABLES
  active,     \* smp_active
  ready,      \* num_ready_cpus
  modified,   \* number of page table changes made so far
  pending,    \* pages whose entry has changed and flush_tlb_range has not returned
  stale,      \* pages of which a CPU's TLB may hold the entry before the change
  cr3,        \* the page directory a CPU uses
  cur,        \* cpu->current_task->vm, Null if current_task is
  pool,       \* msg_pool
  msg,        \* each message: its type, page and ref_count
  queue,      \* cpu->msg_queue
  ack,        \* the message whose work a CPU has done in cpu_process_messages
  pc,         \* what a CPU is doing
  page, mine, todo   \* flush_tlb_range: its page, its message, the CPUs to be told

flushVars == <<page, mine, todo>>
vars == <<active, ready, modified, pending, stale, cr3, cur, pool, msg, queue, ack, pc,
          page, mine, todo>>

Pcs == {"boot", "spin", "run", "enter", "switch", "load", "scan", "alloc", "count",
        "post", "self", "wait", "halted"}

TypeOK ==
  /\ active \in BOOLEAN /\ ready \in Nat /\ modified \in 0..MaxModified
  /\ pending \subseteq Pages
  /\ stale \in [Cpus -> SUBSET (Pages \cup {Identity})]
  /\ cr3 \in [Cpus -> Vms] /\ cur \in [Cpus -> Vms \cup {Null}]
  /\ pool \in Seq(Msgs)
  /\ msg \in [Msgs -> [type : {"HALT", "FLUSH_TLB"}, page : Pages \cup {Null}, refs : Nat]]
  /\ queue \in [Cpus -> Seq(Msgs)] /\ ack \in [Cpus -> Msgs \cup {Null}]
  /\ pc \in [Cpus -> Pcs]
  /\ page \in [Cpus -> Pages \cup {Null}] /\ mine \in [Cpus -> Msgs \cup {Null}]
  /\ todo \in [Cpus -> SUBSET Cpus]

(* smp_start has sent the start-up IPIs: the BSP waits for the others.     *)
Init ==
  /\ active = FALSE /\ ready = 1 /\ modified = 0
  /\ pending = {}
  /\ stale = [c \in Cpus |-> {}]
  /\ cr3 = [c \in Cpus |-> KernelVm]
  /\ cur = [c \in Cpus |-> Null]
  /\ pool = [i \in Msgs |-> i]
  /\ msg = [m \in Msgs |-> [type |-> "HALT", page |-> Null, refs |-> 0]]
  /\ queue = [c \in Cpus |-> <<>>]
  /\ ack = [c \in Cpus |-> Null]
  /\ pc = [c \in Cpus |-> "boot"]
  /\ page = [c \in Cpus |-> Null] /\ mine = [c \in Cpus |-> Null]
  /\ todo = [c \in Cpus |-> {}]

-----------------------------------------------------------------------------
(* A CPU inside cpu_process_messages does nothing else.                    *)
At(c, l) == pc[c] = l /\ ack[c] = Null
Goto(c, l) == pc' = [pc EXCEPT ![c] = l]

(* ap_start: count the CPU, wait for smp_active, flush the whole TLB (the  *)
(* entries that are not global) and enter switch_context.                  *)
ApReady(c) ==
  /\ At(c, "boot") /\ c # 0
  /\ ready' = ready + 1
  /\ Goto(c, "spin")
  /\ UNCHANGED <<active, modified, pending, stale, cr3, cur, pool, msg, queue, ack, flushVars>>

ApStart(c) ==
  /\ At(c, "spin") /\ active
  /\ stale' = [stale EXCEPT ![c] = @ \cap KernelPages]
  /\ Goto(c, "switch")
  /\ UNCHANGED <<active, ready, modified, pending, cr3, cur, pool, msg, queue, ack, flushVars>>

(* The end of smp_start, then sched_start: the identity mapping goes, the  *)
(* BSP flushes its own TLB only, and sets smp_active.                      *)
SmpActivate ==
  /\ At(0, "boot") /\ ready = NumCpus
  /\ stale' = [c \in Cpus |-> IF c = 0 THEN {} ELSE {Identity}]
  /\ active' = TRUE
  /\ Goto(0, "switch")
  /\ UNCHANGED <<ready, modified, pending, cr3, cur, pool, msg, queue, ack, flushVars>>

-----------------------------------------------------------------------------
(* sched_yield: current_task stays until the next task is known, or, when  *)
(* the task blocks, becomes NULL at once.  It may hit a task inside        *)
(* vm_enter, which is preemptible.                                         *)
Leave(c, blocks) ==
  /\ At(c, "run") \/ At(c, "enter")
  /\ cur' = [cur EXCEPT ![c] = IF blocks THEN Null ELSE @]
  /\ Goto(c, "switch")
  /\ UNCHANGED <<active, ready, modified, pending, stale, cr3, pool, msg, queue, ack, flushVars>>

(* switch_context: current_task is set, and vm_enter loads cr3 after that. *)
SetTask(c, vm) ==
  /\ At(c, "switch")
  /\ cur' = [cur EXCEPT ![c] = vm]
  /\ Goto(c, "load")
  /\ UNCHANGED <<active, ready, modified, pending, stale, cr3, pool, msg, queue, ack, flushVars>>

(* Mutant: vm_enter skips a page directory that is loaded already.         *)
LoadCr3IfOther(c) ==
  /\ At(c, "load") \/ At(c, "enter")
  /\ cr3' = [cr3 EXCEPT ![c] = cur[c]]
  /\ stale' = [stale EXCEPT ![c] = IF cr3[c] = cur[c] THEN @ ELSE @ \cap KernelPages]
  /\ Goto(c, "run")
  /\ UNCHANGED <<active, ready, modified, pending, cur, pool, msg, queue, ack, flushVars>>

(* page_directory_switch: kernel entries are global and survive.           *)
LoadCr3(c) ==
  /\ At(c, "load") \/ At(c, "enter")
  /\ cr3' = [cr3 EXCEPT ![c] = cur[c]]
  /\ stale' = [stale EXCEPT ![c] = @ \cap KernelPages]
  /\ Goto(c, "run")
  /\ UNCHANGED <<active, ready, modified, pending, cur, pool, msg, queue, ack, flushVars>>

(* vm_enter by a running task (exec, /proc/<pid>, vm_unref): the task's vm *)
(* is changed first, the page directory after that.                        *)
EnterVm(c, vm) ==
  /\ At(c, "run")
  /\ cur' = [cur EXCEPT ![c] = vm]
  /\ Goto(c, "enter")
  /\ UNCHANGED <<active, ready, modified, pending, stale, cr3, pool, msg, queue, ack, flushVars>>

-----------------------------------------------------------------------------
Caches(c, p) == p \in KernelPages \/ cr3[c] = p
InVm(c, p) == p \in KernelPages \/ cur[c] = p

(* A task changes an entry, under the lock of the address space.           *)
Modify(c, p) ==
  /\ At(c, "run") /\ InVm(c, p) /\ p \notin pending
  /\ modified < MaxModified
  /\ modified' = modified + 1
  /\ pending' = pending \cup {p}
  /\ stale' = [d \in Cpus |-> IF Caches(d, p) THEN stale[d] \cup {p} ELSE stale[d]]
  /\ UNCHANGED <<active, ready, cr3, cur, pool, msg, queue, ack, pc, flushVars>>

(* flush_tlb_range: all other CPUs for a kernel address, those found in    *)
(* the same vm for a user address.                                         *)
Flush(c, p) ==
  /\ At(c, "run") /\ InVm(c, p) /\ p \in pending
  /\ \A d \in Cpus : page[d] # p                  \* by the lock
  /\ page' = [page EXCEPT ![c] = p]
  /\ todo' = [todo EXCEPT ![c] = Cpus \ {c}]
  /\ Goto(c, IF p \in KernelPages THEN "alloc" ELSE "scan")
  /\ UNCHANGED <<active, ready, modified, pending, stale, cr3, cur, pool, msg, queue, ack, mine>>

(* halt: a message for every other CPU.                                    *)
Halt(c) ==
  /\ At(c, "run") /\ c \in Halters
  /\ todo' = [todo EXCEPT ![c] = Cpus \ {c}]
  /\ Goto(c, "alloc")
  /\ UNCHANGED <<active, ready, modified, pending, stale, cr3, cur, pool, msg, queue, ack,
                 page, mine>>

(* cpu_alloc_message and the initialisation that follows.                  *)
AllocMessage(c) ==
  /\ At(c, "alloc") /\ pool # <<>>
  /\ LET user == page[c] \in UserVms IN
       /\ mine' = [mine EXCEPT ![c] = Head(pool)]
       /\ msg' = [msg EXCEPT ![Head(pool)] =
                    [type |-> IF page[c] = Null THEN "HALT" ELSE "FLUSH_TLB",
                     page |-> page[c],
                     refs |-> IF user THEN 0 ELSE NumCpus - 1]]
       /\ Goto(c, IF user THEN "count" ELSE "post")
  /\ pool' = Tail(pool)
  /\ UNCHANGED <<active, ready, modified, pending, stale, cr3, cur, queue, ack, page, todo>>

(* The loop over the CPUs for a user address, one current_task at a time.  *)
Scan(c) ==
  /\ At(c, "scan") /\ todo[c] # {}
  /\ IF cur[Min(todo[c])] = cur[c]
       THEN /\ Goto(c, IF mine[c] = Null THEN "alloc" ELSE "count")
            /\ UNCHANGED todo
       ELSE /\ todo' = [todo EXCEPT ![c] = @ \ {Min(todo[c])}]
            /\ UNCHANGED pc
  /\ UNCHANGED <<active, ready, modified, pending, stale, cr3, cur, pool, msg, queue, ack,
                 page, mine>>

Count(c) ==
  /\ At(c, "count")
  /\ msg' = [msg EXCEPT ![mine[c]].refs = @ + 1]
  /\ Goto(c, "post")
  /\ UNCHANGED <<active, ready, modified, pending, stale, cr3, cur, pool, queue, ack, flushVars>>

(* The enqueue in cpu_broadcast_message and in cpu_unicast_message.        *)
Post(c) ==
  LET d == Min(todo[c])
      rest == todo[c] \ {d}
  IN /\ At(c, "post")
     /\ Len(queue[d]) < NumCpus
     /\ queue' = [queue EXCEPT ![d] = Append(@, mine[c])]
     /\ todo' = [todo EXCEPT ![c] = rest]
     /\ Goto(c, CASE page[c] \in UserVms -> "scan"
                  [] page[c] \notin UserVms /\ rest # {} -> "post"
                  [] page[c] \in KernelPages /\ rest = {} -> "self"
                  [] OTHER -> "halted")
     /\ UNCHANGED <<active, ready, modified, pending, stale, cr3, cur, pool, msg, ack,
                    page, mine>>

(* The CPU's own TLB, while the others are at it.                          *)
FlushSelf(c) ==
  /\ At(c, "self") \/ (At(c, "scan") /\ todo[c] = {})
  /\ stale' = [stale EXCEPT ![c] = @ \ {page[c]}]
  /\ Goto(c, "wait")
  /\ UNCHANGED <<active, ready, modified, pending, cr3, cur, pool, msg, queue, ack, flushVars>>

(* All are done: cpu_free_message, and flush_tlb_range returns.            *)
FlushReturn(c) ==
  /\ At(c, "wait")
  /\ mine[c] # Null => msg[mine[c]].refs = 0
  /\ pool' = IF mine[c] = Null THEN pool ELSE Append(pool, mine[c])
  /\ pending' = pending \ {page[c]}
  /\ page' = [page EXCEPT ![c] = Null]
  /\ mine' = [mine EXCEPT ![c] = Null]
  /\ Goto(c, "run")
  /\ UNCHANGED <<active, ready, modified, stale, cr3, cur, msg, queue, ack, todo>>

-----------------------------------------------------------------------------
(* Where cpu_process_messages is called: an interrupt (isr_handler), and   *)
(* cpu_pause in every loop that waits, spinlock_lock's included.           *)
Polls(c) ==
  \/ pc[c] \in {"run", "enter", "switch", "wait"}
  \/ pc[c] = "alloc" /\ pool = <<>>
  \/ pc[c] = "post" /\ Len(queue[Min(todo[c])]) >= NumCpus

(* Mutant: the loop that waits for the others does not serve them.         *)
TakeUnlessWaiting(c) ==
  LET m == Head(queue[c]) IN
  /\ active /\ ack[c] = Null /\ Polls(c) /\ pc[c] # "wait" /\ queue[c] # <<>>
  /\ queue' = [queue EXCEPT ![c] = Tail(@)]
  /\ IF msg[m].type = "HALT"
       THEN Goto(c, "halted") /\ UNCHANGED <<stale, ack>>
       ELSE /\ stale' = [stale EXCEPT ![c] = @ \ {msg[m].page}]
            /\ ack' = [ack EXCEPT ![c] = m]
            /\ UNCHANGED pc
  /\ UNCHANGED <<active, ready, modified, pending, cr3, cur, pool, msg, flushVars>>

(* One round of cpu_process_messages up to the work the message asks for.  *)
Take(c) ==
  LET m == Head(queue[c]) IN
  /\ active /\ ack[c] = Null /\ Polls(c) /\ queue[c] # <<>>
  /\ queue' = [queue EXCEPT ![c] = Tail(@)]
  /\ IF msg[m].type = "HALT"
       THEN Goto(c, "halted") /\ UNCHANGED <<stale, ack>>
       ELSE /\ stale' = [stale EXCEPT ![c] = @ \ {msg[m].page}]
            /\ ack' = [ack EXCEPT ![c] = m]
            /\ UNCHANGED pc
  /\ UNCHANGED <<active, ready, modified, pending, cr3, cur, pool, msg, flushVars>>

(* ... and the decrement of its ref_count.                                 *)
Acknowledge(c) ==
  /\ ack[c] # Null
  /\ msg[ack[c]].refs > 0                         \* ASSERTed: see RefsExact
  /\ msg' = [msg EXCEPT ![ack[c]].refs = @ - 1]
  /\ ack' = [ack EXCEPT ![c] = Null]
  /\ UNCHANGED <<active, ready, modified, pending, stale, cr3, cur, pool, queue, pc, flushVars>>

-----------------------------------------------------------------------------
Progress(c) ==
  \/ ApReady(c) \/ ApStart(c) \/ LoadCr3(c)
  \/ AllocMessage(c) \/ Scan(c) \/ Count(c) \/ Post(c) \/ FlushSelf(c) \/ FlushReturn(c)
  \/ Acknowledge(c)

Next ==
  \/ SmpActivate
  \/ \E c \in Cpus :
       \/ Progress(c) \/ Take(c) \/ Halt(c)
       \/ \E b \in BOOLEAN : Leave(c, b)
       \/ \E vm \in Vms : SetTask(c, vm) \/ EnterVm(c, vm)
       \/ \E p \in Pages : Modify(c, p) \/ Flush(c, p)

Spec == Init /\ [][Next]_vars

(* A CPU goes on and finds the next task.  However often it switches, it   *)
(* does not escape its messages: the IPI stays pending until interrupts    *)
(* are on, and every interrupt ends in cpu_process_messages.               *)
Fairness ==
  /\ WF_vars(SmpActivate)
  /\ \A c \in Cpus : WF_vars(Progress(c)) /\ SF_vars(Take(c))
                     /\ WF_vars(\E vm \in Vms : SetTask(c, vm))
FairSpec == Spec /\ Fairness

-----------------------------------------------------------------------------
(* Once flush_tlb_range has returned, no CPU can use the old translation:  *)
(* a kernel page nowhere, a user page on no CPU that executes in its vm.   *)
(* CPUs between two tasks, or inside vm_enter, were not told, or not yet:  *)
(* they load cr3 before they use a user address.                           *)
FlushComplete ==
  \A c \in Cpus : pc[c] \notin {"boot", "spin"} =>
    /\ Identity \notin stale[c]
    /\ stale[c] \cap KernelPages \subseteq pending
    /\ pc[c] \notin {"switch", "load", "enter", "halted"} => stale[c] \subseteq pending

(* A message is nobody's exactly while it is in the pool, and then on no   *)
(* queue; otherwise it is one CPU's, on a queue at most once, and its      *)
(* ref_count is the number of CPUs that still have to see it.  (Who halts  *)
(* does not wait, and its message is never given back.)                    *)
In(q, m) == \E i \in 1..Len(q) : q[i] = m
Once(q) == \A i, j \in 1..Len(q) : q[i] = q[j] => i = j
Holders(queues, acks, m) == {c \in Cpus : In(queues[c], m) \/ acks[c] = m}
Owed(c) == IF page[c] \in UserVms THEN (IF pc[c] = "post" THEN 1 ELSE 0)
           ELSE Cardinality(todo[c])

OnQueuesOnce ==
  /\ \A c \in Cpus : Once(queue[c]) /\ ~In(queue[c], ack[c])
  /\ \A c, d \in Cpus : mine[c] = mine[d] /\ mine[c] # Null => c = d
PoolExact ==
  /\ Once(pool)
  /\ \A m \in Msgs : In(pool, m) <=> \A c \in Cpus : mine[c] # m
  /\ \A m \in Msgs : In(pool, m) => Holders(queue, ack, m) = {} /\ msg[m].refs = 0
CountsExact ==
  \A c \in Cpus : mine[c] # Null /\ page[c] # Null =>
    msg[mine[c]].refs = Cardinality(Holders(queue, ack, mine[c])) + Owed(c)
RefsExact == OnQueuesOnce /\ PoolExact /\ CountsExact

(* Each CPU has one message at most under way: the pool is never empty     *)
(* when a CPU asks, and no queue is ever full, so that nobody waits there. *)
NeverFull ==
  \A c \in Cpus : /\ pc[c] = "alloc" => pool # <<>>
                  /\ Len(queue[c]) < NumCpus

(* What a shootdown needs to be right, together.                           *)
ShootdownSafe == FlushComplete /\ RefsExact /\ NeverFull

(* flush_tlb_range returns, also when several CPUs flush at once and wait  *)
(* for each other, unless the machine is being halted.                     *)
FlushReturns ==
  \A c \in Cpus : page[c] # Null ~> (page[c] = Null \/ \E d \in Cpus : pc[d] = "halted")

(* halt stops every CPU, whatever they are doing, and if two call it.      *)
AllHalt == (\E c \in Cpus : pc[c] = "halted") ~> (\A c \in Cpus : pc[c] = "halted")
=============================================================================
