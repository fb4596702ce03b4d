------------------------------ MODULE MCLocks ------------------------------
(***************************************************************************)
(* What CPUs and tasks share: a behaviour is about the mutex, about the    *)
(* spinlocks, about page tables whose old entries other CPUs cache, or     *)
(* about the inside of one of the queues their messages go through.        *)
(***************************************************************************)
EXTENDS Mutex

CONSTANTS SpinCpus, Locks, NoCpu, MaxDepth,
          NumCpus, KernelPages, UserVms, KernelVm, Identity, Null, MaxModified, Halters,
          Producers, Consumers, Capacity, Modulus, MaxTickets

VARIABLES which,
          owner, pushed, spinLevel, enabled, frames, spinPc, want,
          active, ready, modified, pending, stale, cr3, cur, pool, msg, queue, ack, ipiPc,
          page, mine, todo,
          size, head, tail, slots, ppc, slotOf, cpc, got, issued, delivered

Spin == INSTANCE Spinlock WITH Cpus <- SpinCpus, level <- spinLevel, pc <- spinPc
Shootdown == INSTANCE Ipi WITH pc <- ipiPc
Queue == INSTANCE Mpsc WITH mine <- slotOf

spinVars == <<owner, pushed, spinLevel, enabled, frames, spinPc, want>>
ipiVars == <<active, ready, modified, pending, stale, cr3, cur, pool, msg, queue, ack,
             ipiPc, page, mine, todo>>
queueVars == <<size, head, tail, slots, ppc, slotOf, cpc, got, issued, delivered>>

MCInit ==
  /\ which \in {"mutex", "spinlock", "shootdown", "queue"}
  /\ Init /\ Spin!Init /\ Shootdown!Init /\ Queue!Init

MCNext ==
  /\ UNCHANGED which
  /\ \/ which = "mutex" /\ Next /\ UNCHANGED <<spinVars, ipiVars, queueVars>>
     \/ which = "spinlock" /\ Spin!Next /\ UNCHANGED <<vars, ipiVars, queueVars>>
     \/ which = "shootdown" /\ Shootdown!Next /\ UNCHANGED <<vars, spinVars, queueVars>>
     \/ which = "queue" /\ Queue!Next /\ UNCHANGED <<vars, spinVars, ipiVars>>

MCSpec == MCInit /\ [][MCNext]_<<which, vars, spinVars, ipiVars, queueVars>>

(* Two CPUs are never inside one spinlock, the assertions of               *)
(* spinlock_unlock and pop_cli hold where they are made, no interrupt      *)
(* reaches a CPU that holds a spinlock, leaving every section gives the    *)
(* interrupt flag back, and the CPUs never all wait for each other.        *)
SpinlocksSafe == Spin!SpinlocksSafe

(* Once flush_tlb_range has returned no CPU uses the old translation; the  *)
(* count of a message is the number of CPUs that have to see it, and no    *)
(* queue is ever full.                                                     *)
ShootdownSafe == Shootdown!ShootdownSafe

(* The slot a producer of the queue has reserved is empty when it stores,  *)
(* and elements come out once each, in the order of their slots.           *)
QueueExact == Queue!QueueExact
=============================================================================
