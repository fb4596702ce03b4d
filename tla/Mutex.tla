------------------------------- MODULE Mutex -------------------------------
(***************************************************************************)
(* The sleeping mutex of kernel/lock.c: a recursive lock whose three words *)
(* (holder, level and the guard "lock") are updated under the guard, taken *)
(* by compare-and-exchange.  A task that finds the guard taken, or another *)
(* holder, gives up the CPU with sched_yield(true) and tries again.        *)
(*                                                                         *)
(* The kernel is preemptible while a mutex is being operated on (both      *)
(* functions assert that interrupts are enabled), so every access to the   *)
(* shared words is a step of its own.                                      *)
(***************************************************************************)
EXTENDS Naturals

CONSTANTS
  Tasks,      \* the tasks that share the mutex
  NoTask,     \* the NULL pointer
  MaxLevel    \* bound: how deep a task nests mutex_lock calls

ASSUME NoTaskAssumption == NoTask \notin Tasks
ASSUME MaxLevelAssumption == MaxLevel \in Nat \ {0}

VARIABLES
  lock,       \* m->lock, the guard bit
  holder,     \* m->holder
  level,      \* m->level
  pc,         \* where each task is in mutex_lock or mutex_unlock
  depth       \* history: mutex_lock calls returned minus mutex_unlock calls begun

vars == <<lock, holder, level, pc, depth>>

Pcs == {"out", "lock", "lock_guarded", "unlock", "unlock_guarded"}

TypeOK ==
  /\ lock \in {0, 1}
  /\ holder \in Tasks \cup {NoTask}
  /\ level \in Nat
  /\ pc \in [Tasks -> Pcs]
  /\ depth \in [Tasks -> Nat]

Init ==
  /\ lock = 0
  /\ holder = NoTask
  /\ level = 0
  /\ pc = [t \in Tasks |-> "out"]
  /\ depth = [t \in Tasks |-> 0]

Goto(t, l) == pc' = [pc EXCEPT ![t] = l]

(* A kernel function calls mutex_lock; the caller may already hold it.     *)
CallLock(t) ==
  /\ pc[t] = "out"
  /\ depth[t] < MaxLevel
  /\ Goto(t, "lock")
  /\ UNCHANGED <<lock, holder, level, depth>>

(* The compare-and-exchange of the guard.  When it fails the task yields   *)
(* and stays at the head of the loop: a stuttering step here.              *)
TryGuard(t, from, to) ==
  /\ pc[t] = from
  /\ lock = 0
  /\ lock' = 1
  /\ Goto(t, to)
  /\ UNCHANGED <<holder, level, depth>>

LockGuard(t) == TryGuard(t, "lock", "lock_guarded")

(* Mutant: the holder is not looked at.                                    *)
LockTakeIgnoringHolder(t) ==
  /\ pc[t] = "lock_guarded"
  /\ holder' = t
  /\ level' = level + 1
  /\ depth' = [depth EXCEPT ![t] = @ + 1]
  /\ lock' = 0
  /\ Goto(t, "out")

(* Under the guard: take the mutex if it is free or already ours.  The     *)
(* guard is released either way; without the mutex the task yields and     *)
(* starts over.                                                            *)
LockTake(t) ==
  /\ pc[t] = "lock_guarded"
  /\ holder \in {NoTask, t}
  /\ holder' = t
  /\ level' = level + 1
  /\ depth' = [depth EXCEPT ![t] = @ + 1]
  /\ lock' = 0
  /\ Goto(t, "out")

LockRetry(t) ==
  /\ pc[t] = "lock_guarded"
  /\ holder \notin {NoTask, t}
  /\ lock' = 0
  /\ Goto(t, "lock")
  /\ UNCHANGED <<holder, level, depth>>

(* Callers release only what they took.                                    *)
CallUnlock(t) ==
  /\ pc[t] = "out"
  /\ depth[t] > 0
  /\ depth' = [depth EXCEPT ![t] = @ - 1]
  /\ Goto(t, "unlock")
  /\ UNCHANGED <<lock, holder, level>>

UnlockGuard(t) == TryGuard(t, "unlock", "unlock_guarded")

(* Mutant: the inner mutex_unlock already frees the mutex.                 *)
UnlockReleaseAtOnce(t) ==
  /\ pc[t] = "unlock_guarded"
  /\ holder = t /\ level > 0
  /\ level' = level - 1
  /\ holder' = NoTask
  /\ lock' = 0
  /\ Goto(t, "out")
  /\ UNCHANGED depth

UnlockRelease(t) ==
  /\ pc[t] = "unlock_guarded"
  /\ holder = t /\ level > 0          \* ASSERTed: see UnlockAssertions
  /\ level' = level - 1
  /\ holder' = IF level = 1 THEN NoTask ELSE holder
  /\ lock' = 0
  /\ Goto(t, "out")
  /\ UNCHANGED depth

Step(t) ==
  \/ LockGuard(t)
  \/ LockTake(t)
  \/ LockRetry(t)
  \/ UnlockGuard(t)
  \/ UnlockRelease(t)

Next == \E t \in Tasks : CallLock(t) \/ CallUnlock(t) \/ Step(t)

Spec == Init /\ [][Next]_vars

-----------------------------------------------------------------------------
(* mutex_lock calls of t that no completed mutex_unlock has matched yet.   *)
Owned(t) == depth[t] + IF pc[t] \in {"unlock", "unlock_guarded"} THEN 1 ELSE 0

Guarded(t) == pc[t] \in {"lock_guarded", "unlock_guarded"}

(* A task between mutex_lock and mutex_unlock excludes every other task,   *)
(* however deep each of them nests its calls (mutex_lock, mutex_unlock).   *)
MutualExclusion ==
  \A t, u \in Tasks : depth[t] > 0 /\ depth[u] > 0 => t = u

(* The assertions of mutex_unlock, at the point where the code makes them: *)
(* the task that holds the guard is the holder and the level is positive.  *)
UnlockAssertions ==
  \A t \in Tasks : pc[t] = "unlock_guarded" => holder = t /\ level > 0

(* The mutex is free exactly when every lock call has been matched: no     *)
(* nesting of calls leaves it held by nobody or free under its holder.     *)
HeldWhileOwned ==
  \A t \in Tasks : holder = t <=> Owned(t) > 0

(* The strengthening that makes the three above inductive.                 *)
GuardExclusive ==
  /\ lock = 1 <=> \E t \in Tasks : Guarded(t)
  /\ \A t, u \in Tasks : Guarded(t) /\ Guarded(u) => t = u

LevelCountsCalls ==
  /\ holder = NoTask <=> level = 0
  /\ \A t \in Tasks : Owned(t) = IF holder = t THEN level ELSE 0

IInv == TypeOK /\ GuardExclusive /\ LevelCountsCalls

=============================================================================
