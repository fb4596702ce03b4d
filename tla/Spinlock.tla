------------------------------ MODULE Spinlock ------------------------------
(***************************************************************************)
(* The spinlock of kernel/lock.c and the interrupt flag it shares with     *)
(* push_cli, pop_cli and the interrupt gates: several CPUs, several locks, *)
(* and on each CPU a nest of critical sections and interrupt handlers that *)
(* are left in the opposite order to the one they were entered in.         *)
(*                                                                         *)
(* A lock is recursive per CPU.  Whether to enable interrupts again is     *)
(* remembered in the lock word, by the acquisition that took it from free. *)
(***************************************************************************)
EXTENDS Naturals, Sequences

CONSTANTS
  Cpus,
  Locks,      \* numbered: kernel code takes them in ascending order
  NoCpu,      \* the lock word is 0
  MaxDepth    \* bound: sections and handlers nested on a CPU

VARIABLES
  owner,      \* the CPU id in the lock word
  pushed,     \* SPINLOCK_PUSHED_INTERRUPT in the lock word
  level,      \* s->level
  enabled,    \* the interrupt flag of each CPU
  frames,     \* what each CPU has entered and not left, innermost last
  pc,         \* where a CPU is in spinlock_lock or spinlock_unlock
  want        \* the lock being acquired, and its desired pushed bit

vars == <<owner, pushed, level, enabled, frames, pc, want>>

Frames == [kind : {"lock"}, lock : Locks]
          \cup [kind : {"cli"}, saved : BOOLEAN]
          \cup [kind : {"irq"}]

TypeOK ==
  /\ owner \in [Locks -> Cpus \cup {NoCpu}]
  /\ pushed \in [Locks -> BOOLEAN]
  /\ level \in [Locks -> Nat]
  /\ enabled \in [Cpus -> BOOLEAN]
  /\ frames \in [Cpus -> Seq(Frames)]
  /\ pc \in [Cpus -> {"out", "spin", "sti"}]
  /\ want \in [Cpus -> [lock : Locks, push : BOOLEAN]]

(* Every CPU has executed sti once (main.c, smp.c).                        *)
Init ==
  /\ owner = [l \in Locks |-> NoCpu]
  /\ pushed = [l \in Locks |-> FALSE]
  /\ level = [l \in Locks |-> 0]
  /\ enabled = [c \in Cpus |-> TRUE]
  /\ frames = [c \in Cpus |-> <<>>]
  /\ pc = [c \in Cpus |-> "out"]
  /\ want = [c \in Cpus |-> [lock |-> CHOOSE l \in Locks : TRUE, push |-> FALSE]]

-----------------------------------------------------------------------------
Goto(c, l) == pc' = [pc EXCEPT ![c] = l]
Push(c, f) == frames' = [frames EXCEPT ![c] = Append(@, f)]
Pop(c) == frames' = [frames EXCEPT ![c] = SubSeq(@, 1, Len(@) - 1)]
Room(c) == pc[c] = "out" /\ Len(frames[c]) < MaxDepth
Top(c, kind) ==
  pc[c] = "out" /\ frames[c] # <<>> /\ frames[c][Len(frames[c])].kind = kind

(* Where a nest has taken a lock, and the locks a CPU is inside of.        *)
Taken(nest, l) == {i \in 1..Len(nest) : nest[i].kind = "lock" /\ nest[i].lock = l}
Held(c) == {l \in Locks : Taken(frames[c], l) # {}}

(* spinlock_lock up to the loop.                                           *)
CallLock(c, l) ==
  /\ Room(c)
  /\ \A m \in Held(c) : m <= l \/ l \in Held(c)
  /\ want' = [want EXCEPT ![c] = [lock |-> l, push |-> enabled[c]]]
  /\ enabled' = [enabled EXCEPT ![c] = FALSE]
  /\ Goto(c, "spin")
  /\ UNCHANGED <<owner, pushed, level, frames>>

(* The compare-and-exchange succeeds.                                      *)
Acquire(c) ==
  LET l == want[c].lock IN
  /\ pc[c] = "spin"
  /\ owner[l] = NoCpu
  /\ owner' = [owner EXCEPT ![l] = c]
  /\ pushed' = [pushed EXCEPT ![l] = want[c].push]
  /\ level' = [level EXCEPT ![l] = @ + 1]
  /\ Push(c, [kind |-> "lock", lock |-> l])
  /\ Goto(c, "out")
  /\ UNCHANGED <<enabled, want>>

(* It fails, but the lock is this CPU's own.  Otherwise the CPU spins.     *)
AcquireAgain(c) ==
  LET l == want[c].lock IN
  /\ pc[c] = "spin"
  /\ owner[l] = c
  /\ level' = [level EXCEPT ![l] = @ + 1]
  /\ Push(c, [kind |-> "lock", lock |-> l])
  /\ Goto(c, "out")
  /\ UNCHANGED <<owner, pushed, enabled, want>>

(* Mutant: each spinlock_unlock enables interrupts if the lock says so.    *)
UnlockEnablingEarly(c) ==
  LET l == frames[c][Len(frames[c])].lock IN
  /\ Top(c, "lock")
  /\ owner[l] = c /\ level[l] > 0
  /\ level' = [level EXCEPT ![l] = @ - 1]
  /\ owner' = [owner EXCEPT ![l] = IF level[l] = 1 THEN NoCpu ELSE @]
  /\ Goto(c, IF pushed[l] THEN "sti" ELSE "out")
  /\ Pop(c)
  /\ UNCHANGED <<pushed, enabled, want>>

(* spinlock_unlock; when it frees a lock that was taken with interrupts    *)
(* on, sti follows, and another CPU may own the lock by then.              *)
Unlock(c) ==
  LET l == frames[c][Len(frames[c])].lock IN
  /\ Top(c, "lock")
  /\ owner[l] = c /\ level[l] > 0             \* ASSERTed: see UnlockAssertions
  /\ level' = [level EXCEPT ![l] = @ - 1]
  /\ owner' = [owner EXCEPT ![l] = IF level[l] = 1 THEN NoCpu ELSE @]
  /\ Goto(c, IF level[l] = 1 /\ pushed[l] THEN "sti" ELSE "out")
  /\ Pop(c)
  /\ UNCHANGED <<pushed, enabled, want>>

Sti(c) ==
  /\ pc[c] = "sti"
  /\ enabled' = [enabled EXCEPT ![c] = TRUE]
  /\ Goto(c, "out")
  /\ UNCHANGED <<owner, pushed, level, frames, want>>

PushCli(c) ==
  /\ Room(c)
  /\ Push(c, [kind |-> "cli", saved |-> enabled[c]])
  /\ enabled' = [enabled EXCEPT ![c] = FALSE]
  /\ UNCHANGED <<owner, pushed, level, pc, want>>

PopCli(c) ==
  /\ Top(c, "cli")
  /\ ~enabled[c]                              \* ASSERTed by pop_cli
  /\ enabled' = [enabled EXCEPT ![c] = frames[c][Len(frames[c])].saved]
  /\ Pop(c)
  /\ UNCHANGED <<owner, pushed, level, pc, want>>

(* An interrupt gate: entered only with the flag set, and iret sets it     *)
(* again.  The handler may take any lock, as kernel handlers do.           *)
Interrupt(c) ==
  /\ Room(c) /\ enabled[c]
  /\ Push(c, [kind |-> "irq"])
  /\ enabled' = [enabled EXCEPT ![c] = FALSE]
  /\ UNCHANGED <<owner, pushed, level, pc, want>>

Iret(c) ==
  /\ Top(c, "irq")
  /\ Pop(c)
  /\ enabled' = [enabled EXCEPT ![c] = TRUE]
  /\ UNCHANGED <<owner, pushed, level, pc, want>>

Next ==
  \E c \in Cpus :
    \/ \E l \in Locks : CallLock(c, l)
    \/ Acquire(c) \/ AcquireAgain(c) \/ Unlock(c) \/ Sti(c)
    \/ PushCli(c) \/ PopCli(c) \/ Interrupt(c) \/ Iret(c)

Spec == Init /\ [][Next]_vars

-----------------------------------------------------------------------------
(* Two CPUs are never inside one lock.                                     *)
MutualExclusion == \A c, d \in Cpus : c # d => Held(c) \cap Held(d) = {}

(* The assertions of spinlock_unlock and pop_cli at the point where they   *)
(* are made, however locks, push_cli sections and handlers are nested.     *)
UnlockAssertions ==
  \A c \in Cpus :
    /\ Top(c, "lock") =>
         LET l == frames[c][Len(frames[c])].lock
         IN owner[l] = c /\ level[l] > 0 /\ ~enabled[c]
    /\ Top(c, "cli") => ~enabled[c]

(* While a CPU holds a lock, no interrupt can reach it: a handler can      *)
(* never spin on a lock held by the code it has interrupted, nor enter a   *)
(* critical section a second time through the lock's recursion.            *)
NoInterruptWhileHeld ==
  \A c \in Cpus :
    /\ Held(c) # {} => ~enabled[c]
    /\ \A i, j \in 1..Len(frames[c]) :
         i < j /\ frames[c][i].kind = "lock" => frames[c][j].kind # "irq"

(* Leaving everything gives back the interrupt flag that was there before: *)
(* no nesting leaves a CPU deaf.                                           *)
FlagRestored ==
  \A c \in Cpus : frames[c] = <<>> /\ pc[c] = "out" => enabled[c]

(* The CPUs never all wait for each other: somewhere a spinlock_lock can   *)
(* return, or a CPU is not inside it.                                      *)
SomeoneGoesOn ==
  \E c \in Cpus : pc[c] = "spin" => owner[want[c].lock] \in {NoCpu, c}

(* What the code between spinlock_lock and spinlock_unlock relies on.      *)
SpinlocksSafe ==
  /\ MutualExclusion /\ UnlockAssertions /\ NoInterruptWhileHeld
  /\ FlagRestored /\ SomeoneGoesOn
=============================================================================
