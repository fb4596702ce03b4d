---------------------------- MODULE LocksProofs ----------------------------
(***************************************************************************)
(* What CPUs and tasks share.  First mutual exclusion of the kernel's      *)
(* mutex, for any number of tasks and any depth of nesting.  The guard is  *)
(* held by at most one task (GuardExclusive), and under it the level       *)
(* counts exactly the calls that have not been matched (LevelCountsCalls). *)
(* Then the spinlocks, which exclude each other, keep interrupts out and   *)
(* give the interrupt flag back, for any nesting of sections and handlers; *)
(* the result about TLB shootdown, from the module that proves it; and the *)
(* lock-free queue.                                                        *)
(***************************************************************************)
EXTENDS MCLocks, Sequences, FiniteSetTheorems, SequenceTheorems, WellFoundedInduction, TLAPS

(* Nobody has the mutex at first.                                          *)
LEMMA InitIInv == Init => IInv
  BY NoTaskAssumption
  DEF Init, IInv, TypeOK, Pcs, GuardExclusive, Guarded, LevelCountsCalls, Owned

(* Every step of every task preserves the inductive invariant.             *)
LEMMA NextIInv == IInv /\ [Next]_vars => IInv'
  <1> SUFFICES ASSUME IInv, [Next]_vars PROVE IInv'
    OBVIOUS
  <1> USE NoTaskAssumption, MaxLevelAssumption
      DEF IInv, TypeOK, Pcs, GuardExclusive, Guarded, LevelCountsCalls, Owned, Goto
  <1>1. ASSUME NEW t \in Tasks, CallLock(t) PROVE IInv'
    BY <1>1 DEF CallLock
  <1>2. ASSUME NEW t \in Tasks, CallUnlock(t) PROVE IInv'
    BY <1>2 DEF CallUnlock
  <1>3. ASSUME NEW t \in Tasks, LockGuard(t) PROVE IInv'
    BY <1>3 DEF LockGuard, TryGuard
  <1>4. ASSUME NEW t \in Tasks, LockTake(t) PROVE IInv'
    BY <1>4 DEF LockTake
  <1>5. ASSUME NEW t \in Tasks, LockRetry(t) PROVE IInv'
    BY <1>5 DEF LockRetry
  <1>6. ASSUME NEW t \in Tasks, UnlockGuard(t) PROVE IInv'
    BY <1>6 DEF UnlockGuard, TryGuard
  <1>7. ASSUME NEW t \in Tasks, UnlockRelease(t) PROVE IInv'
    BY <1>7 DEF UnlockRelease
  <1>8. CASE UNCHANGED vars
    BY <1>8 DEF vars
  <1>9. QED
    BY <1>1, <1>2, <1>3, <1>4, <1>5, <1>6, <1>7, <1>8 DEF Next, Step

(* The properties follow from the invariant in every state.                *)
LEMMA IInvImplies ==
  IInv => MutualExclusion /\ UnlockAssertions /\ HeldWhileOwned
  BY NoTaskAssumption
  DEF IInv, TypeOK, Pcs, GuardExclusive, LevelCountsCalls, Owned,
      MutualExclusion, UnlockAssertions, HeldWhileOwned

(* mutex_lock and mutex_unlock keep the inductive invariant.               *)
THEOREM MutexInvariant == Spec => []IInv
  BY InitIInv, NextIInv, PTL DEF Spec

(* No two tasks are ever between mutex_lock and mutex_unlock together.     *)
THEOREM MutexExclusion == Spec => []MutualExclusion
  BY MutexInvariant, IInvImplies, PTL

(* The assertions of mutex_unlock never fail.                              *)
THEOREM MutexAssertions == Spec => []UnlockAssertions
  BY MutexInvariant, IInvImplies, PTL

(* The holder field names a task exactly while it owns the mutex.          *)
THEOREM MutexHeld == Spec => []HeldWhileOwned
  BY MutexInvariant, IInvImplies, PTL
-----------------------------------------------------------------------------
(* There are finitely many locks, numbered up to m.                        *)
LockParameters(m) ==
  /\ m \in Nat /\ Locks \subseteq 0..m /\ Locks # {}
  /\ SpinCpus # {} /\ NoCpu \notin SpinCpus

(* The lock word and the level of a lock say who is inside and how deep.   *)
Inside ==
  \A l \in Locks :
    /\ owner[l] = NoCpu => spinLevel[l] = 0
    /\ owner[l] # NoCpu => spinLevel[l] > 0
    /\ \A c \in SpinCpus : /\ owner[l] = c => Cardinality(Spin!Taken(frames[c], l)) = spinLevel[l]
                           /\ owner[l] # c => Spin!Taken(frames[c], l) = {}

(* Interrupts are on exactly when a CPU is inside nothing.  Therefore only *)
(* the outermost section or handler can have found them on, and that is    *)
(* what the lock word, the saved flag and spinlock_lock remember.          *)
Flags ==
  \A c \in SpinCpus :
    /\ enabled[c] <=> frames[c] = <<>> /\ spinPc[c] = "out"
    /\ spinPc[c] = "sti" => frames[c] = <<>>
    /\ spinPc[c] = "spin" => (want[c].push <=> frames[c] = <<>>)
Outermost ==
  \A c \in SpinCpus :
    /\ \A i \in 1..Len(frames[c]) :
         /\ frames[c][i].kind = "irq" => i = 1
         /\ frames[c][i].kind = "cli" => (frames[c][i].saved <=> i = 1)
    /\ \A l \in Locks : owner[l] = c => (pushed[l] <=> 1 \in Spin!Taken(frames[c], l))

(* Locks are waited for in ascending order.                                *)
Ordered ==
  \A c \in SpinCpus : spinPc[c] = "spin" =>
    \A l \in Spin!Held(c) : l <= want[c].lock \/ want[c].lock \in Spin!Held(c)

(* What Inside and Outermost say of the word o, the bit p and the level n  *)
(* of lock k.                                                              *)
WordExact(o, p, n, nests, k) ==
  /\ o[k] = NoCpu => n[k] = 0
  /\ o[k] # NoCpu => n[k] > 0
  /\ \A c \in SpinCpus : /\ o[k] = c => Cardinality(Spin!Taken(nests[c], k)) = n[k]
                         /\ o[k] # c => Spin!Taken(nests[c], k) = {}
                         /\ o[k] = c => (p[k] <=> 1 \in Spin!Taken(nests[c], k))

SpinInv == Spin!TypeOK /\ Inside /\ Flags /\ Outermost /\ Ordered
-----------------------------------------------------------------------------
(* A nest is finite, and so are the places where it took a lock.           *)
LEMMA TakenFinite ==
  ASSUME NEW q \in Seq(Spin!Frames), NEW l
  PROVE  IsFiniteSet(Spin!Taken(q, l)) /\ Cardinality(Spin!Taken(q, l)) \in Nat
<1>1. Len(q) \in Nat
  OBVIOUS
<1>2. IsFiniteSet(1..Len(q))
  BY <1>1, FS_Interval
<1>3. Spin!Taken(q, l) \subseteq 1..Len(q)
  BY DEF Spin!Taken
<1> QED
  BY <1>2, <1>3, FS_Subset, FS_CardinalityType

(* What a frame can be.                                                    *)
LEMMA Kinds ==
  ASSUME NEW f \in Spin!Frames
  PROVE  /\ f.kind \in {"lock", "cli", "irq"}
         /\ f.kind = "lock" => f.lock \in Locks
         /\ f.kind = "cli" => f.saved \in BOOLEAN
BY DEF Spin!Frames

(* Entering one more section or handler.                                   *)
LEMMA NestPush ==
  ASSUME NEW q \in Seq(Spin!Frames), NEW f \in Spin!Frames
  PROVE  /\ Append(q, f) \in Seq(Spin!Frames) /\ Append(q, f) # <<>>
         /\ Len(Append(q, f)) = Len(q) + 1 /\ Len(q) \in Nat
         /\ \A i \in 1..Len(q) : Append(q, f)[i] = q[i]
         /\ Append(q, f)[Len(q) + 1] = f
         /\ \A l : Spin!Taken(Append(q, f), l) =
                     IF f.kind = "lock" /\ f.lock = l THEN Spin!Taken(q, l) \cup {Len(q) + 1} ELSE Spin!Taken(q, l)
<1> DEFINE r == Append(q, f)
<1>1. /\ r \in Seq(Spin!Frames) /\ r # <<>> /\ Len(r) = Len(q) + 1 /\ Len(q) \in Nat
      /\ (\A i \in 1..Len(q) : r[i] = q[i]) /\ r[Len(q) + 1] = f
  OBVIOUS
<1> HIDE DEF r
<1>2. \A i : i \in 1..Len(r) <=> i \in 1..Len(q) \/ i = Len(q) + 1
  BY <1>1
<1>3. ASSUME NEW l
      PROVE  Spin!Taken(r, l) = IF f.kind = "lock" /\ f.lock = l
                                  THEN Spin!Taken(q, l) \cup {Len(q) + 1} ELSE Spin!Taken(q, l)
  BY <1>1, <1>2 DEF Spin!Taken
<1> QED
  BY <1>1, <1>3 DEF r

(* Leaving the innermost one.                                              *)
LEMMA NestPop ==
  ASSUME NEW q \in Seq(Spin!Frames), q # <<>>, NEW r, r = SubSeq(q, 1, Len(q) - 1)
  PROVE  /\ r \in Seq(Spin!Frames) /\ Len(q) \in Nat \ {0} /\ Len(r) = Len(q) - 1
         /\ \A i \in 1..Len(r) : r[i] = q[i] /\ i \in 1..Len(q)
         /\ r = <<>> <=> Len(q) = 1
         /\ \A l : Spin!Taken(r, l) = Spin!Taken(q, l) \ {Len(q)}
<1>1. Len(q) \in Nat \ {0}
  OBVIOUS
<1>2. /\ r \in Seq(Spin!Frames)
      /\ Len(r) = IF 1 <= Len(q) - 1 THEN Len(q) - 1 - 1 + 1 ELSE 0
      /\ \A i \in 1 .. (Len(q) - 1 - 1 + 1) : r[i] = q[1 + i - 1]
  BY <1>1, SubSeqProperties
<1>3. Len(r) = Len(q) - 1
  <2> DEFINE n == Len(q)
             k == Len(r)
  <2>1. n \in Nat \ {0} /\ k = IF 1 <= n - 1 THEN n - 1 - 1 + 1 ELSE 0
    BY <1>1, <1>2
  <2> HIDE DEF n, k
  <2>2. k = n - 1
    BY <2>1
  <2> QED
    BY <2>2 DEF n, k
<1>4. \A i \in 1..Len(r) : r[i] = q[i] /\ i \in 1..Len(q)
  BY <1>1, <1>2, <1>3
<1>5. r = <<>> <=> Len(q) = 1
  <2>1. r = <<>> <=> Len(r) = 0
    BY <1>2, EmptySeq
  <2> QED
    BY <1>1, <1>3, <2>1
<1>6. ASSUME NEW l PROVE Spin!Taken(r, l) = Spin!Taken(q, l) \ {Len(q)}
  <2>1. \A i : i \in 1..Len(r) <=> i \in 1..Len(q) /\ i # Len(q)
    BY <1>1, <1>3
  <2> QED
    BY <1>4, <2>1 DEF Spin!Taken
<1> QED
  BY <1>1, <1>2, <1>3, <1>4, <1>5, <1>6
-----------------------------------------------------------------------------
(* What the invariant says.                                                *)
LEMMA InvSpinlocksSafe ==
  ASSUME NEW m, LockParameters(m), SpinInv
  PROVE  Spin!SpinlocksSafe
<1> USE DEF LockParameters
<1>1. ASSUME NEW c \in SpinCpus, NEW l \in Spin!Held(c) PROVE l \in Locks /\ owner[l] = c
  BY <1>1 DEF Spin!Held, SpinInv, Inside
<1>2. Spin!MutualExclusion
  BY <1>1 DEF Spin!MutualExclusion
<1>3. Spin!FlagRestored
  BY DEF Spin!FlagRestored, SpinInv, Flags
<1>4. ASSUME NEW c \in SpinCpus, frames[c] # <<>> PROVE ~enabled[c]
  BY <1>4 DEF SpinInv, Flags
<1>5. Spin!NoInterruptWhileHeld
  <2>1. ASSUME NEW c \in SpinCpus, Spin!Held(c) # {} PROVE ~enabled[c]
    <3>1. frames[c] # <<>>
      BY <2>1 DEF Spin!Held, Spin!Taken
    <3> QED
      BY <1>4, <3>1
  <2>2. ASSUME NEW c \in SpinCpus, NEW i \in 1..Len(frames[c]), NEW j \in 1..Len(frames[c]), i < j
        PROVE  frames[c][j].kind # "irq"
    <3>1. j # 1
      BY <2>2
    <3> QED
      BY <3>1 DEF SpinInv, Outermost
  <2> QED
    BY <2>1, <2>2 DEF Spin!NoInterruptWhileHeld
<1>6. Spin!UnlockAssertions
  <2>1. ASSUME NEW c \in SpinCpus, Spin!Top(c, "lock")
        PROVE  LET l == frames[c][Len(frames[c])].lock IN owner[l] = c /\ spinLevel[l] > 0 /\ ~enabled[c]
    <3> DEFINE q == frames[c]
               l == q[Len(q)].lock
    <3>1. q \in Seq(Spin!Frames) /\ q # <<>> /\ q[Len(q)].kind = "lock"
      BY <2>1 DEF Spin!Top, SpinInv, Spin!TypeOK
    <3>2. Len(q) \in 1..Len(q) /\ q[Len(q)] \in Spin!Frames
      BY <3>1
    <3>3. l \in Locks /\ Len(q) \in Spin!Taken(q, l)
      BY <3>1, <3>2, Kinds DEF Spin!Taken
    <3>4. l \in Spin!Held(c)
      BY <3>3 DEF Spin!Held
    <3>5. owner[l] = c /\ spinLevel[l] > 0
      BY <1>1, <3>3, <3>4, ZenonT(40) DEF SpinInv, Inside
    <3> QED
      BY <1>4, <3>1, <3>5
  <2>2. ASSUME NEW c \in SpinCpus, Spin!Top(c, "cli") PROVE ~enabled[c]
    BY <1>4, <2>2 DEF Spin!Top
  <2> QED
    BY <2>1, <2>2 DEF Spin!UnlockAssertions
<1>7. Spin!SomeoneGoesOn
  <2>1. SUFFICES ASSUME \A c \in SpinCpus : spinPc[c] = "spin" /\ owner[want[c].lock] \notin {NoCpu, c}
                 PROVE  FALSE
    BY DEF Spin!SomeoneGoesOn
  <2> DEFINE S == {m - want[c].lock : c \in SpinCpus}
  <2>2. \A c \in SpinCpus : want[c].lock \in Locks /\ want[c].lock \in 0..m
    BY DEF SpinInv, Spin!TypeOK
  <2>3. S \subseteq Nat /\ S # {}
    BY <2>2
  <2>4. PICK u \in S : \A v \in S : ~(<<v, u>> \in OpToRel(<, Nat))
    BY <2>3, NatLessThanWellFounded, WFMin
  <2>5. PICK c \in SpinCpus : u = m - want[c].lock
    OBVIOUS
  <2>6. PICK d \in SpinCpus : owner[want[c].lock] = d /\ d # c
    BY <2>1, <2>2, ZenonT(40) DEF SpinInv, Spin!TypeOK
  <2>7. want[c].lock \in Spin!Held(d)
    <3>1. /\ Cardinality(Spin!Taken(frames[d], want[c].lock)) = spinLevel[want[c].lock]
          /\ spinLevel[want[c].lock] > 0
      BY <2>2, <2>6 DEF SpinInv, Inside
    <3>2. Spin!Taken(frames[d], want[c].lock) # {}
      BY <3>1, FS_EmptySet
    <3> QED
      BY <2>2, <3>2 DEF Spin!Held
  <2>8. want[d].lock \notin Spin!Held(d)
    BY <1>1, <2>1
  <2>9. want[c].lock <= want[d].lock /\ want[c].lock # want[d].lock
    BY <2>1, <2>7, <2>8 DEF SpinInv, Ordered
  <2> DEFINE v == m - want[d].lock
  <2>10. v \in S /\ v < u /\ v \in Nat /\ u \in Nat
    BY <2>2, <2>3, <2>5, <2>9
  <2>11. <<v, u>> \in OpToRel(<, Nat)
    BY <2>10 DEF OpToRel
  <2> QED
    BY <2>4, <2>10, <2>11, Zenon
<1> QED
  BY <1>2, <1>3, <1>5, <1>6, <1>7 DEF Spin!SpinlocksSafe

(* No CPU is inside anything at first.                                     *)
LEMMA InitSpinInv ==
  ASSUME NEW m, LockParameters(m), Spin!Init
  PROVE  SpinInv
<1> USE DEF LockParameters, Spin!Init
<1>1. Spin!TypeOK
  <2>1. (CHOOSE l \in Locks : TRUE) \in Locks
    OBVIOUS
  <2>2. frames \in [SpinCpus -> Seq(Spin!Frames)]
    <3>1. <<>> \in Seq(Spin!Frames)
      OBVIOUS
    <3> QED
      BY <3>1
  <2> QED
    BY <2>1, <2>2 DEF Spin!TypeOK
<1>2. \A c \in SpinCpus, l \in Locks : Spin!Taken(frames[c], l) = {}
  BY DEF Spin!Taken
<1>3. Inside
  BY <1>2 DEF Inside
<1>4. Flags /\ Outermost
  BY DEF Flags, Outermost
<1>5. Ordered
  BY DEF Ordered
<1> QED
  BY <1>1, <1>3, <1>4, <1>5 DEF SpinInv
-----------------------------------------------------------------------------
(* Sections of push_cli and handlers leave the locks as they are.          *)
LEMMA SameTaken ==
  ASSUME SpinInv, \A d \in SpinCpus, l \in Locks : Spin!Taken(frames'[d], l) = Spin!Taken(frames[d], l),
         UNCHANGED <<owner, pushed, spinLevel, spinPc, want>>
  PROVE  /\ Inside' /\ Ordered'
         /\ \A d \in SpinCpus, l \in Locks : owner'[l] = d => (pushed'[l] <=> 1 \in Spin!Taken(frames'[d], l))
<1>1. Inside'
  BY DEF SpinInv, Inside
<1>2. \A d \in SpinCpus : Spin!Held(d)' = Spin!Held(d)
  BY DEF Spin!Held
<1>3. Ordered'
  BY <1>2 DEF SpinInv, Ordered
<1>4. \A d \in SpinCpus, l \in Locks : owner[l] = d => (pushed[l] <=> 1 \in Spin!Taken(frames[d], l))
  BY DEF SpinInv, Outermost
<1> QED
  BY <1>1, <1>3, <1>4

(* Taking or leaving a lock does not touch the others.                     *)
LEMMA OtherLocks ==
  ASSUME SpinInv, NEW l,
         \A k \in Locks \ {l} : owner'[k] = owner[k] /\ pushed'[k] = pushed[k] /\ spinLevel'[k] = spinLevel[k],
         \A d \in SpinCpus, k \in Locks \ {l} : Spin!Taken(frames'[d], k) = Spin!Taken(frames[d], k)
  PROVE  \A k \in Locks \ {l} : WordExact(owner', pushed', spinLevel', frames', k)
<1>1. ASSUME NEW k \in Locks, k # l, NEW d \in SpinCpus, owner'[k] = d
      PROVE  pushed'[k] <=> 1 \in Spin!Taken(frames'[d], k)
  <2>1. owner[k] = d /\ pushed'[k] = pushed[k] /\ Spin!Taken(frames'[d], k) = Spin!Taken(frames[d], k)
    BY <1>1
  <2>2. pushed[k] <=> 1 \in Spin!Taken(frames[d], k)
    BY <2>1 DEF SpinInv, Outermost
  <2> QED
    BY <2>1, <2>2
<1>2. ASSUME NEW k \in Locks, k # l
      PROVE  /\ owner'[k] = NoCpu => spinLevel'[k] = 0
             /\ owner'[k] # NoCpu => spinLevel'[k] > 0
             /\ \A d \in SpinCpus : /\ owner'[k] = d => Cardinality(Spin!Taken(frames'[d], k)) = spinLevel'[k]
                                    /\ owner'[k] # d => Spin!Taken(frames'[d], k) = {}
  BY <1>2 DEF SpinInv, Inside
<1> QED
  BY <1>1, <1>2 DEF WordExact

(* spinlock_lock up to its loop: interrupts go off, and it remembers       *)
(* whether they were on.                                                   *)
LEMMA StepCallLock ==
  ASSUME SpinInv, NEW c \in SpinCpus, NEW l \in Locks, Spin!CallLock(c, l)
  PROVE  SpinInv'
<1>1. /\ spinPc[c] = "out" /\ (\A k \in Spin!Held(c) : k <= l \/ l \in Spin!Held(c))
      /\ want' = [want EXCEPT ![c] = [lock |-> l, push |-> enabled[c]]]
      /\ enabled' = [enabled EXCEPT ![c] = FALSE]
      /\ spinPc' = [spinPc EXCEPT ![c] = "spin"]
      /\ UNCHANGED <<owner, pushed, spinLevel, frames>>
  BY DEF Spin!CallLock, Spin!Room, Spin!Goto
<1>2. enabled[c] \in BOOLEAN
  BY DEF SpinInv, Spin!TypeOK
<1>3. /\ want'[c].lock = l /\ want'[c].push = enabled[c] /\ enabled'[c] = FALSE /\ spinPc'[c] = "spin"
      /\ \A d \in SpinCpus \ {c} : want'[d] = want[d] /\ enabled'[d] = enabled[d] /\ spinPc'[d] = spinPc[d]
  BY <1>1 DEF SpinInv, Spin!TypeOK
<1>4. Spin!TypeOK'
  BY <1>1, <1>2 DEF SpinInv, Spin!TypeOK
<1>5. Inside'
  BY <1>1 DEF SpinInv, Inside
<1>6. Outermost'
  BY <1>1, Zenon DEF SpinInv, Outermost
<1>7. Flags'
  BY <1>1, <1>2, <1>3 DEF SpinInv, Flags
<1>8. \A d \in SpinCpus : Spin!Held(d)' = Spin!Held(d)
  BY <1>1 DEF Spin!Held
<1>9. Ordered'
  BY <1>1, <1>3, <1>8 DEF SpinInv, Ordered
<1> QED
  BY <1>4, <1>5, <1>6, <1>7, <1>9 DEF SpinInv

(* The compare-and-exchange takes a free lock: nobody is inside it.        *)
LEMMA StepAcquire ==
  ASSUME NEW m, LockParameters(m), SpinInv, NEW c \in SpinCpus, Spin!Acquire(c)
  PROVE  SpinInv'
<1> DEFINE l == want[c].lock
           q == frames[c]
           f == [kind |-> "lock", lock |-> l]
<1>1. /\ spinPc[c] = "spin" /\ owner[l] = NoCpu
      /\ owner' = [owner EXCEPT ![l] = c]
      /\ pushed' = [pushed EXCEPT ![l] = want[c].push]
      /\ spinLevel' = [spinLevel EXCEPT ![l] = spinLevel[l] + 1]
      /\ frames' = [frames EXCEPT ![c] = Append(q, f)]
      /\ spinPc' = [spinPc EXCEPT ![c] = "out"]
      /\ UNCHANGED <<enabled, want>>
  BY DEF Spin!Acquire, Spin!Goto, Spin!Push
<1>2. l \in Locks /\ want[c].push \in BOOLEAN /\ q \in Seq(Spin!Frames)
  BY DEF SpinInv, Spin!TypeOK
<1>3. f \in Spin!Frames /\ f.kind = "lock" /\ f.lock = l
  BY <1>2 DEF Spin!Frames
<1>4. NoCpu \notin SpinCpus
  BY DEF LockParameters
<1> HIDE DEF l, q, f
<1>5. /\ Append(q, f) \in Seq(Spin!Frames) /\ Append(q, f) # <<>>
      /\ Len(Append(q, f)) = Len(q) + 1 /\ Len(q) \in Nat
      /\ \A i \in 1..Len(q) : Append(q, f)[i] = q[i]
      /\ Append(q, f)[Len(q) + 1] = f
      /\ Spin!Taken(Append(q, f), l) = Spin!Taken(q, l) \cup {Len(q) + 1}
      /\ \A k \in Locks \ {l} : Spin!Taken(Append(q, f), k) = Spin!Taken(q, k)
  BY <1>2, <1>3, NestPush
<1>6. /\ owner'[l] = c /\ pushed'[l] = want[c].push /\ spinLevel'[l] = spinLevel[l] + 1
      /\ \A k \in Locks \ {l} : owner'[k] = owner[k] /\ pushed'[k] = pushed[k] /\ spinLevel'[k] = spinLevel[k]
      /\ frames'[c] = Append(q, f) /\ spinPc'[c] = "out"
      /\ \A d \in SpinCpus \ {c} : frames'[d] = frames[d] /\ spinPc'[d] = spinPc[d]
  BY <1>1, <1>2 DEF SpinInv, Spin!TypeOK
<1>7. spinLevel[l] = 0 /\ \A d \in SpinCpus : Spin!Taken(frames[d], l) = {}
  BY <1>1, <1>2, <1>4 DEF SpinInv, Inside
<1>8. Spin!Taken(q, l) = {} /\ frames[c] = q
  BY <1>7 DEF q
<1>9. Spin!TypeOK'
  BY <1>1, <1>2, <1>5, <1>7 DEF SpinInv, Spin!TypeOK
<1>10. ASSUME NEW d \in SpinCpus, NEW k \in Locks \ {l} PROVE Spin!Taken(frames'[d], k) = Spin!Taken(frames[d], k)
  <2>1. CASE d = c
    BY <1>5, <1>6, <1>8, <2>1
  <2>2. CASE d # c
    BY <1>6, <2>2
  <2> QED
    BY <2>1, <2>2
<1>11. \A k \in Locks \ {l} : WordExact(owner', pushed', spinLevel', frames', k)
  BY <1>6, <1>10, OtherLocks
<1>12. Inside'
  <2>1. /\ Spin!Taken(frames'[c], l) = {Len(q) + 1} /\ spinLevel'[l] = 1
        /\ \A d \in SpinCpus \ {c} : Spin!Taken(frames'[d], l) = {}
    <3>1. Spin!Taken(frames'[c], l) = {Len(q) + 1}
      BY <1>5, <1>6, <1>8
    <3>2. spinLevel'[l] = 1
      BY <1>6, <1>7
    <3>3. \A d \in SpinCpus \ {c} : Spin!Taken(frames'[d], l) = {}
      BY <1>6, <1>7
    <3> QED
      BY <3>1, <3>2, <3>3
  <2>2. Cardinality(Spin!Taken(frames'[c], l)) = 1
    BY <2>1, FS_Singleton
  <2>3. owner'[l] # NoCpu /\ spinLevel'[l] > 0
    BY <1>4, <1>6, <2>1
  <2>4. ASSUME NEW d \in SpinCpus
        PROVE  /\ owner'[l] = d => Cardinality(Spin!Taken(frames'[d], l)) = spinLevel'[l]
               /\ owner'[l] # d => Spin!Taken(frames'[d], l) = {}
    <3>1. CASE d = c
      BY <1>6, <2>1, <2>2, <3>1
    <3>2. CASE d # c
      BY <1>6, <2>1, <3>2
    <3> QED
      BY <3>1, <3>2
  <2> QED
    BY <1>11, <2>3, <2>4 DEF Inside, WordExact
<1>13. Flags'
  BY <1>1, <1>5, <1>6 DEF SpinInv, Flags
<1>14. Outermost'
  <2>1. ASSUME NEW d \in SpinCpus, NEW i \in 1..Len(frames'[d])
        PROVE  /\ frames'[d][i].kind = "irq" => i = 1
               /\ frames'[d][i].kind = "cli" => (frames'[d][i].saved <=> i = 1)
    <3>1. CASE d = c /\ i = Len(q) + 1
      BY <1>3, <1>5, <1>6, <3>1
    <3>2. CASE ~(d = c /\ i = Len(q) + 1)
      <4>1. i \in 1..Len(frames[d]) /\ frames'[d][i] = frames[d][i]
        BY <1>5, <1>6, <1>8, <2>1, <3>2
      <4> QED
        BY <4>1 DEF SpinInv, Outermost
    <3> QED
      BY <3>1, <3>2
  <2>2. pushed'[l] <=> 1 \in Spin!Taken(frames'[c], l)
    <3>1. 1 \in Spin!Taken(frames'[c], l) <=> q = <<>>
      BY <1>2, <1>5, <1>6, <1>8
    <3> QED
      BY <1>1, <1>2, <1>6, <1>8, <3>1 DEF SpinInv, Flags
  <2>3. ASSUME NEW d \in SpinCpus, NEW k \in Locks, owner'[k] = d
        PROVE  pushed'[k] <=> 1 \in Spin!Taken(frames'[d], k)
    <3>1. CASE k = l
      BY <1>6, <2>2, <2>3, <3>1
    <3>2. CASE k # l
      BY <1>11, <2>3, <3>2 DEF WordExact
    <3> QED
      BY <3>1, <3>2
  <2> QED
    BY <2>1, <2>3 DEF Outermost
<1>15. Ordered'
  <2>1. \A d \in SpinCpus \ {c} : Spin!Held(d)' = Spin!Held(d)
    BY <1>6 DEF Spin!Held
  <2> QED
    BY <1>1, <1>6, <2>1 DEF SpinInv, Ordered
<1> QED
  BY <1>9, <1>12, <1>13, <1>14, <1>15 DEF SpinInv

(* The lock is this CPU's own already: it goes one level deeper.           *)
LEMMA StepAcquireAgain ==
  ASSUME NEW m, LockParameters(m), SpinInv, NEW c \in SpinCpus, Spin!AcquireAgain(c)
  PROVE  SpinInv'
<1> DEFINE l == want[c].lock
           q == frames[c]
           f == [kind |-> "lock", lock |-> l]
<1>1. /\ spinPc[c] = "spin" /\ owner[l] = c
      /\ spinLevel' = [spinLevel EXCEPT ![l] = spinLevel[l] + 1]
      /\ frames' = [frames EXCEPT ![c] = Append(q, f)]
      /\ spinPc' = [spinPc EXCEPT ![c] = "out"]
      /\ UNCHANGED <<owner, pushed, enabled, want>>
  BY DEF Spin!AcquireAgain, Spin!Goto, Spin!Push
<1>2. l \in Locks /\ q \in Seq(Spin!Frames) /\ spinLevel[l] \in Nat
  BY DEF SpinInv, Spin!TypeOK
<1>3. f \in Spin!Frames /\ f.kind = "lock" /\ f.lock = l
  BY <1>2 DEF Spin!Frames
<1>4. NoCpu \notin SpinCpus
  BY DEF LockParameters
<1> HIDE DEF l, q, f
<1>5. /\ Append(q, f) \in Seq(Spin!Frames) /\ Append(q, f) # <<>>
      /\ Len(Append(q, f)) = Len(q) + 1 /\ Len(q) \in Nat
      /\ \A i \in 1..Len(q) : Append(q, f)[i] = q[i]
      /\ Append(q, f)[Len(q) + 1] = f
      /\ Spin!Taken(Append(q, f), l) = Spin!Taken(q, l) \cup {Len(q) + 1}
      /\ \A k \in Locks \ {l} : Spin!Taken(Append(q, f), k) = Spin!Taken(q, k)
  BY <1>2, <1>3, NestPush
<1>6. /\ spinLevel'[l] = spinLevel[l] + 1 /\ \A k \in Locks \ {l} : spinLevel'[k] = spinLevel[k]
      /\ frames'[c] = Append(q, f) /\ spinPc'[c] = "out"
      /\ \A d \in SpinCpus \ {c} : frames'[d] = frames[d] /\ spinPc'[d] = spinPc[d]
  BY <1>1, <1>2 DEF SpinInv, Spin!TypeOK
<1>7. frames[c] = q
  BY DEF q
<1>8. /\ spinLevel[l] > 0 /\ Cardinality(Spin!Taken(q, l)) = spinLevel[l]
      /\ \A d \in SpinCpus \ {c} : Spin!Taken(frames[d], l) = {}
  BY <1>1, <1>2, <1>4, <1>7 DEF SpinInv, Inside
<1>9. Len(q) > 0
  <2>1. Spin!Taken(q, l) # {}
    BY <1>8, FS_EmptySet
  <2> QED
    BY <1>5, <2>1 DEF Spin!Taken
<1>10. Spin!TypeOK'
  BY <1>1, <1>2, <1>5 DEF SpinInv, Spin!TypeOK
<1>11. ASSUME NEW d \in SpinCpus, NEW k \in Locks \ {l} PROVE Spin!Taken(frames'[d], k) = Spin!Taken(frames[d], k)
  <2>1. CASE d = c
    BY <1>5, <1>6, <1>7, <2>1
  <2>2. CASE d # c
    BY <1>6, <2>2
  <2> QED
    BY <2>1, <2>2
<1>12. \A k \in Locks \ {l} : WordExact(owner', pushed', spinLevel', frames', k)
  BY <1>1, <1>6, <1>11, OtherLocks
<1>13. WordExact(owner', pushed', spinLevel', frames', l)
  <2>1. owner'[l] = c /\ owner'[l] # NoCpu /\ spinLevel'[l] > 0
    BY <1>1, <1>2, <1>4, <1>6
  <2>2. Cardinality(Spin!Taken(frames'[c], l)) = spinLevel'[l]
    <3>1. IsFiniteSet(Spin!Taken(q, l))
      BY <1>2, TakenFinite
    <3>2. Len(q) + 1 \notin Spin!Taken(q, l)
      BY <1>5 DEF Spin!Taken
    <3>3. Cardinality(Spin!Taken(q, l) \cup {Len(q) + 1}) = Cardinality(Spin!Taken(q, l)) + 1
      BY <3>1, <3>2, FS_AddElement
    <3>4. Spin!Taken(frames'[c], l) = Spin!Taken(q, l) \cup {Len(q) + 1}
      BY <1>5, <1>6
    <3> QED
      BY <1>6, <1>8, <3>3, <3>4
  <2>3. pushed'[l] <=> 1 \in Spin!Taken(frames'[c], l)
    <3>1. 1 \in Spin!Taken(frames'[c], l) <=> 1 \in Spin!Taken(q, l)
      <4>1. Spin!Taken(frames'[c], l) = Spin!Taken(q, l) \cup {Len(q) + 1}
        BY <1>5, <1>6
      <4>2. Len(q) + 1 # 1
        BY <1>5, <1>9
      <4> QED
        BY <4>1, <4>2
    <3>2. pushed[l] <=> 1 \in Spin!Taken(q, l)
      BY <1>1, <1>2, <1>7 DEF SpinInv, Outermost
    <3> QED
      BY <1>1, <3>1, <3>2
  <2>4. \A d \in SpinCpus \ {c} : Spin!Taken(frames'[d], l) = {}
    BY <1>6, <1>8
  <2>5. ASSUME NEW d \in SpinCpus
        PROVE  /\ owner'[l] = d => Cardinality(Spin!Taken(frames'[d], l)) = spinLevel'[l]
               /\ owner'[l] # d => Spin!Taken(frames'[d], l) = {}
               /\ owner'[l] = d => (pushed'[l] <=> 1 \in Spin!Taken(frames'[d], l))
    <3>1. CASE d = c
      BY <2>1, <2>2, <2>3, <3>1
    <3>2. CASE d # c
      BY <2>1, <2>4, <3>2
    <3> QED
      BY <3>1, <3>2
  <2> QED
    BY <2>1, <2>5 DEF WordExact
<1>14. Inside'
  BY <1>12, <1>13 DEF WordExact, Inside
<1>15. Flags'
  BY <1>1, <1>5, <1>6, <1>7, <1>9 DEF SpinInv, Flags
<1>16. Outermost'
  <2>1. ASSUME NEW d \in SpinCpus, NEW i \in 1..Len(frames'[d])
        PROVE  /\ frames'[d][i].kind = "irq" => i = 1
               /\ frames'[d][i].kind = "cli" => (frames'[d][i].saved <=> i = 1)
    <3>1. CASE d = c /\ i = Len(q) + 1
      BY <1>3, <1>5, <1>6, <3>1
    <3>2. CASE ~(d = c /\ i = Len(q) + 1)
      <4>1. i \in 1..Len(frames[d]) /\ frames'[d][i] = frames[d][i]
        BY <1>5, <1>6, <1>7, <2>1, <3>2
      <4> QED
        BY <4>1 DEF SpinInv, Outermost
    <3> QED
      BY <3>1, <3>2
  <2>2. \A d \in SpinCpus, k \in Locks : owner'[k] = d => (pushed'[k] <=> 1 \in Spin!Taken(frames'[d], k))
    BY <1>12, <1>13 DEF WordExact
  <2> QED
    BY <2>1, <2>2 DEF Outermost
<1>17. Ordered'
  <2>1. \A d \in SpinCpus \ {c} : Spin!Held(d)' = Spin!Held(d)
    BY <1>6 DEF Spin!Held
  <2> QED
    BY <1>1, <1>6, <2>1 DEF SpinInv, Ordered
<1> QED
  BY <1>10, <1>14, <1>15, <1>16, <1>17 DEF SpinInv

(* spinlock_unlock leaves the innermost section.  When that frees the lock *)
(* the word says whether nothing else is left.                             *)
LEMMA StepUnlock ==
  ASSUME NEW m, LockParameters(m), SpinInv, NEW c \in SpinCpus, Spin!Unlock(c)
  PROVE  SpinInv'
<1> DEFINE q == frames[c]
           n == Len(q)
           l == q[n].lock
           r == SubSeq(q, 1, n - 1)
           S == Spin!Taken(q, l)
           frees == spinLevel[l] = 1
<1>1. /\ spinPc[c] = "out" /\ q # <<>> /\ q[n].kind = "lock" /\ owner[l] = c /\ spinLevel[l] > 0
      /\ spinLevel' = [spinLevel EXCEPT ![l] = spinLevel[l] - 1]
      /\ owner' = [owner EXCEPT ![l] = IF frees THEN NoCpu ELSE owner[l]]
      /\ spinPc' = [spinPc EXCEPT ![c] = IF frees /\ pushed[l] THEN "sti" ELSE "out"]
      /\ frames' = [frames EXCEPT ![c] = r]
      /\ UNCHANGED <<pushed, enabled, want>>
  BY DEF Spin!Unlock, Spin!Top, Spin!Goto, Spin!Pop
<1>2. q \in Seq(Spin!Frames) /\ frames[c] = q
  BY DEF SpinInv, Spin!TypeOK
<1>3. /\ r \in Seq(Spin!Frames) /\ n \in Nat \ {0} /\ Len(r) = n - 1
      /\ (\A i \in 1..Len(r) : r[i] = q[i] /\ i \in 1..n)
      /\ (r = <<>> <=> n = 1)
      /\ \A k : Spin!Taken(r, k) = Spin!Taken(q, k) \ {n}
  BY <1>1, <1>2, NestPop, ZenonT(40)
<1>4. q[n] \in Spin!Frames
  BY <1>2, <1>3
<1>5. l \in Locks /\ n \in S /\ \A k \in Locks \ {l} : n \notin Spin!Taken(q, k)
  <2>1. l \in Locks
    BY <1>1, <1>4, Kinds
  <2> QED
    BY <1>1, <1>3, <2>1 DEF Spin!Taken
<1>6. NoCpu \notin SpinCpus /\ spinLevel[l] \in Nat /\ pushed[l] \in BOOLEAN
  BY <1>5 DEF LockParameters, SpinInv, Spin!TypeOK
<1>7. IsFiniteSet(S) /\ Cardinality(S) = spinLevel[l] /\ \A d \in SpinCpus \ {c} : Spin!Taken(frames[d], l) = {}
  BY <1>1, <1>2, <1>5, TakenFinite DEF SpinInv, Inside
<1>8. IsFiniteSet(S \ {n}) /\ Cardinality(S \ {n}) = spinLevel[l] - 1
  BY <1>5, <1>7, FS_RemoveElement
<1>9. pushed[l] <=> 1 \in S
  BY <1>1, <1>2, <1>5 DEF SpinInv, Outermost
<1>10. ~enabled[c]
  BY <1>1 DEF SpinInv, Flags
<1>11. n = 1 => S = {n}
  <2>1. S \subseteq 1..n
    BY DEF Spin!Taken
  <2>2. ASSUME n = 1 PROVE 1..n = {n}
    BY <2>2
  <2> QED
    BY <1>5, <2>1, <2>2
<1> HIDE DEF q, n, l, r, S
<1>12. frees <=> S = {n}
  <2>1. ASSUME frees PROVE S = {n}
    <3>1. Cardinality(S \ {n}) = 0
      BY <1>8, <2>1
    <3>2. S \ {n} = {}
      BY <1>8, <3>1, FS_EmptySet
    <3> QED
      BY <1>5, <3>2
  <2>2. ASSUME S = {n} PROVE frees
    BY <1>7, <2>2, FS_Singleton
  <2> QED
    BY <2>1, <2>2
<1>13. frees /\ pushed[l] <=> n = 1
  BY <1>9, <1>11, <1>12
<1> HIDE DEF frees
<1>14. /\ spinLevel'[l] = spinLevel[l] - 1 /\ owner'[l] = (IF frees THEN NoCpu ELSE c)
       /\ \A k \in Locks \ {l} : owner'[k] = owner[k] /\ spinLevel'[k] = spinLevel[k]
       /\ frames'[c] = r /\ spinPc'[c] = (IF n = 1 THEN "sti" ELSE "out")
       /\ \A d \in SpinCpus \ {c} : frames'[d] = frames[d] /\ spinPc'[d] = spinPc[d]
  BY <1>1, <1>5, <1>13 DEF SpinInv, Spin!TypeOK
<1>15. Spin!TypeOK'
  <2>1. spinLevel[l] - 1 \in Nat
    BY <1>1, <1>6
  <2>2. spinLevel' \in [Locks -> Nat] /\ owner' \in [Locks -> SpinCpus \cup {NoCpu}]
    BY <1>1, <1>5, <2>1 DEF SpinInv, Spin!TypeOK
  <2>3. frames' \in [SpinCpus -> Seq(Spin!Frames)] /\ spinPc' \in [SpinCpus -> {"out", "spin", "sti"}]
    BY <1>1, <1>3 DEF SpinInv, Spin!TypeOK
  <2> QED
    BY <1>1, <2>2, <2>3 DEF SpinInv, Spin!TypeOK
<1>16. Spin!Taken(frames'[c], l) = S \ {n} /\ \A d \in SpinCpus \ {c} : Spin!Taken(frames'[d], l) = {}
  <2>1. Spin!Taken(frames'[c], l) = S \ {n}
    BY <1>3, <1>14 DEF S
  <2>2. \A d \in SpinCpus \ {c} : Spin!Taken(frames'[d], l) = {}
    BY <1>7, <1>14
  <2> QED
    BY <2>1, <2>2
<1>17. ASSUME NEW d \in SpinCpus, NEW k \in Locks \ {l} PROVE Spin!Taken(frames'[d], k) = Spin!Taken(frames[d], k)
  <2>1. CASE d = c
    <3>1. Spin!Taken(r, k) = Spin!Taken(q, k) \ {n} /\ n \notin Spin!Taken(q, k)
      BY <1>3, <1>5
    <3>2. Spin!Taken(r, k) = Spin!Taken(q, k)
      BY <3>1
    <3> QED
      BY <1>2, <1>14, <2>1, <3>2
  <2>2. CASE d # c
    BY <1>14, <2>2
  <2> QED
    BY <2>1, <2>2
<1>18. \A k \in Locks \ {l} : WordExact(owner', pushed', spinLevel', frames', k)
  BY <1>1, <1>14, <1>17, OtherLocks
<1>19. WordExact(owner', pushed', spinLevel', frames', l)
  <2>1. CASE frees
    <3>1. owner'[l] = NoCpu /\ spinLevel'[l] = 0
      BY <1>14, <2>1 DEF frees
    <3>2. S \ {n} = {}
      BY <1>12, <2>1
    <3>3. ASSUME NEW d \in SpinCpus PROVE Spin!Taken(frames'[d], l) = {} /\ owner'[l] # d
      <4>1. owner'[l] # d
        BY <1>6, <3>1
      <4>2. CASE d = c
        BY <1>16, <3>2, <4>1, <4>2
      <4>3. CASE d # c
        BY <1>16, <4>1, <4>3
      <4> QED
        BY <4>2, <4>3
    <3> QED
      BY <3>1, <3>3 DEF WordExact
  <2>2. CASE ~frees
    <3>1. owner'[l] = c /\ owner'[l] # NoCpu /\ spinLevel'[l] > 0
      BY <1>1, <1>6, <1>14, <2>2 DEF frees
    <3>2. Cardinality(Spin!Taken(frames'[c], l)) = spinLevel'[l]
      BY <1>8, <1>14, <1>16
    <3>3. pushed'[l] <=> 1 \in Spin!Taken(frames'[c], l)
      <4>1. n # 1
        BY <1>11, <1>12, <2>2
      <4> QED
        BY <1>1, <1>9, <1>16, <4>1
    <3>4. ASSUME NEW d \in SpinCpus
          PROVE  /\ owner'[l] = d => Cardinality(Spin!Taken(frames'[d], l)) = spinLevel'[l]
                 /\ owner'[l] # d => Spin!Taken(frames'[d], l) = {}
                 /\ owner'[l] = d => (pushed'[l] <=> 1 \in Spin!Taken(frames'[d], l))
      <4>1. CASE d = c
        BY <3>1, <3>2, <3>3, <4>1
      <4>2. CASE d # c
        BY <1>16, <3>1, <4>2
      <4> QED
        BY <4>1, <4>2
    <3> QED
      BY <3>1, <3>4 DEF WordExact
  <2> QED
    BY <2>1, <2>2
<1>20. Inside'
  BY <1>18, <1>19 DEF WordExact, Inside
<1>21. Flags'
  <2>1. ASSUME NEW d \in SpinCpus
        PROVE  /\ enabled'[d] <=> frames'[d] = <<>> /\ spinPc'[d] = "out"
               /\ spinPc'[d] = "sti" => frames'[d] = <<>>
               /\ spinPc'[d] = "spin" => (want'[d].push <=> frames'[d] = <<>>)
    <3>1. CASE d = c
      <4>1. ~enabled'[d] /\ frames'[d] = r /\ spinPc'[d] = (IF n = 1 THEN "sti" ELSE "out")
        BY <1>1, <1>10, <1>14, <3>1
      <4> QED
        BY <1>3, <4>1
    <3>2. CASE d # c
      <4>1. /\ enabled'[d] = enabled[d] /\ frames'[d] = frames[d] /\ spinPc'[d] = spinPc[d]
            /\ want'[d] = want[d]
        BY <1>1, <1>14, <3>2
      <4> QED
        BY <4>1 DEF SpinInv, Flags
    <3> QED
      BY <3>1, <3>2
  <2> QED
    BY <2>1 DEF Flags
<1>22. Outermost'
  <2>1. ASSUME NEW d \in SpinCpus, NEW i \in 1..Len(frames'[d])
        PROVE  /\ frames'[d][i].kind = "irq" => i = 1
               /\ frames'[d][i].kind = "cli" => (frames'[d][i].saved <=> i = 1)
    <3>1. i \in 1..Len(frames[d]) /\ frames'[d][i] = frames[d][i]
      <4>1. CASE d = c
        BY <1>2, <1>3, <1>14, <2>1, <4>1 DEF n
      <4>2. CASE d # c
        BY <1>14, <2>1, <4>2
      <4> QED
        BY <4>1, <4>2
    <3> QED
      BY <3>1 DEF SpinInv, Outermost
  <2>2. \A d \in SpinCpus, k \in Locks : owner'[k] = d => (pushed'[k] <=> 1 \in Spin!Taken(frames'[d], k))
    BY <1>18, <1>19 DEF WordExact
  <2> QED
    BY <2>1, <2>2 DEF Outermost
<1>23. Ordered'
  <2>1. \A d \in SpinCpus \ {c} : Spin!Held(d)' = Spin!Held(d)
    BY <1>14 DEF Spin!Held
  <2> QED
    BY <1>1, <1>14, <2>1 DEF SpinInv, Ordered
<1> QED
  BY <1>15, <1>20, <1>21, <1>22, <1>23 DEF SpinInv

(* sti: the CPU is inside nothing.                                         *)
LEMMA StepSti ==
  ASSUME SpinInv, NEW c \in SpinCpus, Spin!Sti(c)
  PROVE  SpinInv'
<1>1. /\ spinPc[c] = "sti" /\ enabled' = [enabled EXCEPT ![c] = TRUE] /\ spinPc' = [spinPc EXCEPT ![c] = "out"]
      /\ UNCHANGED <<owner, pushed, spinLevel, frames, want>>
  BY DEF Spin!Sti, Spin!Goto
<1>2. /\ enabled'[c] = TRUE /\ spinPc'[c] = "out"
      /\ \A d \in SpinCpus \ {c} : enabled'[d] = enabled[d] /\ spinPc'[d] = spinPc[d]
  BY <1>1 DEF SpinInv, Spin!TypeOK
<1>3. Spin!TypeOK'
  BY <1>1 DEF SpinInv, Spin!TypeOK
<1>4. Inside'
  BY <1>1 DEF SpinInv, Inside
<1>5. Outermost'
  BY <1>1, Zenon DEF SpinInv, Outermost
<1>6. Flags'
  BY <1>1, <1>2 DEF SpinInv, Flags
<1>7. \A d \in SpinCpus : Spin!Held(d)' = Spin!Held(d)
  BY <1>1 DEF Spin!Held
<1>8. Ordered'
  BY <1>1, <1>2, <1>7 DEF SpinInv, Ordered
<1> QED
  BY <1>3, <1>4, <1>5, <1>6, <1>8 DEF SpinInv

(* A push_cli section, or a handler that the flag let in: it is the        *)
(* outermost one exactly if it found interrupts on.                        *)
LEMMA StepEnter ==
  ASSUME SpinInv, NEW c \in SpinCpus, Spin!PushCli(c) \/ Spin!Interrupt(c)
  PROVE  SpinInv'
<1> DEFINE q == frames[c]
<1>1. PICK f \in Spin!Frames :
        /\ (f.kind = "cli" /\ f.saved = enabled[c]) \/ (f.kind = "irq" /\ enabled[c])
        /\ spinPc[c] = "out" /\ frames' = [frames EXCEPT ![c] = Append(q, f)]
        /\ enabled' = [enabled EXCEPT ![c] = FALSE]
        /\ UNCHANGED <<owner, pushed, spinLevel, spinPc, want>>
  <2>1. CASE Spin!PushCli(c)
    <3> DEFINE f == [kind |-> "cli", saved |-> enabled[c]]
    <3>1. f \in Spin!Frames /\ f.kind = "cli" /\ f.saved = enabled[c]
      BY DEF SpinInv, Spin!TypeOK, Spin!Frames
    <3>2. /\ spinPc[c] = "out" /\ frames' = [frames EXCEPT ![c] = Append(q, f)]
          /\ enabled' = [enabled EXCEPT ![c] = FALSE]
          /\ UNCHANGED <<owner, pushed, spinLevel, spinPc, want>>
      BY <2>1 DEF Spin!PushCli, Spin!Room, Spin!Push
    <3> HIDE DEF f
    <3>3. (f.kind = "cli" /\ f.saved = enabled[c]) \/ (f.kind = "irq" /\ enabled[c])
      BY <3>1, Zenon
    <3>4. f \in Spin!Frames
      BY <3>1
    <3> WITNESS f \in Spin!Frames
    <3> QED
      BY <3>2, <3>3
  <2>2. CASE Spin!Interrupt(c)
    <3> DEFINE f == [kind |-> "irq"]
    <3>1. f \in Spin!Frames
      BY DEF Spin!Frames
    <3> QED
      BY <2>2, <3>1 DEF Spin!Interrupt, Spin!Room, Spin!Push
  <2> QED
    BY <2>1, <2>2
<1>2. q \in Seq(Spin!Frames) /\ frames[c] = q /\ enabled[c] \in BOOLEAN /\ Len(q) \in Nat
  BY DEF SpinInv, Spin!TypeOK
<1>3. enabled[c] <=> Len(q) + 1 = 1
  <2>1. enabled[c] <=> q = <<>>
    BY <1>1 DEF SpinInv, Flags
  <2>2. q = <<>> <=> Len(q) = 0
    BY <1>2, EmptySeq
  <2> QED
    BY <1>2, <2>1, <2>2
<1> HIDE DEF q
<1>4. /\ Append(q, f) \in Seq(Spin!Frames) /\ Append(q, f) # <<>>
      /\ Len(Append(q, f)) = Len(q) + 1 /\ Len(q) \in Nat
      /\ \A i \in 1..Len(q) : Append(q, f)[i] = q[i]
      /\ Append(q, f)[Len(q) + 1] = f
  BY <1>2, NestPush
<1>5. \A k : Spin!Taken(Append(q, f), k) = Spin!Taken(q, k)
  <2>1. f.kind # "lock"
    BY <1>1
  <2> QED
    BY <1>2, <2>1, NestPush
<1>6. /\ frames'[c] = Append(q, f) /\ enabled'[c] = FALSE
      /\ \A d \in SpinCpus \ {c} : frames'[d] = frames[d] /\ enabled'[d] = enabled[d]
  BY <1>1 DEF SpinInv, Spin!TypeOK
<1>7. ASSUME NEW d \in SpinCpus, NEW k \in Locks PROVE Spin!Taken(frames'[d], k) = Spin!Taken(frames[d], k)
  <2>1. CASE d = c
    BY <1>2, <1>5, <1>6, <2>1
  <2>2. CASE d # c
    BY <1>6, <2>2
  <2> QED
    BY <2>1, <2>2
<1>8. /\ Inside' /\ Ordered'
      /\ \A d \in SpinCpus, l \in Locks : owner'[l] = d => (pushed'[l] <=> 1 \in Spin!Taken(frames'[d], l))
  BY <1>1, <1>7, SameTaken
<1>9. Spin!TypeOK'
  BY <1>1, <1>4 DEF SpinInv, Spin!TypeOK
<1>10. Flags'
  BY <1>1, <1>4, <1>6 DEF SpinInv, Flags
<1>11. ASSUME NEW d \in SpinCpus, NEW i \in 1..Len(frames'[d])
       PROVE  /\ frames'[d][i].kind = "irq" => i = 1
              /\ frames'[d][i].kind = "cli" => (frames'[d][i].saved <=> i = 1)
  <2>1. CASE d = c /\ i = Len(q) + 1
    <3>1. frames'[d][i] = f
      BY <1>4, <1>6, <2>1
    <3> QED
      BY <1>1, <1>3, <2>1, <3>1
  <2>2. CASE ~(d = c /\ i = Len(q) + 1)
    <3>1. i \in 1..Len(frames[d]) /\ frames'[d][i] = frames[d][i]
      BY <1>2, <1>4, <1>6, <1>11, <2>2
    <3> QED
      BY <3>1 DEF SpinInv, Outermost
  <2> QED
    BY <2>1, <2>2
<1>12. Outermost'
  BY <1>8, <1>11 DEF Outermost
<1> QED
  BY <1>8, <1>9, <1>10, <1>12 DEF SpinInv

(* Leaving one: pop_cli gives back what push_cli found and iret sets the   *)
(* flag, which is right because that was the outermost one exactly then.   *)
LEMMA StepLeave ==
  ASSUME SpinInv, NEW c \in SpinCpus, Spin!PopCli(c) \/ Spin!Iret(c)
  PROVE  SpinInv'
<1> DEFINE q == frames[c]
           n == Len(q)
           r == SubSeq(q, 1, n - 1)
           e == enabled'[c]
<1>1. q \in Seq(Spin!Frames) /\ frames[c] = q
  BY DEF SpinInv, Spin!TypeOK
<1>2. /\ spinPc[c] = "out" /\ q # <<>> /\ q[n].kind # "lock" /\ frames' = [frames EXCEPT ![c] = r]
      /\ UNCHANGED <<owner, pushed, spinLevel, spinPc, want>>
  BY DEF Spin!PopCli, Spin!Iret, Spin!Top, Spin!Pop
<1>3. /\ r \in Seq(Spin!Frames) /\ n \in Nat \ {0} /\ Len(r) = n - 1
      /\ (\A i \in 1..Len(r) : r[i] = q[i] /\ i \in 1..n)
      /\ (r = <<>> <=> n = 1)
      /\ \A k : Spin!Taken(r, k) = Spin!Taken(q, k) \ {n}
  BY <1>1, <1>2, NestPop
<1>4. n \in 1..n /\ q[n] \in Spin!Frames
  BY <1>1, <1>3
<1>5. \A k : Spin!Taken(r, k) = Spin!Taken(q, k)
  BY <1>2, <1>3 DEF Spin!Taken
<1>6. /\ enabled' \in [SpinCpus -> BOOLEAN] /\ (enabled'[c] <=> n = 1)
      /\ \A d \in SpinCpus \ {c} : enabled'[d] = enabled[d]
  <2>1. /\ q[n].kind = "irq" => n = 1
        /\ q[n].kind = "cli" => (q[n].saved <=> n = 1)
    BY <1>1, <1>4 DEF SpinInv, Outermost
  <2>2. CASE Spin!PopCli(c)
    <3>1. q[n].kind = "cli" /\ enabled' = [enabled EXCEPT ![c] = q[n].saved]
      BY <2>2 DEF Spin!PopCli, Spin!Top
    <3>2. q[n].saved \in BOOLEAN /\ enabled \in [SpinCpus -> BOOLEAN]
      BY <1>4, <3>1, Kinds DEF SpinInv, Spin!TypeOK
    <3>3. enabled'[c] = q[n].saved
      BY <3>1, <3>2
    <3> QED
      BY <2>1, <3>1, <3>2, <3>3
  <2>3. CASE Spin!Iret(c)
    <3>1. q[n].kind = "irq" /\ enabled' = [enabled EXCEPT ![c] = TRUE]
      BY <2>3 DEF Spin!Iret, Spin!Top
    <3> QED
      BY <2>1, <3>1 DEF SpinInv, Spin!TypeOK
  <2> QED
    BY <2>2, <2>3
<1> HIDE DEF q, n, r
<1>7. frames'[c] = r /\ \A d \in SpinCpus \ {c} : frames'[d] = frames[d]
  BY <1>2 DEF SpinInv, Spin!TypeOK
<1>8. ASSUME NEW d \in SpinCpus, NEW k \in Locks PROVE Spin!Taken(frames'[d], k) = Spin!Taken(frames[d], k)
  <2>1. CASE d = c
    BY <1>1, <1>5, <1>7, <2>1
  <2>2. CASE d # c
    BY <1>7, <2>2
  <2> QED
    BY <2>1, <2>2
<1>9. /\ Inside' /\ Ordered'
      /\ \A d \in SpinCpus, l \in Locks : owner'[l] = d => (pushed'[l] <=> 1 \in Spin!Taken(frames'[d], l))
  BY <1>2, <1>8, SameTaken
<1>10. Spin!TypeOK'
  BY <1>2, <1>3, <1>6 DEF SpinInv, Spin!TypeOK
<1>11. Flags'
  BY <1>2, <1>3, <1>6, <1>7 DEF SpinInv, Flags
<1>12. ASSUME NEW d \in SpinCpus, NEW i \in 1..Len(frames'[d])
       PROVE  /\ frames'[d][i].kind = "irq" => i = 1
              /\ frames'[d][i].kind = "cli" => (frames'[d][i].saved <=> i = 1)
  <2>1. i \in 1..Len(frames[d]) /\ frames'[d][i] = frames[d][i]
    <3>1. CASE d = c
      BY <1>1, <1>3, <1>7, <1>12, <3>1 DEF n
    <3>2. CASE d # c
      BY <1>7, <1>12, <3>2
    <3> QED
      BY <3>1, <3>2
  <2> QED
    BY <2>1 DEF SpinInv, Outermost
<1>13. Outermost'
  BY <1>9, <1>12 DEF Outermost
<1> QED
  BY <1>9, <1>10, <1>11, <1>13 DEF SpinInv

(* Every step keeps the invariant.                                         *)
LEMMA NextSpinInv ==
  ASSUME NEW m, LockParameters(m), SpinInv, [Spin!Next]_(Spin!vars)
  PROVE  SpinInv'
<1>1. CASE UNCHANGED Spin!vars
  <2>1. \A d \in SpinCpus : Spin!Held(d)' = Spin!Held(d)
    BY <1>1 DEF Spin!Held, Spin!vars
  <2>2. Spin!TypeOK'
    BY <1>1 DEF SpinInv, Spin!TypeOK, Spin!vars
  <2>3. Inside'
    BY <1>1 DEF SpinInv, Inside, Spin!vars
  <2>4. Flags'
    BY <1>1 DEF SpinInv, Flags, Spin!vars
  <2>5. Outermost'
    BY <1>1, Zenon DEF SpinInv, Outermost, Spin!vars
  <2>6. Ordered'
    BY <1>1, <2>1 DEF SpinInv, Ordered, Spin!vars
  <2> QED
    BY <2>2, <2>3, <2>4, <2>5, <2>6 DEF SpinInv
<1>2. CASE Spin!Next
  <2>1. PICK c \in SpinCpus :
          \/ \E l \in Locks : Spin!CallLock(c, l)
          \/ Spin!Acquire(c) \/ Spin!AcquireAgain(c) \/ Spin!Unlock(c) \/ Spin!Sti(c)
          \/ Spin!PushCli(c) \/ Spin!PopCli(c) \/ Spin!Interrupt(c) \/ Spin!Iret(c)
    BY <1>2 DEF Spin!Next
  <2> QED
    BY <2>1, StepCallLock, StepAcquire, StepAcquireAgain, StepUnlock, StepSti, StepEnter, StepLeave
<1> QED
  BY <1>1, <1>2

(* kernel/lock.c with push_cli, pop_cli and the interrupt gates: for any   *)
(* number of CPUs and of locks taken in ascending order, two CPUs are      *)
(* never inside one lock, the assertions of spinlock_unlock and pop_cli    *)
(* hold, no interrupt reaches a CPU that holds a lock, the interrupt flag  *)
(* comes back, and the CPUs never all wait for each other.                 *)
THEOREM LocksSpinlocksSafe ==
  ASSUME NEW m, LockParameters(m)
  PROVE  Spin!Spec => []SpinlocksSafe
<1>1. Spin!Init => SpinInv
  BY InitSpinInv
<1>2. SpinInv /\ [Spin!Next]_(Spin!vars) => SpinInv'
  BY NextSpinInv
<1>3. SpinInv => SpinlocksSafe
  BY InvSpinlocksSafe DEF SpinlocksSafe
<1> QED
  BY <1>1, <1>2, <1>3, PTL DEF Spin!Spec

-----------------------------------------------------------------------------
ShootdownProofs == INSTANCE IpiProofs WITH pc <- ipiPc

(* TLB shootdown by any number of CPUs: no old translation can be used     *)
(* when flush_tlb_range has returned, counts of messages are exact, and    *)
(* neither the pool nor a queue runs out.                                  *)
THEOREM LocksShootdownSafe ==
  ASSUME Shootdown!NumCpusAssumption, Shootdown!PagesAssumption, Shootdown!BoundsAssumption
  PROVE  Shootdown!Spec => []ShootdownSafe
<1>1. ShootdownProofs!Spec => []ShootdownProofs!ShootdownSafe
  BY ShootdownProofs!IpiShootdownSafe
<1>2. ShootdownSafe <=> ShootdownProofs!ShootdownSafe
  BY DEF ShootdownSafe,
      Shootdown!Cardinality, Shootdown!Cpus, Shootdown!Vms, Shootdown!Pages,
      Shootdown!Msgs, Shootdown!FlushComplete, Shootdown!In, Shootdown!Once,
      Shootdown!Holders, Shootdown!Owed, Shootdown!OnQueuesOnce,
      Shootdown!PoolExact, Shootdown!CountsExact, Shootdown!RefsExact,
      Shootdown!NeverFull, Shootdown!ShootdownSafe,
      ShootdownProofs!Cardinality, ShootdownProofs!Cpus, ShootdownProofs!Vms,
      ShootdownProofs!Pages, ShootdownProofs!Msgs, ShootdownProofs!FlushComplete,
      ShootdownProofs!In, ShootdownProofs!Once, ShootdownProofs!Holders,
      ShootdownProofs!Owed, ShootdownProofs!OnQueuesOnce, ShootdownProofs!PoolExact,
      ShootdownProofs!CountsExact, ShootdownProofs!RefsExact,
      ShootdownProofs!NeverFull, ShootdownProofs!ShootdownSafe
<1>3. Shootdown!Init <=> ShootdownProofs!Init
  BY DEF Shootdown!Init, ShootdownProofs!Init,
      Shootdown!Cpus, Shootdown!Msgs,
      ShootdownProofs!Cpus, ShootdownProofs!Msgs
<1>4. [Shootdown!Next]_Shootdown!vars <=> [ShootdownProofs!Next]_ShootdownProofs!vars
  BY DEF
      Shootdown!Min, Shootdown!Cpus, Shootdown!Vms, Shootdown!Pages, Shootdown!Msgs,
      Shootdown!flushVars, Shootdown!vars, Shootdown!At, Shootdown!Goto,
      Shootdown!ApReady, Shootdown!ApStart, Shootdown!SmpActivate, Shootdown!Leave,
      Shootdown!SetTask, Shootdown!LoadCr3, Shootdown!EnterVm, Shootdown!Caches,
      Shootdown!InVm, Shootdown!Modify, Shootdown!Flush, Shootdown!Halt,
      Shootdown!AllocMessage, Shootdown!Scan, Shootdown!Count, Shootdown!Post,
      Shootdown!FlushSelf, Shootdown!FlushReturn, Shootdown!Polls, Shootdown!Take,
      Shootdown!Acknowledge, Shootdown!Progress, Shootdown!Next,
      ShootdownProofs!Min, ShootdownProofs!Cpus, ShootdownProofs!Vms,
      ShootdownProofs!Pages, ShootdownProofs!Msgs, ShootdownProofs!flushVars,
      ShootdownProofs!vars, ShootdownProofs!At, ShootdownProofs!Goto,
      ShootdownProofs!ApReady, ShootdownProofs!ApStart, ShootdownProofs!SmpActivate,
      ShootdownProofs!Leave, ShootdownProofs!SetTask, ShootdownProofs!LoadCr3,
      ShootdownProofs!EnterVm, ShootdownProofs!Caches, ShootdownProofs!InVm,
      ShootdownProofs!Modify, ShootdownProofs!Flush, ShootdownProofs!Halt,
      ShootdownProofs!AllocMessage, ShootdownProofs!Scan, ShootdownProofs!Count,
      ShootdownProofs!Post, ShootdownProofs!FlushSelf, ShootdownProofs!FlushReturn,
      ShootdownProofs!Polls, ShootdownProofs!Take, ShootdownProofs!Acknowledge,
      ShootdownProofs!Progress, ShootdownProofs!Next
<1> QED
  BY <1>1, <1>2, <1>3, <1>4, PTL DEF Shootdown!Spec, ShootdownProofs!Spec

-----------------------------------------------------------------------------
(* What the kernel has to grant the queue: one consumer, room for one      *)
(* element, and a capacity that divides the range of head (or a head that  *)
(* never wraps around).                                                    *)
QueueParameters(c) ==
  /\ IsFiniteSet(Producers) /\ Consumers = {c}
  /\ Capacity \in Nat \ {0} /\ Modulus \in Nat \ {0} /\ MaxTickets \in Nat
  /\ Modulus % Capacity = 0 \/ MaxTickets <= Modulus

Pos(k) == k % Capacity

Last == Len(delivered)
Released(c) == IF cpc[c] = "idle" THEN Last ELSE Last - 1
At(f, l) == {p \in Producers : f[p] = l}

(* Where the consumer and the producers are in the sequence of tickets.    *)
Positions(c) ==
  /\ Last <= issued /\ (cpc[c] # "idle" => Last >= 1)
  /\ cpc[c] \in {"idle", "release"} => tail = Pos(Last)
  /\ cpc[c] = "advance" => tail = Pos(Last - 1)
  /\ cpc[c] = "wrap" => tail = Capacity /\ Pos(Last) = 0
  /\ \/ Modulus % Capacity = 0 /\ Pos(head) = Pos(issued)
     \/ MaxTickets <= Modulus /\ (issued < MaxTickets => head = issued)

(* size counts who has been let in or is being refused, and every element  *)
(* whose room has not been given back; no more are let in than fit.        *)
Room(c) ==
  /\ size + Released(c) = Cardinality(At(ppc, "reserved")) + Cardinality(At(ppc, "full")) + issued
  /\ Cardinality(At(ppc, "reserved")) + issued <= Capacity + Released(c)

(* A ticket under way is in its slot, or with the one producer that is     *)
(* going to store it there.                                                *)
Tickets ==
  /\ \A i \in Queue!Slots : slots[i] # 0 => slots[i] \in (Last + 1)..issued /\ i = Pos(slots[i] - 1)
  /\ \A p \in At(ppc, "store") :
       /\ slotOf[p].ticket \in (Last + 1)..issued /\ slotOf[p].slot = Pos(slotOf[p].ticket - 1)
       /\ \A i \in Queue!Slots : slots[i] # slotOf[p].ticket
       /\ \A q \in At(ppc, "store") : slotOf[p].ticket = slotOf[q].ticket => p = q

QueueInv(c) ==
  /\ Queue!TypeOK /\ delivered \in Seq(Nat) /\ Queue!InOrder
  /\ Positions(c) /\ Room(c) /\ Tickets

-----------------------------------------------------------------------------
(* Division with remainder, and that quotient and remainder are unique.    *)
LEMMA DivMod ==
  ASSUME NEW C \in Nat \ {0}, NEW k \in Nat
  PROVE  k \div C \in Nat /\ k % C \in 0..(C - 1) /\ k = (k \div C) * C + (k % C)
BY SMT

(* The multiples of C are at least C apart.                                *)
LEMMA Multiples ==
  ASSUME NEW C \in Nat \ {0}, NEW a \in Nat, NEW b \in Nat, a < b
  PROVE  a * C + C <= b * C
<1>1. PICK d \in Nat : b = a + 1 + d
  <2>1. b - a - 1 \in Nat
    OBVIOUS
  <2> QED
    BY <2>1
<1>2. b * C = a * C + C + d * C
  BY <1>1
<1>3. d * C >= 0
  OBVIOUS
<1> QED
  BY <1>2, <1>3

(* The remainder of a number written as a multiple of C and a rest.        *)
LEMMA Remainder ==
  ASSUME NEW C \in Nat \ {0}, NEW q \in Nat, NEW r \in 0..(C - 1)
  PROVE  (q * C + r) % C = r
<1> DEFINE k == q * C + r
<1>1. k \in Nat /\ k = q * C + r
  OBVIOUS
<1> HIDE DEF k
<1>2. PICK x \in Nat, y \in 0..(C - 1) : k = x * C + y /\ k % C = y
  BY <1>1, DivMod
<1>3. ~(q < x) /\ ~(x < q)
  BY <1>1, <1>2, Multiples
<1>4. q = x
  BY <1>3
<1>5. r = k % C
  BY <1>1, <1>2, <1>4
<1> QED
  BY <1>5 DEF k

(* Positions in the ring: the next one, and that positions less than a     *)
(* round apart differ.                                                     *)
LEMMA PosType ==
  ASSUME Capacity \in Nat \ {0}, NEW k \in Nat
  PROVE  Pos(k) \in Queue!Slots
BY DEF Pos, Queue!Slots

(* The position after the next increment, with and without the wrap-       *)
(* around.                                                                 *)
LEMMA PosStep ==
  ASSUME Capacity \in Nat \ {0}, NEW k \in Nat
  PROVE  Pos(k + 1) = IF Pos(k) + 1 = Capacity THEN 0 ELSE Pos(k) + 1
<1> DEFINE q == k \div Capacity
           r == k % Capacity
<1>1. q \in Nat /\ r \in 0..(Capacity - 1) /\ k = q * Capacity + r
  BY DivMod
<1> HIDE DEF q, r
<1>2. CASE r + 1 = Capacity
  <2>1. k + 1 = (q + 1) * Capacity + 0
    BY <1>1, <1>2
  <2>2. (k + 1) % Capacity = 0
    BY <1>1, <2>1, Remainder
  <2> QED
    BY <1>2, <2>2 DEF r, Pos
<1>3. CASE r + 1 # Capacity
  <2>1. k + 1 = q * Capacity + (r + 1) /\ r + 1 \in 0..(Capacity - 1)
    BY <1>1, <1>3
  <2>2. (k + 1) % Capacity = r + 1
    BY <1>1, <2>1, Remainder
  <2> QED
    BY <1>3, <2>2 DEF r, Pos
<1> QED
  BY <1>2, <1>3

(* Tickets less than the capacity apart have different slots.              *)
LEMMA PosInjective ==
  ASSUME Capacity \in Nat \ {0}, NEW j \in Nat, NEW k \in Nat,
         j - k < Capacity, k - j < Capacity, Pos(j) = Pos(k)
  PROVE  j = k
<1>1. /\ k \div Capacity \in Nat /\ k % Capacity \in 0..(Capacity - 1)
      /\ k = (k \div Capacity) * Capacity + (k % Capacity)
      /\ j \div Capacity \in Nat /\ j = (j \div Capacity) * Capacity + (j % Capacity)
  BY DivMod
<1>2. ~((j \div Capacity) < (k \div Capacity)) /\ ~((k \div Capacity) < (j \div Capacity))
  BY <1>1, Multiples DEF Pos
<1> QED
  BY <1>1, <1>2 DEF Pos

(* A producer that comes to a label, or leaves it, changes the number of   *)
(* producers there by one.                                                 *)
LEMMA Counts ==
  ASSUME IsFiniteSet(Producers), ppc \in [Producers -> {"idle", "reserved", "store", "full"}],
         NEW p \in Producers, NEW l, NEW a, ppc[p] = l, a # l, ppc' = [ppc EXCEPT ![p] = a]
  PROVE  /\ Cardinality(At(ppc', l)) = Cardinality(At(ppc, l)) - 1
         /\ Cardinality(At(ppc', a)) = Cardinality(At(ppc, a)) + 1
<1>1. \A b : IsFiniteSet(At(ppc, b)) /\ Cardinality(At(ppc, b)) \in Nat
  <2> TAKE b
  <2>1. At(ppc, b) \in SUBSET Producers
    BY DEF At
  <2>2. IsFiniteSet(At(ppc, b))
    BY <2>1, FS_Subset
  <2> QED
    BY <2>2, FS_CardinalityType
<1>2. /\ At(ppc', l) = At(ppc, l) \ {p} /\ At(ppc', a) = At(ppc, a) \cup {p}
      /\ p \in At(ppc, l) /\ p \notin At(ppc, a)
  BY DEF At
<1>3. Cardinality(At(ppc', l)) = Cardinality(At(ppc, l)) - 1
  BY <1>1, <1>2, FS_RemoveElement
<1>4. Cardinality(At(ppc', a)) = Cardinality(At(ppc, a)) + 1
  BY <1>1, <1>2, FS_AddElement, ZenonT(40)
<1> QED
  BY <1>3, <1>4

-----------------------------------------------------------------------------
(* The invariant implies the two promises of the queue.                    *)
LEMMA SlotOfTicketIsFree ==
  ASSUME NEW c, QueueParameters(c), QueueInv(c)
  PROVE  Queue!SlotIsFree
<1> SUFFICES ASSUME NEW p \in Producers, ppc[p] = "store", slots[slotOf[p].slot] # 0
             PROVE  FALSE
  BY DEF Queue!SlotIsFree
<1> DEFINE i == slotOf[p].slot
           k == slotOf[p].ticket
           j == slots[i]
<1>1. p \in At(ppc, "store") /\ i \in Queue!Slots
  BY DEF At, QueueInv, Queue!TypeOK
<1>2. /\ k \in (Last + 1)..issued /\ i = Pos(k - 1) /\ j # k
      /\ j \in (Last + 1)..issued /\ i = Pos(j - 1)
  BY <1>1 DEF QueueInv, Tickets
<1>3. Last \in Nat /\ issued \in Nat /\ issued - Last <= Capacity
  <2>1. Last \in Nat /\ issued \in Nat
    BY DEF QueueInv, Queue!TypeOK, Last, QueueParameters
  <2>2. Cardinality(At(ppc, "reserved")) \in Nat
    <3>1. At(ppc, "reserved") \in SUBSET Producers
      BY DEF At
    <3> QED
      BY <3>1, FS_Subset, FS_CardinalityType DEF QueueParameters
  <2> QED
    BY <2>1, <2>2 DEF QueueInv, Room, Released, QueueParameters
<1> HIDE DEF i, j, k
<1>4. k - 1 = j - 1
  BY <1>2, <1>3, PosInjective DEF QueueParameters
<1> QED
  BY <1>2, <1>4

(* The invariant holds for the empty queue.                                *)
LEMMA InitQueueInv ==
  ASSUME NEW c, QueueParameters(c), Queue!Init
  PROVE  QueueInv(c)
<1> USE DEF Queue!Init
<1>u. /\ Consumers = {c} /\ Capacity \in Nat \ {0} /\ Modulus \in Nat \ {0} /\ MaxTickets \in Nat
      /\ Modulus % Capacity = 0 \/ MaxTickets <= Modulus
  BY DEF QueueParameters
<1>1. Queue!TypeOK
  BY <1>u DEF Queue!TypeOK, Queue!Slots
<1>2. delivered \in Seq(Nat) /\ Queue!InOrder /\ Last = 0
  BY DEF Queue!InOrder, Last
<1>3. Pos(0) = 0
  <2>1. 0 = 0 * Capacity + 0
    BY <1>u
  <2> QED
    BY <1>u, <2>1, Remainder DEF Pos
<1>4. Positions(c)
  BY <1>u, <1>2, <1>3 DEF Positions
<1>5. At(ppc, "reserved") = {} /\ At(ppc, "full") = {} /\ At(ppc, "store") = {}
  BY DEF At
<1>6. Room(c)
  <2>1. Released(c) = 0
    BY <1>u, <1>2 DEF Released
  <2>2. Cardinality({}) = 0
    BY FS_EmptySet
  <2>3. Cardinality(At(ppc, "reserved")) = 0 /\ Cardinality(At(ppc, "full")) = 0
    BY <1>5, <2>2
  <2>4. size + Released(c) = Cardinality(At(ppc, "reserved")) + Cardinality(At(ppc, "full")) + issued
    BY <2>1, <2>3
  <2>5. Cardinality(At(ppc, "reserved")) + issued <= Capacity + Released(c)
    BY <1>u, <2>1, <2>3
  <2> QED
    BY <2>4, <2>5 DEF Room
<1>7. Tickets
  BY <1>5 DEF Tickets
<1> QED
  BY <1>1, <1>2, <1>4, <1>6, <1>7 DEF QueueInv

(* Every step of a producer and of the consumer preserves the invariant.   *)
LEMMA NextQueueInv ==
  ASSUME NEW c, QueueParameters(c), QueueInv(c), [Queue!Next]_Queue!vars
  PROVE  QueueInv(c)'
<1>u. /\ IsFiniteSet(Producers) /\ Consumers = {c} /\ c \in Consumers
      /\ Capacity \in Nat \ {0} /\ Modulus \in Nat \ {0} /\ MaxTickets \in Nat
  BY DEF QueueParameters
<1>t. /\ Last \in Nat /\ issued \in Nat /\ size \in Nat /\ Last <= issued
      /\ (cpc[c] # "idle" => Last >= 1)
      /\ Cardinality(At(ppc, "reserved")) \in Nat /\ Cardinality(At(ppc, "full")) \in Nat
  <2>1. At(ppc, "reserved") \in SUBSET Producers /\ At(ppc, "full") \in SUBSET Producers
    BY <1>u DEF At
  <2>2. Cardinality(At(ppc, "reserved")) \in Nat /\ Cardinality(At(ppc, "full")) \in Nat
    BY <1>u, <2>1, FS_Subset, FS_CardinalityType
  <2> QED
    BY <1>u, <2>2 DEF QueueInv, Queue!TypeOK, Last, Positions
<1>p. ppc \in [Producers -> {"idle", "reserved", "store", "full"}]
  BY <1>u DEF QueueInv, Queue!TypeOK
<1>f. Released(c) \in Nat
  BY <1>t DEF Released
<1>m. /\ size + Released(c) = Cardinality(At(ppc, "reserved")) + Cardinality(At(ppc, "full")) + issued
      /\ Cardinality(At(ppc, "reserved")) + issued <= Capacity + Released(c)
  BY DEF QueueInv, Room
<1>r. issued - Last <= Capacity
  BY <1>u, <1>t DEF QueueInv, Room, Released
<1>0. CASE UNCHANGED Queue!vars
  BY <1>u, <1>0 DEF Queue!vars, QueueInv, Queue!TypeOK, Queue!InOrder, Positions, Room, Tickets, Last, Released, At
<1>1. ASSUME NEW p \in Producers, Queue!Enqueue(p) PROVE QueueInv(c)'
  <2>1. /\ ppc[p] = "idle" /\ size' = size + 1
        /\ ppc' = [ppc EXCEPT ![p] = IF size >= Capacity THEN "full" ELSE "reserved"]
        /\ UNCHANGED <<head, tail, slots, slotOf, cpc, got, issued, delivered>>
    BY <1>u, <1>1 DEF Queue!Enqueue, Queue!GotoP
  <2>2. Queue!TypeOK'
    BY <1>u, <2>1 DEF QueueInv, Queue!TypeOK
  <2>3. (delivered \in Seq(Nat) /\ Queue!InOrder)' /\ Positions(c)'
    BY <1>u, <2>1 DEF QueueInv, Queue!InOrder, Positions, Last
  <2>4. At(ppc, "store")' = At(ppc, "store")
    BY <1>u, <1>p, <2>1 DEF At
  <2>5. Tickets'
    BY <1>u, <2>1, <2>4 DEF QueueInv, Tickets, Last
  <2>6. CASE size >= Capacity
    <3>1. Cardinality(At(ppc', "full")) = Cardinality(At(ppc, "full")) + 1
      BY <1>u, <1>p, <2>1, <2>6, Counts
    <3>3. At(ppc', "reserved") = At(ppc, "reserved")
      BY <1>p, <2>1, <2>6 DEF At
    <3>4. Released(c)' = Released(c)
      BY <2>1 DEF Released, Last
    <3>2. Room(c)'
      BY <1>u, <1>t, <1>f, <1>m, <2>1, <2>6, <3>1, <3>3, <3>4 DEF Room
    <3> QED
      BY <1>u, <2>2, <2>3, <2>5, <3>2 DEF QueueInv
  <2>7. CASE ~(size >= Capacity)
    <3>1. Cardinality(At(ppc', "reserved")) = Cardinality(At(ppc, "reserved")) + 1
      BY <1>u, <1>p, <2>1, <2>7, Counts
    <3>3. At(ppc', "full") = At(ppc, "full")
      BY <1>p, <2>1, <2>7 DEF At
    <3>4. Released(c)' = Released(c)
      BY <2>1 DEF Released, Last
    <3>2. Room(c)'
      BY <1>u, <1>t, <1>f, <1>m, <2>1, <2>7, <3>1, <3>3, <3>4 DEF Room
    <3> QED
      BY <1>u, <2>2, <2>3, <2>5, <3>2 DEF QueueInv
  <2> QED
    BY <1>u, <2>6, <2>7
<1>2. ASSUME NEW p \in Producers, Queue!EnqueueFull(p) PROVE QueueInv(c)'
  <2>1. /\ ppc[p] = "full" /\ ppc' = [ppc EXCEPT ![p] = "idle"] /\ size' = size - 1
        /\ UNCHANGED <<head, tail, slots, slotOf, cpc, got, issued, delivered>>
    BY <1>u, <1>2 DEF Queue!EnqueueFull, Queue!GotoP
  <2>2. At(ppc', "reserved") = At(ppc, "reserved") /\ At(ppc', "store") = At(ppc, "store")
    BY <1>p, <2>1 DEF At
  <2>9. Cardinality(At(ppc', "full")) = Cardinality(At(ppc, "full")) - 1
    BY <1>u, <2>1, <1>p, Counts
  <2>10. Released(c)' = Released(c)
    BY <2>1 DEF Released, Last
  <2>6. Room(c)'
    BY <1>u, <1>t, <1>f, <1>m, <2>1, <2>2, <2>9, <2>10 DEF Room
  <2>7. Cardinality(At(ppc, "full")) # 0
    <3>1. At(ppc, "full") \in SUBSET Producers /\ p \in At(ppc, "full")
      BY <1>u, <2>1 DEF At
    <3> QED
      BY <1>u, <3>1, FS_Subset, FS_EmptySet
  <2>8. size > 0
    BY <1>u, <1>t, <2>7 DEF QueueInv, Room, Released
  <2>3. Queue!TypeOK' /\ (delivered \in Seq(Nat) /\ Queue!InOrder)' /\ Positions(c)'
    BY <1>u, <1>t, <2>1, <2>8 DEF QueueInv, Queue!TypeOK, Queue!InOrder, Positions, Last
  <2>4. At(ppc, "store")' = At(ppc, "store")
    BY <1>u, <2>2
  <2>5. Tickets'
    BY <1>u, <2>1, <2>4 DEF QueueInv, Tickets, Last
  <2> QED
    BY <1>u, <2>3, <2>5, <2>6 DEF QueueInv
<1>3. ASSUME NEW p \in Producers, Queue!EnqueueSlot(p) PROVE QueueInv(c)'
  <2>1. /\ ppc[p] = "reserved" /\ ppc' = [ppc EXCEPT ![p] = "store"]
        /\ issued < MaxTickets /\ issued' = issued + 1 /\ head' = (head + 1) % Modulus
        /\ slotOf' = [slotOf EXCEPT ![p] = [slot |-> Pos(head), ticket |-> issued + 1]]
        /\ UNCHANGED <<size, tail, slots, cpc, got, delivered>>
    BY <1>u, <1>3 DEF Queue!EnqueueSlot, Queue!GotoP, Pos
  <2>2. At(ppc', "full") = At(ppc, "full")
    BY <1>p, <2>1 DEF At
  <2>9. Cardinality(At(ppc', "reserved")) = Cardinality(At(ppc, "reserved")) - 1
    BY <1>u, <2>1, <1>p, Counts
  <2>h. head \in 0..(Modulus - 1) /\ head \in Nat /\ Pos(head) \in Queue!Slots
    BY <1>u, PosType DEF QueueInv, Queue!TypeOK
  <2>3. Pos(head) = Pos(issued)
    BY <1>u, <2>1 DEF QueueInv, Positions
  <2>4. Queue!TypeOK'
    <3>1. head' \in 0..(Modulus - 1)
      BY <1>u, <2>1, <2>h, DivMod
    <3>2. slotOf' \in [Producers -> [slot : Queue!Slots, ticket : 0..MaxTickets]]
      BY <1>u, <1>t, <2>1, <2>h DEF QueueInv, Queue!TypeOK
    <3> QED
      BY <1>u, <1>t, <2>1, <3>1, <3>2 DEF QueueInv, Queue!TypeOK
  <2>5. Positions(c)'
    <3>1. Last' = Last
      BY <1>u, <2>1 DEF Last
    <3>2. CASE Modulus % Capacity = 0 /\ Pos(head) = Pos(issued)
      <4>1. Pos(head + 1) = Pos(issued + 1)
        BY <1>u, <1>t, <2>h, <3>2, PosStep
      <4>2. head' = IF head + 1 = Modulus THEN 0 ELSE head + 1
        <5>1. CASE head + 1 = Modulus
          <6>1. head + 1 = 1 * Modulus + 0
            BY <1>u, <2>h, <5>1
          <6> QED
            BY <1>u, <2>1, <5>1, <6>1, Remainder
        <5>2. CASE head + 1 # Modulus
          <6>1. head + 1 = 0 * Modulus + (head + 1) /\ head + 1 \in 0..(Modulus - 1)
            BY <1>u, <2>h, <5>2
          <6> QED
            BY <1>u, <2>1, <5>2, <6>1, Remainder
        <5> QED
          BY <1>u, <5>1, <5>2
      <4>3. Pos(0) = 0
        <5>1. 0 = 0 * Capacity + 0
          BY <1>u
        <5> QED
          BY <1>u, <5>1, Remainder DEF Pos
      <4>4. Pos(head') = Pos(issued')
        BY <1>u, <2>1, <3>2, <4>1, <4>2, <4>3 DEF Pos
      <4> QED
        BY <1>u, <1>t, <2>1, <3>1, <3>2, <4>4 DEF QueueInv, Positions
    <3>3. CASE MaxTickets <= Modulus /\ (issued < MaxTickets => head = issued)
      <4>1. issued + 1 < MaxTickets => head' = issued + 1
        <5> HAVE issued + 1 < MaxTickets
        <5>1. head + 1 = 0 * Modulus + (head + 1) /\ head + 1 \in 0..(Modulus - 1) /\ head = issued
          BY <1>u, <1>t, <2>1, <2>h, <3>3
        <5>2. (head + 1) % Modulus = head + 1
          BY <1>u, <5>1, Remainder
        <5> QED
          BY <1>u, <2>1, <5>1, <5>2
      <4> QED
        BY <1>u, <1>t, <2>1, <3>1, <3>3, <4>1 DEF QueueInv, Positions
    <3> QED
      BY <1>u, <3>2, <3>3 DEF QueueInv, Positions
  <2>6. Room(c)'
    BY <1>u, <1>t, <2>1, <2>2, <2>9, SMTT(40) DEF QueueInv, Room, Released, Last
  <2>7. Tickets'
    <3>1. At(ppc, "store")' = At(ppc, "store") \cup {p} /\ p \notin At(ppc, "store") /\ Last' = Last
      BY <1>u, <2>1 DEF At, QueueInv, Queue!TypeOK, Last
    <3>2. slotOf'[p].ticket = issued + 1 /\ slotOf'[p].slot = Pos(slotOf'[p].ticket - 1)
      <4>1. slotOf'[p].ticket = issued + 1 /\ slotOf'[p].slot = Pos(issued)
        BY <2>1, <2>3 DEF QueueInv, Queue!TypeOK
      <4>2. slotOf'[p].ticket - 1 = issued
        BY <1>t, <4>1
      <4> QED
        BY <4>1, <4>2
    <3>3. \A q \in At(ppc, "store") : slotOf'[q] = slotOf[q]
      BY <1>u, <2>1, <3>1 DEF At, QueueInv, Queue!TypeOK
    <3>4. ASSUME NEW i \in Queue!Slots PROVE slots'[i] # issued + 1
      <4>1. slots[i] = 0 \/ slots[i] \in (Last + 1)..issued
        BY DEF QueueInv, Tickets
      <4> QED
        BY <1>t, <2>1, <4>1
    <3>5. ASSUME NEW i \in Queue!Slots, slots'[i] # 0
          PROVE  slots'[i] \in (Last + 1)..(issued + 1) /\ i = Pos(slots'[i] - 1)
      <4>1. slots[i] \in (Last + 1)..issued /\ i = Pos(slots[i] - 1)
        BY <2>1, <3>5 DEF QueueInv, Tickets
      <4> QED
        BY <1>t, <2>1, <4>1
    <3>6. ASSUME NEW q \in At(ppc, "store")
          PROVE  /\ slotOf'[q].ticket \in (Last + 1)..issued /\ slotOf'[q].slot = Pos(slotOf'[q].ticket - 1)
                 /\ \A i \in Queue!Slots : slots'[i] # slotOf'[q].ticket
                 /\ \A r \in At(ppc, "store") : slotOf'[q].ticket = slotOf'[r].ticket => q = r
      BY <2>1, <3>3 DEF QueueInv, Tickets
    <3>7. ASSUME NEW q \in At(ppc, "store")
          PROVE  slotOf'[q].ticket \in (Last + 1)..(issued + 1) /\ slotOf'[q].ticket # issued + 1
      BY <1>t, <3>6
    <3>8. \A q \in At(ppc, "store")' : slotOf'[q].ticket \in (Last + 1)..(issued + 1)
      BY <1>t, <3>1, <3>2, <3>7
    <3>9. \A q, r \in At(ppc, "store")' : slotOf'[q].ticket = slotOf'[r].ticket => q = r
      BY <3>1, <3>2, <3>6, <3>7
    <3>10. \A q \in At(ppc, "store")' : slotOf'[q].slot = Pos(slotOf'[q].ticket - 1)
      BY <3>1, <3>2, <3>6
    <3>11. \A q \in At(ppc, "store")' : \A i \in Queue!Slots : slots'[i] # slotOf'[q].ticket
      BY <3>1, <3>2, <3>4, <3>6
    <3> QED
      BY <2>1, <3>1, <3>5, <3>8, <3>9, <3>10, <3>11 DEF Tickets
  <2> QED
    BY <1>u, <2>1, <2>4, <2>5, <2>6, <2>7 DEF QueueInv, Queue!InOrder
<1>4. ASSUME NEW p \in Producers, Queue!EnqueueStore(p) PROVE QueueInv(c)'
  <2> DEFINE k == slotOf[p].ticket
             i == slotOf[p].slot
  <2>1. /\ ppc[p] = "store" /\ ppc' = [ppc EXCEPT ![p] = "idle"] /\ slots[i] = 0
        /\ slots' = [slots EXCEPT ![i] = k]
        /\ UNCHANGED <<size, head, tail, slotOf, cpc, got, issued, delivered>>
    BY <1>u, <1>4 DEF Queue!EnqueueStore, Queue!GotoP
  <2>2. At(ppc', "reserved") = At(ppc, "reserved") /\ At(ppc', "full") = At(ppc, "full")
    BY <1>u, <2>1, <1>p DEF At
  <2>3. Queue!TypeOK' /\ (delivered \in Seq(Nat) /\ Queue!InOrder)' /\ Positions(c)'
    BY <1>u, <2>1 DEF QueueInv, Queue!TypeOK, Queue!InOrder, Positions, Last
  <2>4. Room(c)'
    BY <1>u, <2>1, <2>2 DEF QueueInv, Room, Released, Last
  <2>5. Tickets'
    <3>1. /\ At(ppc, "store")' = At(ppc, "store") \ {p} /\ p \in At(ppc, "store") /\ Last' = Last
          /\ i \in Queue!Slots /\ slots \in [Queue!Slots -> 0..MaxTickets]
      BY <1>u, <2>1 DEF At, QueueInv, Queue!TypeOK, Last
    <3>2. k \in (Last + 1)..issued /\ i = Pos(k - 1)
      BY <1>u, <3>1 DEF QueueInv, Tickets
    <3>3. ASSUME NEW x \in Queue!Slots, slots'[x] # 0
          PROVE  slots'[x] \in (Last + 1)..issued /\ x = Pos(slots'[x] - 1)
      BY <1>u, <2>1, <3>1, <3>2, <3>3 DEF QueueInv, Tickets
    <3>4. ASSUME NEW q \in At(ppc, "store"), q # p, NEW x \in Queue!Slots PROVE slots'[x] # slotOf[q].ticket
      BY <1>u, <2>1, <3>1, <3>4 DEF QueueInv, Tickets
    <3> QED
      BY <1>u, <2>1, <3>1, <3>3, <3>4 DEF QueueInv, Tickets
  <2> QED
    BY <1>u, <2>3, <2>4, <2>5 DEF QueueInv
<1>5. ASSUME Queue!Dequeue(c) PROVE QueueInv(c)'
  <2>1. /\ cpc[c] = "idle" /\ tail < Capacity /\ slots[tail] # 0
        /\ got' = [got EXCEPT ![c] = slots[tail]] /\ slots' = [slots EXCEPT ![tail] = 0]
        /\ delivered' = Append(delivered, slots[tail]) /\ cpc' = [cpc EXCEPT ![c] = "advance"]
        /\ UNCHANGED <<size, head, tail, ppc, slotOf, issued>>
    BY <1>u, <1>5 DEF Queue!Dequeue, Queue!GotoC
  <2>2. tail \in Queue!Slots /\ tail = Pos(Last)
    BY <1>u, <2>1 DEF QueueInv, Queue!TypeOK, Queue!Slots, Positions
  <2>3. /\ slots[tail] \in (Last + 1)..issued /\ tail = Pos(slots[tail] - 1)
    BY <1>u, <2>1, <2>2 DEF QueueInv, Tickets
  <2>4. slots[tail] = Last + 1
    <3> DEFINE j == slots[tail] - 1
    <3>1. j \in Nat /\ Pos(j) = Pos(Last) /\ j - Last < Capacity /\ Last - j < Capacity
      BY <1>u, <1>t, <1>r, <2>2, <2>3
    <3> HIDE DEF j
    <3>2. j = Last
      BY <1>u, <1>t, <3>1, PosInjective
    <3> QED
      BY <1>u, <1>t, <2>3, <3>2 DEF j
  <2>5. Last' = Last + 1 /\ delivered' \in Seq(Nat) /\ Queue!InOrder'
    <3>1. Len(delivered') = Len(delivered) + 1 /\ delivered' \in Seq(Nat) /\ Len(delivered) \in Nat
      BY <1>u, <1>t, <2>1, <2>4 DEF QueueInv, Last
    <3>2. \A x \in 1..Len(delivered') : delivered'[x] = x
      <4> TAKE x \in 1..Len(delivered')
      <4>1. CASE x = Len(delivered) + 1
        BY <1>u, <2>1, <2>4, <3>1, <4>1 DEF QueueInv, Last
      <4>2. CASE x # Len(delivered) + 1
        <5>1. x \in 1..Len(delivered)
          BY <1>u, <3>1, <4>2
        <5>2. delivered[x] = x
          BY <1>u, <5>1 DEF QueueInv, Queue!InOrder
        <5> QED
          BY <1>u, <2>1, <3>1, <5>1, <5>2 DEF QueueInv
      <4> QED
        BY <1>u, <4>1, <4>2
    <3> QED
      BY <1>u, <3>1, <3>2 DEF Queue!InOrder, Last
  <2>6. Queue!TypeOK'
    BY <1>u, <1>t, <2>1, <2>2 DEF QueueInv, Queue!TypeOK
  <2>7. Positions(c)'
    <3>1. Last + 1 <= issued /\ cpc'[c] = "advance" /\ Last' - 1 = Last
      BY <1>u, <1>t, <2>1, <2>3, <2>5 DEF QueueInv, Queue!TypeOK
    <3> QED
      BY <1>u, <1>t, <2>1, <2>2, <2>5, <3>1 DEF QueueInv, Positions
  <2>8. Room(c)'
    <3>1. Released(c)' = Released(c)
      BY <1>u, <1>t, <2>1, <2>5 DEF Released, QueueInv, Queue!TypeOK
    <3>2. \A b : At(ppc, b)' = At(ppc, b)
      BY <1>u, <2>1 DEF At
    <3> QED
      BY <1>u, <2>1, <3>1, <3>2 DEF QueueInv, Room
  <2>9. Tickets'
    <3>1. At(ppc, "store")' = At(ppc, "store") /\ slots \in [Queue!Slots -> 0..MaxTickets]
      BY <1>u, <2>1 DEF At, QueueInv, Queue!TypeOK
    <3>2. ASSUME NEW x \in Queue!Slots, slots'[x] # 0
          PROVE  slots'[x] \in (Last + 2)..issued /\ x = Pos(slots'[x] - 1)
      <4>1. x # tail /\ slots'[x] = slots[x]
        BY <1>u, <2>1, <2>2, <3>1, <3>2
      <4>2. slots[x] \in (Last + 1)..issued /\ x = Pos(slots[x] - 1)
        BY <1>u, <3>2, <4>1 DEF QueueInv, Tickets
      <4>3. slots[x] # Last + 1
        BY <1>u, <1>t, <2>2, <4>1, <4>2
      <4> QED
        BY <1>u, <1>t, <4>1, <4>2, <4>3
    <3>3. ASSUME NEW q \in At(ppc, "store")
          PROVE  slotOf[q].ticket \in (Last + 2)..issued /\ \A x \in Queue!Slots : slots'[x] # slotOf[q].ticket
      <4>1. /\ slotOf[q].ticket \in (Last + 1)..issued
            /\ \A x \in Queue!Slots : slots[x] # slotOf[q].ticket
        BY <1>u DEF QueueInv, Tickets
      <4>2. slotOf[q].ticket # Last + 1
        BY <1>u, <2>2, <2>4, <4>1
      <4> QED
        BY <1>u, <1>t, <2>1, <2>2, <3>1, <4>1, <4>2
    <3> QED
      BY <1>u, <1>t, <2>1, <2>5, <3>1, <3>2, <3>3 DEF QueueInv, Tickets
  <2> QED
    BY <1>u, <2>5, <2>6, <2>7, <2>8, <2>9 DEF QueueInv
<1> DEFINE Same == UNCHANGED <<slots, ppc, slotOf, issued, delivered, head>>
<1>s. ASSUME Same PROVE Tickets' /\ (delivered \in Seq(Nat) /\ Queue!InOrder)' /\ \A b : At(ppc, b)' = At(ppc, b)
  BY <1>u, <1>s DEF QueueInv, Tickets, Queue!InOrder, At, Last
<1>6. ASSUME Queue!DequeueAdvance(c) PROVE QueueInv(c)'
  <2>1. /\ cpc[c] = "advance" /\ tail' = tail + 1 /\ Same /\ UNCHANGED <<size, got>>
        /\ cpc' = [cpc EXCEPT ![c] = IF tail + 1 >= Capacity THEN "wrap" ELSE "release"]
    BY <1>u, <1>6 DEF Queue!DequeueAdvance, Queue!GotoC
  <2>2. tail = Pos(Last - 1) /\ tail \in Queue!Slots /\ Last' = Last
    BY <1>u, <1>t, <2>1, PosType DEF QueueInv, Positions, Last
  <2>3. Pos(Last) = IF tail + 1 = Capacity THEN 0 ELSE tail + 1
    <3>1. Last - 1 \in Nat /\ (Last - 1) + 1 = Last
      BY <1>u, <1>t, <2>1
    <3> QED
      BY <1>u, <2>2, <3>1, PosStep
  <2>4. Queue!TypeOK'
    BY <1>u, <2>1, <2>2 DEF QueueInv, Queue!TypeOK, Queue!Slots
  <2>5. Positions(c)'
    <3>1. CASE tail + 1 >= Capacity
      <4>1. cpc'[c] = "wrap" /\ tail' = Capacity /\ Pos(Last) = 0
        BY <1>u, <1>t, <2>1, <2>2, <2>3, <3>1 DEF QueueInv, Queue!TypeOK, Queue!Slots
      <4> QED
        BY <1>u, <1>t, <2>1, <2>2, <4>1 DEF QueueInv, Positions
    <3>2. CASE ~(tail + 1 >= Capacity)
      <4>1. cpc'[c] = "release" /\ tail' = Pos(Last)
        BY <1>u, <1>t, <2>1, <2>2, <2>3, <3>2 DEF QueueInv, Queue!TypeOK, Queue!Slots
      <4> QED
        BY <1>u, <1>t, <2>1, <2>2, <4>1 DEF QueueInv, Positions
    <3> QED
      BY <1>u, <3>1, <3>2
  <2>6. Room(c)'
    BY <1>u, <1>t, <1>s, <2>1, <2>2 DEF QueueInv, Queue!TypeOK, Room, Released
  <2> QED
    BY <1>u, <1>s, <2>1, <2>4, <2>5, <2>6 DEF QueueInv
<1>7. ASSUME Queue!DequeueWrap(c) PROVE QueueInv(c)'
  <2>1. /\ cpc[c] = "wrap" /\ tail' = 0 /\ Same /\ UNCHANGED <<size, got>>
        /\ cpc' = [cpc EXCEPT ![c] = "release"]
    BY <1>u, <1>7 DEF Queue!DequeueWrap, Queue!GotoC
  <2>2. Pos(Last) = 0 /\ Last' = Last /\ cpc'[c] = "release"
    BY <1>u, <2>1, <1>t DEF QueueInv, Queue!TypeOK, Positions, Last
  <2>3. Queue!TypeOK'
    BY <1>u, <2>1 DEF QueueInv, Queue!TypeOK
  <2>4. Positions(c)'
    BY <1>u, <1>t, <2>1, <2>2 DEF QueueInv, Positions
  <2>5. Room(c)'
    BY <1>u, <1>t, <1>s, <2>1, <2>2 DEF QueueInv, Queue!TypeOK, Room, Released
  <2> QED
    BY <1>u, <1>s, <2>1, <2>3, <2>4, <2>5 DEF QueueInv
<1>8. ASSUME Queue!DequeueRelease(c) PROVE QueueInv(c)'
  <2>1. /\ cpc[c] = "release" /\ size > 0 /\ size' = size - 1 /\ Same /\ UNCHANGED tail
        /\ got' = [got EXCEPT ![c] = 0] /\ cpc' = [cpc EXCEPT ![c] = "idle"]
    BY <1>u, <1>8 DEF Queue!DequeueRelease, Queue!GotoC
  <2>2. Last' = Last /\ cpc'[c] = "idle" /\ tail = Pos(Last)
    BY <1>u, <2>1, <1>t DEF QueueInv, Queue!TypeOK, Positions, Last
  <2>3. Queue!TypeOK'
    BY <1>u, <1>t, <2>1 DEF QueueInv, Queue!TypeOK
  <2>4. Positions(c)'
    BY <1>u, <1>t, <2>1, <2>2 DEF QueueInv, Positions
  <2>5. Room(c)'
    BY <1>u, <1>t, <1>s, <2>1, <2>2, SMTT(40) DEF QueueInv, Queue!TypeOK, Room, Released
  <2> QED
    BY <1>u, <1>s, <2>1, <2>3, <2>4, <2>5 DEF QueueInv
<1> QED
  BY <1>u, <1>0, <1>1, <1>2, <1>3, <1>4, <1>5, <1>6, <1>7, <1>8 DEF Queue!Next, Queue!ProducerStep, Queue!ConsumerStep

(* The assertion of mpsc_enqueue never fails and elements come out once    *)
(* each in the order of their slots, whatever the number of producers, the *)
(* capacity and the number of elements, for a queue with one consumer.     *)
THEOREM LocksQueueExact ==
  ASSUME NEW c, QueueParameters(c)
  PROVE  Queue!Spec => []QueueExact
<1>1. Queue!Init => QueueInv(c)
  BY InitQueueInv
<1>2. QueueInv(c) /\ [Queue!Next]_Queue!vars => QueueInv(c)'
  BY NextQueueInv
<1>3. QueueInv(c) => QueueExact
  BY SlotOfTicketIsFree DEF QueueInv, QueueExact, Queue!QueueExact
<1> QED
  BY <1>1, <1>2, <1>3, PTL DEF Queue!Spec
=============================================================================
