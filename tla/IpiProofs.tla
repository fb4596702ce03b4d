------------------------------ MODULE IpiProofs -----------------------------
(***************************************************************************)
(* The TLB shootdown is complete and its messages are counted exactly, for *)
(* any number of CPUs, pages and address spaces.                           *)
(***************************************************************************)
EXTENDS Ipi, FiniteSetTheorems, WellFoundedInduction, TLAPS

Outside == {"boot", "spin", "run", "enter", "switch", "load"}
Flushing == {"scan", "alloc", "count", "post", "self", "wait"}

(* Where a CPU is says what its part of the state looks like.              *)
Phases ==
  \A c \in Cpus :
    /\ c \notin todo[c]
    /\ pc[c] \in Outside => page[c] = Null /\ mine[c] = Null /\ todo[c] = {}
    /\ pc[c] = "scan" => page[c] \in UserVms
    /\ pc[c] = "alloc" => /\ mine[c] = Null /\ todo[c] # {}
                          /\ page[c] \notin UserVms => todo[c] = Cpus \ {c}
    /\ pc[c] = "count" => mine[c] # Null /\ page[c] \in UserVms /\ todo[c] # {}
    /\ pc[c] = "post" => mine[c] # Null /\ todo[c] # {}
    /\ pc[c] = "self" => mine[c] # Null /\ page[c] \in KernelPages
    /\ pc[c] = "wait" => page[c] # Null
    /\ pc[c] \in {"self", "wait", "halted"} => todo[c] = {}

(* The page directory is that of the current task where user addresses are *)
(* used, and a flush is called in the address space it is about.           *)
Spaces ==
  /\ active <=> pc[0] # "boot"
  /\ \A c \in Cpus :
    /\ ~active => pc[c] \in {"boot", "spin"}
    /\ pc[c] \in {"boot", "spin"} => cur[c] = Null
    /\ pc[c] \in {"load", "enter"} => cur[c] # Null
    /\ pc[c] \in Flushing \cup {"run"} => cur[c] = cr3[c]
    /\ pc[c] \in Flushing /\ page[c] \in UserVms => cur[c] = page[c]

(* A page is flushed by one CPU, and a message is as its owner made it and *)
(* on its way only to CPUs the owner has done with.                        *)
Flushes ==
  /\ \A c, d \in Cpus : page[c] = page[d] /\ page[c] # Null => c = d
  /\ \A c \in Cpus : page[c] # Null => page[c] \in pending
Messages ==
  /\ \A c \in Cpus : mine[c] # Null =>
       /\ msg[mine[c]].page = page[c]
       /\ msg[mine[c]].type = IF page[c] = Null THEN "HALT" ELSE "FLUSH_TLB"
       /\ \A d \in Holders(queue, ack, mine[c]) : d # c /\ d \notin todo[c]
  /\ \A c \in Cpus : ack[c] # Null => msg[ack[c]].type = "FLUSH_TLB"

(* An old translation waits to be flushed: its CPU is still to be told, or *)
(* has the message on its queue, or flushes it itself next.                *)
Waits(d, c) == d \in todo[c] \/ In(queue[d], mine[c])
               \/ (d = c /\ pc[c] \in {"scan", "alloc", "count", "post", "self"})
Loaded(d) == pc[d] \in Flushing \cup {"run"}
Stales ==
  \A d \in Cpus :
    /\ pc[d] \notin {"boot", "spin"} => Identity \notin stale[d]
    /\ \A p \in stale[d] \cap UserVms : cr3[d] = p
    /\ \A p \in stale[d] : p \in KernelPages \/ (p \in UserVms /\ Loaded(d)) =>
         p \in pending /\ \A c \in Cpus : page[c] = p => Waits(d, c)

IpiInv == TypeOK /\ Phases /\ Spaces /\ RefsExact /\ Flushes /\ Messages /\ Stales
-----------------------------------------------------------------------------
(* Sequences that are queues of messages.                                  *)
LEMMA InAppend ==
  ASSUME NEW S, NEW q \in Seq(S), NEW x \in S
  PROVE  /\ Append(q, x) \in Seq(S)
         /\ \A m : In(Append(q, x), m) <=> In(q, m) \/ m = x
         /\ Once(q) /\ ~In(q, x) => Once(Append(q, x))
<1>1. /\ Append(q, x) \in Seq(S) /\ Len(Append(q, x)) = Len(q) + 1 /\ Len(q) \in Nat
      /\ \A i \in 1..Len(q) : Append(q, x)[i] = q[i]
      /\ Append(q, x)[Len(q) + 1] = x
  OBVIOUS
<1> DEFINE r == Append(q, x)
<1> HIDE DEF r
<1>2. r \in Seq(S) /\ Len(r) = Len(q) + 1 /\ (\A i \in 1..Len(q) : r[i] = q[i]) /\ r[Len(q) + 1] = x
  BY <1>1 DEF r
<1>3. \A i \in 1..Len(r) : i \in 1..Len(q) \/ i = Len(q) + 1
  BY <1>1, <1>2
<1>4. \A m : In(r, m) <=> In(q, m) \/ m = x
  BY <1>1, <1>2, <1>3 DEF In
<1>5. Once(q) /\ ~In(q, x) => Once(r)
  BY <1>1, <1>2, <1>3 DEF In, Once
<1> QED
  BY <1>2, <1>4, <1>5 DEF r

(* Taking the first message of a queue that holds each once removes it.    *)
LEMMA InTail ==
  ASSUME NEW S, NEW q \in Seq(S), q # <<>>
  PROVE  /\ Tail(q) \in Seq(S) /\ Head(q) \in S /\ In(q, Head(q)) /\ Len(Tail(q)) < Len(q)
         /\ Once(q) => /\ Once(Tail(q)) /\ ~In(Tail(q), Head(q))
                       /\ \A m : In(Tail(q), m) <=> In(q, m) /\ m # Head(q)
<1>1. /\ Tail(q) \in Seq(S) /\ Len(Tail(q)) = Len(q) - 1 /\ Len(q) \in Nat \ {0}
      /\ \A i \in 1..(Len(q) - 1) : Tail(q)[i] = q[i + 1]
      /\ Head(q) = q[1] /\ q[1] \in S
  OBVIOUS
<1> DEFINE r == Tail(q)
<1> HIDE DEF r
<1>2. r \in Seq(S) /\ Len(r) = Len(q) - 1 /\ \A i \in 1..Len(r) : r[i] = q[i + 1] /\ i + 1 \in 1..Len(q)
  BY <1>1 DEF r
<1>3. \A i \in 1..Len(q) : i = 1 \/ (i - 1 \in 1..Len(r) /\ q[i] = r[i - 1])
  BY <1>1, <1>2
<1>4. In(q, Head(q))
  BY <1>1 DEF In
<1>5. ASSUME Once(q) PROVE Once(r)
  BY <1>1, <1>2, <1>5 DEF Once
<1>6. ASSUME Once(q) PROVE ~In(r, Head(q))
  BY <1>1, <1>2, <1>6 DEF Once, In
<1>7. ASSUME Once(q), NEW m PROVE In(r, m) <=> In(q, m) /\ m # Head(q)
  <2>1. In(r, m) => In(q, m)
    BY <1>2 DEF In
  <2>2. In(q, m) /\ m # Head(q) => In(r, m)
    BY <1>1, <1>3 DEF In
  <2> QED
    BY <1>6, <1>7, <2>1, <2>2
<1> QED
  BY <1>1, <1>2, <1>4, <1>5, <1>6, <1>7 DEF r

(* The CPUs are finitely many and a non-empty set of them has a least.     *)
LEMMA CpusFinite ==
  /\ IsFiniteSet(Cpus) /\ Cardinality(Cpus) = NumCpus /\ 0 \in Cpus /\ Cpus \subseteq Nat
  /\ \A S \in SUBSET Cpus : IsFiniteSet(S) /\ Cardinality(S) \in Nat
<1>1. IsFiniteSet(Cpus) /\ Cardinality(Cpus) = NumCpus
  BY NumCpusAssumption, FS_Interval DEF Cpus
<1>2. 0 \in Cpus /\ Cpus \subseteq Nat
  BY NumCpusAssumption DEF Cpus
<1>3. \A S \in SUBSET Cpus : IsFiniteSet(S) /\ Cardinality(S) \in Nat
  BY <1>1, FS_Subset, FS_CardinalityType
<1> QED
  BY <1>1, <1>2, <1>3

(* The CPU the loops of flush_tlb_range come to next is one they still     *)
(* have to tell.                                                           *)
LEMMA MinIsMember ==
  ASSUME NEW S \in SUBSET Cpus, S # {}
  PROVE  Min(S) \in S
<1>1. S \subseteq Nat
  BY CpusFinite
<1>2. PICK u \in S : \A v \in S : ~(<<v, u>> \in OpToRel(<, Nat))
  BY <1>1, NatLessThanWellFounded, WFMin
<1>3. ASSUME NEW v \in S PROVE u <= v
  <2>1. u \in Nat /\ v \in Nat
    BY <1>1
  <2>2. v < u => <<v, u>> \in OpToRel(<, Nat)
    BY <2>1 DEF OpToRel
  <2>3. ~(v < u)
    BY <1>2, <2>2, Zenon
  <2> QED
    BY <2>1, <2>3
<1> QED
  BY <1>3 DEF Min
-----------------------------------------------------------------------------
(* What the invariant says about the safety of the shootdown.              *)
LEMMA OthersAreFewer ==
  ASSUME NEW c \in Cpus
  PROVE  IsFiniteSet(Cpus \ {c}) /\ Cardinality(Cpus \ {c}) = NumCpus - 1
BY CpusFinite, FS_RemoveElement

(* There is another CPU to tell: messages exist only with SMP.             *)
LEMMA OthersExist ==
  ASSUME NEW c \in Cpus
  PROVE  Cpus \ {c} # {}
<1>1. 0 \in Cpus /\ 1 \in Cpus
  BY NumCpusAssumption DEF Cpus
<1> QED
  BY <1>1

(* Who has a message has it from another CPU.                              *)
LEMMA HeldIsOwned ==
  ASSUME IpiInv, NEW c \in Cpus, NEW m \in Msgs, c \in Holders(queue, ack, m)
  PROVE  \E d \in Cpus \ {c} : mine[d] = m
<1>1. ~In(pool, m)
  BY DEF IpiInv, RefsExact, PoolExact
<1>2. PICK d \in Cpus : mine[d] = m
  BY <1>1 DEF IpiInv, RefsExact, PoolExact
<1>3. mine[d] # Null
  BY <1>2, PagesAssumption DEF Msgs
<1>4. c # d
  BY <1>2, <1>3 DEF IpiInv, Messages
<1> QED
  BY <1>2, <1>4

(* The pool has a message for a CPU that asks, and a queue has room, by    *)
(* counting: every message taken has an owner of its own, and everything   *)
(* on a queue is from another CPU.                                         *)
LEMMA InvNeverFull ==
  ASSUME IpiInv
  PROVE  NeverFull
<1>t. pool \in Seq(Msgs) /\ queue \in [Cpus -> Seq(Msgs)] /\ NumCpus \in Nat
  BY NumCpusAssumption DEF IpiInv, TypeOK
<1>1. ASSUME NEW c \in Cpus, pc[c] = "alloc", pool = <<>> PROVE FALSE
  <2>1. ASSUME NEW m \in Msgs PROVE \E d \in Cpus \ {c} : mine[d] = m
    <3>1. ~In(pool, m)
      BY <1>1 DEF In
    <3>2. PICK d \in Cpus : mine[d] = m
      BY <3>1 DEF IpiInv, RefsExact, PoolExact
    <3>3. mine[c] = Null /\ m # Null
      BY <1>1, PagesAssumption DEF IpiInv, Phases, Msgs
    <3> QED
      BY <3>2, <3>3
  <2> DEFINE f == [m \in Msgs |-> CHOOSE d \in Cpus \ {c} : mine[d] = m]
  <2>2. f \in [Msgs -> Cpus \ {c}] /\ \A m \in Msgs : mine[f[m]] = m
    BY <2>1
  <2>3. IsFiniteSet(Msgs) /\ Cardinality(Msgs) = NumCpus
    BY <1>t, FS_Interval, NumCpusAssumption DEF Msgs
  <2> HIDE DEF f
  <2>4. Cardinality(Cpus \ {c}) < Cardinality(Msgs)
    <3>1. Cardinality(Cpus \ {c}) = NumCpus - 1
      BY OthersAreFewer
    <3> QED
      BY <1>t, <2>3, <3>1
  <2>5. \E x, y \in Msgs : x # y /\ f[x] = f[y]
    BY <2>2, <2>3, <2>4, OthersAreFewer, FS_PigeonHole
  <2> QED
    BY <2>2, <2>5
<1>2. ASSUME NEW c \in Cpus, ~(Len(queue[c]) < NumCpus) PROVE FALSE
  <2> DEFINE q == queue[c]
             I == 1..Len(q)
             f == [i \in I |-> CHOOSE d \in Cpus \ {c} : mine[d] = q[i]]
  <2>1. q \in Seq(Msgs) /\ Len(q) \in Nat /\ Len(q) >= NumCpus
    BY <1>t, <1>2
  <2>2. ASSUME NEW i \in I PROVE \E d \in Cpus \ {c} : mine[d] = q[i]
    <3>1. q[i] \in Msgs /\ In(q, q[i])
      BY <2>1 DEF In
    <3>2. c \in Holders(queue, ack, q[i])
      BY <3>1 DEF Holders
    <3> QED
      BY <3>1, <3>2, HeldIsOwned
  <2>3. f \in [I -> Cpus \ {c}] /\ \A i \in I : mine[f[i]] = q[i]
    BY <2>2
  <2>6. Once(q)
    BY DEF IpiInv, RefsExact, OnQueuesOnce
  <2> HIDE DEF f, q
  <2>4. IsFiniteSet(I) /\ Cardinality(I) = Len(q)
    <3>1. Len(q) >= 1
      BY <2>1, NumCpusAssumption
    <3>2. IsFiniteSet(1..Len(q)) /\ Cardinality(1..Len(q)) = IF 1 > Len(q) THEN 0 ELSE Len(q) - 1 + 1
      BY <2>1, FS_Interval
    <3> QED
      BY <2>1, <3>1, <3>2
  <2> HIDE DEF I
  <2>5. Cardinality(Cpus \ {c}) < Cardinality(I)
    <3>1. Cardinality(Cpus \ {c}) = NumCpus - 1
      BY OthersAreFewer
    <3> QED
      BY <1>t, <2>1, <2>4, <3>1
  <2>7. \E x, y \in I : x # y /\ f[x] = f[y]
    BY <2>3, <2>4, <2>5, OthersAreFewer, FS_PigeonHole
  <2>8. PICK x \in I, y \in I : x # y /\ f[x] = f[y]
    BY <2>7
  <2>9. q[x] = q[y]
    BY <2>3, <2>8
  <2> QED
    BY <2>6, <2>8, <2>9 DEF Once, I
<1> QED
  BY <1>1, <1>2 DEF NeverFull

(* The invariant implies the property that the runs check.                 *)
LEMMA InvShootdownSafe ==
  ASSUME IpiInv
  PROVE  ShootdownSafe
<1>1. ASSUME NEW c \in Cpus, pc[c] \notin {"boot", "spin"}
      PROVE  /\ Identity \notin stale[c] /\ stale[c] \cap KernelPages \subseteq pending
             /\ pc[c] \notin {"switch", "load", "enter", "halted"} => stale[c] \subseteq pending
  <2>1. Identity \notin stale[c] /\ stale[c] \cap KernelPages \subseteq pending
    BY <1>1 DEF IpiInv, Stales
  <2>2. ASSUME pc[c] \notin {"switch", "load", "enter", "halted"}, NEW p \in stale[c]
        PROVE  p \in pending
    <3>1. Loaded(c)
      BY <1>1, <2>2 DEF Loaded, Flushing, IpiInv, TypeOK, Pcs
    <3>2. p \in KernelPages \/ p \in UserVms
      BY <2>1 DEF IpiInv, TypeOK, Pages
    <3> QED
      BY <3>1, <3>2 DEF IpiInv, Stales
  <2> QED
    BY <2>1, <2>2
<1>2. FlushComplete
  BY <1>1 DEF FlushComplete
<1> QED
  BY <1>2, InvNeverFull DEF ShootdownSafe, IpiInv

(* It holds when smp_start waits for the other CPUs.                       *)
LEMMA InitIpiInv ==
  ASSUME Init
  PROVE  IpiInv
<1> USE DEF Init
<1>1. pool \in Seq(Msgs) /\ Len(pool) = NumCpus /\ \A i \in Msgs : pool[i] = i
  BY NumCpusAssumption DEF Msgs
<1>2. TypeOK
  <2>1. ready \in Nat /\ modified \in 0..MaxModified
    BY BoundsAssumption
  <2>2. msg \in [Msgs -> [type : {"HALT", "FLUSH_TLB"}, page : Pages \cup {Null}, refs : Nat]]
    OBVIOUS
  <2>3. /\ pending \subseteq Pages /\ stale \in [Cpus -> SUBSET (Pages \cup {Identity})]
        /\ cr3 \in [Cpus -> Vms] /\ cur \in [Cpus -> Vms \cup {Null}]
    BY DEF Vms
  <2>5. queue \in [Cpus -> Seq(Msgs)] /\ active \in BOOLEAN
    <3>1. <<>> \in Seq(Msgs)
      OBVIOUS
    <3> QED
      BY <3>1
  <2>4. /\ ack \in [Cpus -> Msgs \cup {Null}] /\ pc \in [Cpus -> Pcs]
        /\ page \in [Cpus -> Pages \cup {Null}] /\ mine \in [Cpus -> Msgs \cup {Null}]
        /\ todo \in [Cpus -> SUBSET Cpus]
    BY DEF Pcs
  <2> QED
    BY <1>1, <2>1, <2>2, <2>3, <2>4, <2>5 DEF TypeOK
<1>3. Phases /\ Spaces
  BY CpusFinite DEF Phases, Spaces, Outside, Flushing
<1>4. \A m : Holders(queue, ack, m) = {} \/ m = Null
  BY DEF Holders, In
<1>5. OnQueuesOnce
  BY DEF OnQueuesOnce, Once, In
<1>6. PoolExact
  <2>1. Null \notin Msgs
    BY PagesAssumption DEF Msgs
  <2>2. Once(pool) /\ \A m \in Msgs : In(pool, m)
    BY <1>1 DEF Once, In, Msgs
  <2> QED
    BY <1>4, <2>1, <2>2 DEF PoolExact
<1>7. CountsExact /\ Flushes /\ Messages
  BY DEF CountsExact, Flushes, Messages
<1>8. Stales
  BY DEF Stales
<1> QED
  BY <1>2, <1>3, <1>5, <1>6, <1>7, <1>8 DEF IpiInv, RefsExact
-----------------------------------------------------------------------------
(* A step of the scheduler on one CPU leaves messages and flushes alone.   *)
MessageVars == <<pool, msg, queue, ack, page, mine, todo, pending>>

(* Such a step keeps the parts of the invariant about messages and phases. *)
LEMMA OutsideStep ==
  ASSUME IpiInv, NEW c \in Cpus, pc[c] \in Outside, NEW l \in Outside,
         pc' = [pc EXCEPT ![c] = l], UNCHANGED MessageVars
  PROVE  RefsExact' /\ Flushes' /\ Messages' /\ Phases'
<1> USE DEF MessageVars
<1>1. \A d \in Cpus : pc'[d] = "post" <=> pc[d] = "post"
  BY DEF Outside, IpiInv, TypeOK
<1>2. OnQueuesOnce' /\ PoolExact'
  BY DEF IpiInv, RefsExact, OnQueuesOnce, PoolExact
<1>3. CountsExact'
  BY <1>1 DEF IpiInv, RefsExact, CountsExact, Owed
<1>4. Flushes' /\ Messages'
  BY DEF IpiInv, Flushes, Messages
<1>5. Phases'
  BY DEF IpiInv, TypeOK, Phases, Outside
<1> QED
  BY <1>2, <1>3, <1>4, <1>5 DEF RefsExact

(* ap_start up to the wait for smp_active.                                 *)
LEMMA StepApReady ==
  ASSUME IpiInv, NEW c \in Cpus, ApReady(c)
  PROVE  IpiInv'
<1>1. /\ pc[c] = "boot" /\ c # 0 /\ pc' = [pc EXCEPT ![c] = "spin"] /\ ready' = ready + 1
      /\ UNCHANGED <<active, modified, stale, cr3, cur>> /\ UNCHANGED MessageVars
  BY DEF ApReady, At, Goto, flushVars, MessageVars
<1>2. RefsExact' /\ Flushes' /\ Messages' /\ Phases'
  BY <1>1, OutsideStep DEF Outside
<1>3. TypeOK'
  BY <1>1 DEF IpiInv, TypeOK, Pcs, MessageVars
<1>4. Spaces'
  BY <1>1, CpusFinite DEF IpiInv, TypeOK, Spaces, Flushing, MessageVars
<1>5. Stales'
  BY <1>1 DEF IpiInv, TypeOK, Stales, Waits, Loaded, Flushing, MessageVars
<1> QED
  BY <1>2, <1>3, <1>4, <1>5 DEF IpiInv

(* ap_start from there: the identity mapping leaves the CPU's TLB.         *)
LEMMA StepApStart ==
  ASSUME IpiInv, NEW c \in Cpus, ApStart(c)
  PROVE  IpiInv'
<1>1. /\ pc[c] = "spin" /\ active /\ pc' = [pc EXCEPT ![c] = "switch"]
      /\ stale' = [stale EXCEPT ![c] = stale[c] \cap KernelPages]
      /\ UNCHANGED <<active, ready, modified, cr3, cur>> /\ UNCHANGED MessageVars
  BY DEF ApStart, At, Goto, flushVars, MessageVars
<1>2. RefsExact' /\ Flushes' /\ Messages' /\ Phases'
  BY <1>1, OutsideStep DEF Outside
<1>3. TypeOK'
  BY <1>1 DEF IpiInv, TypeOK, Pcs, MessageVars
<1>4. Spaces'
  BY <1>1, CpusFinite DEF IpiInv, TypeOK, Spaces, Flushing, MessageVars
<1>5. Stales'
  <2>1. \A d \in Cpus : stale'[d] \subseteq stale[d] /\ stale'[c] \subseteq KernelPages
    BY <1>1 DEF IpiInv, TypeOK
  <2>2. Identity \notin KernelPages
    BY PagesAssumption
  <2> QED
    BY <1>1, <2>1, <2>2 DEF IpiInv, TypeOK, Stales, Waits, Loaded, Flushing, MessageVars
<1> QED
  BY <1>2, <1>3, <1>4, <1>5 DEF IpiInv

(* The end of smp_start: only CPUs in ap_start may have the identity       *)
(* mapping.                                                                *)
LEMMA StepSmpActivate ==
  ASSUME IpiInv, SmpActivate
  PROVE  IpiInv'
<1>1. /\ pc[0] = "boot" /\ pc' = [pc EXCEPT ![0] = "switch"] /\ active' = TRUE
      /\ stale' = [c \in Cpus |-> IF c = 0 THEN {} ELSE {Identity}]
      /\ UNCHANGED <<ready, modified, cr3, cur>> /\ UNCHANGED MessageVars
  BY DEF SmpActivate, At, Goto, flushVars, MessageVars
<1>2. RefsExact' /\ Flushes' /\ Messages' /\ Phases'
  BY <1>1, OutsideStep, CpusFinite DEF Outside
<1>3. TypeOK'
  <2>1. stale' \in [Cpus -> SUBSET (Pages \cup {Identity})]
    BY <1>1
  <2> QED
    BY <1>1, <2>1 DEF IpiInv, TypeOK, Pcs, MessageVars
<1>4. \A d \in Cpus : pc[d] \in {"boot", "spin"}
  BY <1>1 DEF IpiInv, Spaces
<1>5. Spaces'
  BY <1>1, <1>4, CpusFinite DEF IpiInv, TypeOK, Spaces, Flushing, MessageVars
<1>6. Stales'
  <2>1. Identity \notin KernelPages /\ Identity \notin UserVms
    BY PagesAssumption
  <2> QED
    BY <1>1, <1>4, <2>1, CpusFinite DEF IpiInv, TypeOK, Stales
<1> QED
  BY <1>2, <1>3, <1>5, <1>6 DEF IpiInv

(* sched_yield, up to the choice of the next task.                         *)
LEMMA StepLeave ==
  ASSUME IpiInv, NEW c \in Cpus, NEW b \in BOOLEAN, Leave(c, b)
  PROVE  IpiInv'
<1>1. /\ pc[c] \in {"run", "enter"} /\ pc' = [pc EXCEPT ![c] = "switch"]
      /\ cur' = [cur EXCEPT ![c] = IF b THEN Null ELSE cur[c]]
      /\ UNCHANGED <<active, ready, modified, stale, cr3>> /\ UNCHANGED MessageVars
  BY DEF Leave, At, Goto, flushVars, MessageVars
<1>2. RefsExact' /\ Flushes' /\ Messages' /\ Phases'
  BY <1>1, OutsideStep DEF Outside
<1>3. TypeOK'
  BY <1>1 DEF IpiInv, TypeOK, Pcs, MessageVars
<1>4. Spaces'
  BY <1>1, CpusFinite DEF IpiInv, TypeOK, Spaces, Flushing, MessageVars
<1>5. Stales'
  BY <1>1 DEF IpiInv, TypeOK, Stales, Waits, Loaded, Flushing, MessageVars
<1> QED
  BY <1>2, <1>3, <1>4, <1>5 DEF IpiInv

(* switch_context sets current_task before the page directory is loaded.   *)
LEMMA StepSetTask ==
  ASSUME IpiInv, NEW c \in Cpus, NEW vm \in Vms, SetTask(c, vm)
  PROVE  IpiInv'
<1>1. /\ pc[c] = "switch" /\ pc' = [pc EXCEPT ![c] = "load"] /\ cur' = [cur EXCEPT ![c] = vm]
      /\ UNCHANGED <<active, ready, modified, stale, cr3>> /\ UNCHANGED MessageVars
  BY DEF SetTask, At, Goto, flushVars, MessageVars
<1>2. RefsExact' /\ Flushes' /\ Messages' /\ Phases'
  BY <1>1, OutsideStep DEF Outside
<1>3. TypeOK'
  BY <1>1 DEF IpiInv, TypeOK, Pcs, MessageVars
<1>4. Spaces'
  <2>1. vm # Null
    BY PagesAssumption DEF Vms
  <2> QED
    BY <1>1, <2>1, CpusFinite DEF IpiInv, TypeOK, Spaces, Flushing, MessageVars
<1>5. Stales'
  BY <1>1 DEF IpiInv, TypeOK, Stales, Waits, Loaded, Flushing, MessageVars
<1> QED
  BY <1>2, <1>3, <1>4, <1>5 DEF IpiInv

(* vm_enter of a running task, before it loads the page directory.         *)
LEMMA StepEnterVm ==
  ASSUME IpiInv, NEW c \in Cpus, NEW vm \in Vms, EnterVm(c, vm)
  PROVE  IpiInv'
<1>1. /\ pc[c] = "run" /\ pc' = [pc EXCEPT ![c] = "enter"] /\ cur' = [cur EXCEPT ![c] = vm]
      /\ UNCHANGED <<active, ready, modified, stale, cr3>> /\ UNCHANGED MessageVars
  BY DEF EnterVm, At, Goto, flushVars, MessageVars
<1>2. RefsExact' /\ Flushes' /\ Messages' /\ Phases'
  BY <1>1, OutsideStep DEF Outside
<1>3. TypeOK'
  BY <1>1 DEF IpiInv, TypeOK, Pcs, MessageVars
<1>4. Spaces'
  <2>1. vm # Null
    BY PagesAssumption DEF Vms
  <2> QED
    BY <1>1, <2>1, CpusFinite DEF IpiInv, TypeOK, Spaces, Flushing, MessageVars
<1>5. Stales'
  BY <1>1 DEF IpiInv, TypeOK, Stales, Waits, Loaded, Flushing, MessageVars
<1> QED
  BY <1>2, <1>3, <1>4, <1>5 DEF IpiInv

(* page_directory_switch: only kernel pages can still be stale.            *)
LEMMA StepLoadCr3 ==
  ASSUME IpiInv, NEW c \in Cpus, LoadCr3(c)
  PROVE  IpiInv'
<1>1. /\ pc[c] \in {"load", "enter"} /\ pc' = [pc EXCEPT ![c] = "run"]
      /\ cr3' = [cr3 EXCEPT ![c] = cur[c]]
      /\ stale' = [stale EXCEPT ![c] = stale[c] \cap KernelPages]
      /\ UNCHANGED <<active, ready, modified, cur>> /\ UNCHANGED MessageVars
  BY DEF LoadCr3, At, Goto, flushVars, MessageVars
<1>2. RefsExact' /\ Flushes' /\ Messages' /\ Phases'
  BY <1>1, OutsideStep DEF Outside
<1>3. cur[c] \in Vms
  BY <1>1 DEF IpiInv, Spaces, TypeOK
<1>4. TypeOK'
  BY <1>1, <1>3 DEF IpiInv, TypeOK, Pcs, MessageVars
<1>5. Spaces'
  BY <1>1, CpusFinite DEF IpiInv, TypeOK, Spaces, Phases, Outside, Flushing, MessageVars
<1>6. Stales'
  <2>1. /\ \A d \in Cpus : stale'[d] \subseteq stale[d] /\ (d # c => cr3'[d] = cr3[d])
        /\ stale'[c] \subseteq KernelPages
    BY <1>1 DEF IpiInv, TypeOK
  <2>2. KernelPages \cap UserVms = {}
    BY PagesAssumption
  <2> QED
    BY <1>1, <2>1, <2>2 DEF IpiInv, TypeOK, Stales, Waits, Loaded, Flushing, MessageVars
<1> QED
  BY <1>2, <1>4, <1>5, <1>6 DEF IpiInv
-----------------------------------------------------------------------------
(* A page table entry changes, and a flush or a halt begins.               *)
LEMMA StepModify ==
  ASSUME IpiInv, NEW c \in Cpus, NEW p \in Pages, Modify(c, p)
  PROVE  IpiInv'
<1>1. /\ p \notin pending /\ modified < MaxModified /\ modified' = modified + 1
      /\ pending' = pending \cup {p}
      /\ stale' = [d \in Cpus |-> IF Caches(d, p) THEN stale[d] \cup {p} ELSE stale[d]]
      /\ UNCHANGED <<active, ready, cr3, cur, pool, msg, queue, ack, pc, page, mine, todo>>
  BY DEF Modify, flushVars
<1>2. RefsExact' /\ Messages' /\ Phases' /\ Spaces'
  BY <1>1 DEF IpiInv, RefsExact, OnQueuesOnce, PoolExact, CountsExact, Owed, Messages, Phases, Spaces
<1>3. Flushes'
  BY <1>1 DEF IpiInv, Flushes
<1>4. TypeOK'
  <2>1. stale' \in [Cpus -> SUBSET (Pages \cup {Identity})]
    BY <1>1 DEF IpiInv, TypeOK
  <2>2. modified' \in 0..MaxModified
    BY <1>1, BoundsAssumption DEF IpiInv, TypeOK
  <2> QED
    BY <1>1, <2>1, <2>2 DEF IpiInv, TypeOK
<1>5. Stales'
  <2>1. p # Identity /\ p \notin KernelPages => p \in UserVms
    BY DEF Pages
  <2>2. p # Identity /\ (p \in KernelPages => p \notin UserVms)
    BY PagesAssumption DEF Pages
  <2>3. \A d \in Cpus : page[d] # p
    BY <1>1, PagesAssumption DEF IpiInv, Flushes, Pages
  <2>4. ASSUME NEW d \in Cpus, NEW q \in stale'[d]
        PROVE  q \in stale[d] \/ (q = p /\ (p \in KernelPages \/ cr3[d] = p))
    BY <1>1, <2>4 DEF Caches
  <2> QED
    BY <1>1, <2>2, <2>3, <2>4 DEF IpiInv, Stales, Waits, Loaded
<1> QED
  BY <1>2, <1>3, <1>4, <1>5 DEF IpiInv

(* flush_tlb_range begins: every other CPU is still to be told.            *)
LEMMA StepFlush ==
  ASSUME IpiInv, NEW c \in Cpus, NEW p \in Pages, Flush(c, p)
  PROVE  IpiInv'
<1> DEFINE l == IF p \in KernelPages THEN "alloc" ELSE "scan"
<1>1. /\ pc[c] = "run" /\ InVm(c, p) /\ p \in pending /\ \A d \in Cpus : page[d] # p
      /\ page' = [page EXCEPT ![c] = p] /\ todo' = [todo EXCEPT ![c] = Cpus \ {c}]
      /\ pc' = [pc EXCEPT ![c] = l]
      /\ UNCHANGED <<active, ready, modified, pending, stale, cr3, cur, pool, msg, queue, ack, mine>>
  BY DEF Flush, At, Goto
<1>2. p # Null /\ mine[c] = Null /\ page[c] = Null /\ (p \in UserVms <=> p \notin KernelPages)
  BY <1>1, PagesAssumption DEF IpiInv, Phases, Outside, Pages
<1>3. TypeOK'
  BY <1>1 DEF IpiInv, TypeOK, Pcs
<1>4. Cpus \ {c} # {}
  BY OthersExist
<1>5. Phases'
  BY <1>1, <1>2, <1>4 DEF IpiInv, TypeOK, Phases, Outside
<1>6. Spaces'
  BY <1>1, <1>2, CpusFinite DEF IpiInv, TypeOK, Spaces, Flushing, InVm
<1>7. RefsExact'
  <2>1. OnQueuesOnce' /\ PoolExact'
    BY <1>1 DEF IpiInv, RefsExact, OnQueuesOnce, PoolExact
  <2>2. \A d \in Cpus \ {c} : page'[d] = page[d] /\ todo'[d] = todo[d] /\ pc'[d] = pc[d]
    BY <1>1 DEF IpiInv, TypeOK
  <2>3. CountsExact'
    BY <1>1, <1>2, <2>2 DEF IpiInv, RefsExact, CountsExact, Owed
  <2> QED
    BY <2>1, <2>3 DEF RefsExact
<1>8. Flushes' /\ Messages'
  BY <1>1, <1>2 DEF IpiInv, TypeOK, Flushes, Messages
<1>9. Stales'
  <2>1. ASSUME NEW d \in Cpus, NEW e \in Cpus, page'[e] # Null, page[e] # Null => Waits(d, e)
        PROVE  Waits(d, e)'
    BY <1>1, <1>2, <2>1 DEF IpiInv, TypeOK, Waits
  <2>2. \A d \in Cpus : Loaded(d)' <=> Loaded(d)
    BY <1>1 DEF IpiInv, TypeOK, Loaded, Flushing
  <2>3. \A d \in Cpus : pc'[d] \in {"boot", "spin"} <=> pc[d] \in {"boot", "spin"}
    BY <1>1 DEF IpiInv, TypeOK
  <2>4. ASSUME NEW d \in Cpus, NEW q \in stale[d],
               q \in KernelPages \/ (q \in UserVms /\ Loaded(d)), NEW e \in Cpus, page'[e] = q
        PROVE  Waits(d, e)'
    <3>1. q # Null
      BY <2>4, PagesAssumption
    <3>2. e = c \/ page[e] = q
      BY <1>1, <2>4 DEF IpiInv, TypeOK
    <3> QED
      BY <1>2, <2>1, <2>4, <3>1, <3>2 DEF IpiInv, Stales
  <2> QED
    BY <1>1, <2>2, <2>3, <2>4 DEF IpiInv, Stales
<1> QED
  BY <1>3, <1>5, <1>6, <1>7, <1>8, <1>9 DEF IpiInv

(* halt begins; it flushes nothing.                                        *)
LEMMA StepHalt ==
  ASSUME IpiInv, NEW c \in Cpus, Halt(c)
  PROVE  IpiInv'
<1>1. /\ pc[c] = "run" /\ todo' = [todo EXCEPT ![c] = Cpus \ {c}] /\ pc' = [pc EXCEPT ![c] = "alloc"]
      /\ UNCHANGED <<active, ready, modified, pending, stale, cr3, cur, pool, msg, queue, ack, page, mine>>
  BY DEF Halt, At, Goto
<1>2. mine[c] = Null /\ page[c] = Null /\ Null \notin UserVms
  BY <1>1, PagesAssumption DEF IpiInv, Phases, Outside
<1>3. TypeOK'
  BY <1>1 DEF IpiInv, TypeOK, Pcs
<1>4. Cpus \ {c} # {}
  BY OthersExist
<1>5. Phases'
  BY <1>1, <1>2, <1>4 DEF IpiInv, TypeOK, Phases, Outside
<1>6. Spaces'
  BY <1>1, <1>2, CpusFinite DEF IpiInv, TypeOK, Spaces, Flushing
<1>7. RefsExact'
  <2>1. OnQueuesOnce' /\ PoolExact'
    BY <1>1 DEF IpiInv, RefsExact, OnQueuesOnce, PoolExact
  <2>2. \A d \in Cpus \ {c} : todo'[d] = todo[d] /\ pc'[d] = pc[d]
    BY <1>1 DEF IpiInv, TypeOK
  <2>3. CountsExact'
    BY <1>1, <1>2, <2>2 DEF IpiInv, RefsExact, CountsExact, Owed
  <2> QED
    BY <2>1, <2>3 DEF RefsExact
<1>8. Flushes' /\ Messages'
  BY <1>1, <1>2 DEF IpiInv, TypeOK, Flushes, Messages
<1>9. Stales'
  <2>1. ASSUME NEW d \in Cpus, NEW e \in Cpus, Waits(d, e) PROVE Waits(d, e)'
    BY <1>1, <2>1 DEF IpiInv, TypeOK, Waits
  <2>2. \A d \in Cpus : Loaded(d)' <=> Loaded(d)
    BY <1>1 DEF IpiInv, TypeOK, Loaded, Flushing
  <2>3. \A d \in Cpus : pc'[d] \in {"boot", "spin"} <=> pc[d] \in {"boot", "spin"}
    BY <1>1 DEF IpiInv, TypeOK
  <2> QED
    BY <1>1, <2>1, <2>2, <2>3 DEF IpiInv, Stales
<1> QED
  BY <1>3, <1>5, <1>6, <1>7, <1>8, <1>9 DEF IpiInv

-----------------------------------------------------------------------------
(* The sender.                                                             *)
LEMMA StepAllocMessage ==
  ASSUME IpiInv, NEW c \in Cpus, AllocMessage(c)
  PROVE  IpiInv'
<1> DEFINE m == Head(pool)
           r == [type |-> IF page[c] = Null THEN "HALT" ELSE "FLUSH_TLB", page |-> page[c],
                 refs |-> IF page[c] \in UserVms THEN 0 ELSE NumCpus - 1]
<1>1. /\ pc[c] = "alloc" /\ pool # <<>> /\ mine' = [mine EXCEPT ![c] = m]
      /\ msg' = [msg EXCEPT ![m] = r] /\ pool' = Tail(pool)
      /\ pc' = [pc EXCEPT ![c] = IF page[c] \in UserVms THEN "count" ELSE "post"]
      /\ UNCHANGED <<active, ready, modified, pending, stale, cr3, cur, queue, ack, page, todo>>
  BY DEF AllocMessage, At, Goto
<1>2. /\ pool' \in Seq(Msgs) /\ m \in Msgs /\ In(pool, m) /\ Once(pool')
      /\ \A x : In(pool', x) <=> In(pool, x) /\ x # m
  BY <1>1, InTail DEF IpiInv, TypeOK, RefsExact, PoolExact
<1>3. /\ mine[c] = Null /\ todo[c] # {} /\ Null \notin Msgs /\ Holders(queue, ack, m) = {}
      /\ \A d \in Cpus : mine[d] # m
  BY <1>1, <1>2, PagesAssumption DEF IpiInv, Phases, RefsExact, PoolExact, Msgs
<1>4. r \in [type : {"HALT", "FLUSH_TLB"}, page : Pages \cup {Null}, refs : Nat]
  BY NumCpusAssumption DEF IpiInv, TypeOK
<1> HIDE DEF m, r
<1>5. TypeOK'
  BY <1>1, <1>2, <1>4 DEF IpiInv, TypeOK, Pcs
<1>6. Phases'
  BY <1>1, <1>2, <1>3 DEF IpiInv, TypeOK, Phases, Outside
<1>7. Spaces'
  BY <1>1, CpusFinite DEF IpiInv, TypeOK, Spaces, Flushing
<1>8. /\ \A d \in Cpus \ {c} : mine'[d] = mine[d] /\ pc'[d] = pc[d]
      /\ mine'[c] = m /\ msg'[m] = r /\ \A x \in Msgs \ {m} : msg'[x] = msg[x]
  BY <1>1, <1>2 DEF IpiInv, TypeOK
<1>9. OnQueuesOnce'
  BY <1>1, <1>3, <1>8 DEF IpiInv, RefsExact, OnQueuesOnce
<1>10. PoolExact'
  BY <1>1, <1>2, <1>3, <1>8 DEF IpiInv, RefsExact, PoolExact
<1>11. CountsExact'
  <2>1. ASSUME NEW d \in Cpus, mine'[d] # Null, page[d] # Null
        PROVE  msg'[mine'[d]].refs = Cardinality(Holders(queue, ack, mine'[d])) + Owed(d)'
    <3>1. CASE d = c
      <4>1. Cardinality(Holders(queue, ack, m)) = 0
        BY <1>3, FS_EmptySet
      <4>2. CASE page[c] \in UserVms
        <5>1. r.refs = 0 /\ Owed(c)' = 0
          BY <1>1, <4>2 DEF r, Owed, IpiInv, TypeOK
        <5> QED
          BY <1>8, <3>1, <4>1, <5>1
      <4>3. CASE page[c] \notin UserVms
        <5>1. r.refs = NumCpus - 1 /\ Owed(c)' = Cardinality(Cpus \ {c})
          BY <1>1, <4>3 DEF r, Owed, IpiInv, Phases
        <5>2. Cardinality(Cpus \ {c}) = NumCpus - 1
          BY OthersAreFewer
        <5> QED
          BY <1>8, <3>1, <4>1, <5>1, <5>2, NumCpusAssumption
      <4> QED
        BY <4>2, <4>3
    <3>2. CASE d # c
      <4>1. mine'[d] = mine[d] /\ mine[d] # m /\ mine[d] \in Msgs /\ msg'[mine[d]] = msg[mine[d]]
        BY <1>3, <1>8, <2>1, <3>2 DEF IpiInv, TypeOK
      <4>2. Owed(d)' = Owed(d)
        BY <1>1, <1>8, <3>2 DEF Owed
      <4> QED
        BY <2>1, <4>1, <4>2 DEF IpiInv, RefsExact, CountsExact
    <3> QED
      BY <3>1, <3>2
  <2> QED
    BY <1>1, <2>1 DEF CountsExact
<1>12. Flushes'
  BY <1>1 DEF IpiInv, Flushes
<1>13. Messages'
  <2>1. r.page = page[c] /\ r.type = IF page[c] = Null THEN "HALT" ELSE "FLUSH_TLB"
    BY DEF r
  <2>2. \A d \in Cpus : ack[d] # m
    BY <1>3 DEF Holders
  <2>3. \A d \in Cpus : ack[d] \in Msgs \cup {Null} /\ mine[d] \in Msgs \cup {Null}
    BY DEF IpiInv, TypeOK
  <2>4. \A d \in Cpus : mine'[d] # Null =>
          /\ msg'[mine'[d]].page = page[d]
          /\ msg'[mine'[d]].type = IF page[d] = Null THEN "HALT" ELSE "FLUSH_TLB"
    BY <1>3, <1>8, <2>1, <2>3 DEF IpiInv, Messages
  <2>5. \A d \in Cpus : mine'[d] # Null =>
          \A e \in Holders(queue, ack, mine'[d]) : e # d /\ e \notin todo[d]
    BY <1>3, <1>8 DEF IpiInv, Messages
  <2>6. \A d \in Cpus : ack[d] # Null => msg'[ack[d]].type = "FLUSH_TLB"
    BY <1>8, <2>2, <2>3 DEF IpiInv, Messages
  <2> QED
    BY <1>1, <2>4, <2>5, <2>6 DEF Messages
<1>14. Stales'
  <2>1. ASSUME NEW d \in Cpus, NEW e \in Cpus, Waits(d, e) PROVE Waits(d, e)'
    <3>1. ~In(queue[d], mine[c])
      <4>1. \A x \in 1..Len(queue[d]) : queue[d][x] \in Msgs
        BY DEF IpiInv, TypeOK
      <4> QED
        BY <1>3, <4>1 DEF In
    <3> QED
      BY <1>1, <1>8, <2>1, <3>1 DEF Waits, IpiInv, TypeOK
  <2>2. \A d \in Cpus : Loaded(d)' <=> Loaded(d)
    BY <1>1 DEF IpiInv, TypeOK, Loaded, Flushing
  <2>3. \A d \in Cpus : pc'[d] \in {"boot", "spin"} <=> pc[d] \in {"boot", "spin"}
    BY <1>1 DEF IpiInv, TypeOK
  <2> QED
    BY <1>1, <2>1, <2>2, <2>3 DEF IpiInv, Stales
<1> QED
  BY <1>5, <1>6, <1>7, <1>9, <1>10, <1>11, <1>12, <1>13, <1>14 DEF IpiInv, RefsExact
(* Inside a flush the CPU stays in its address space.                      *)
LEMMA FlushingStep ==
  ASSUME IpiInv, NEW c \in Cpus, pc[c] \in Flushing, NEW l \in Flushing,
         pc' = [pc EXCEPT ![c] = l], UNCHANGED <<cr3, cur, active, page>>
  PROVE  /\ Spaces'
         /\ \A d \in Cpus : Loaded(d)' <=> Loaded(d)
         /\ \A d \in Cpus : pc'[d] \in {"boot", "spin"} <=> pc[d] \in {"boot", "spin"}
<1>1. pc'[c] = l /\ \A d \in Cpus \ {c} : pc'[d] = pc[d]
  BY DEF IpiInv, TypeOK
<1>2. \A x \in Flushing : x \notin {"boot", "spin", "load", "enter"}
  BY DEF Flushing
<1>3. Spaces'
  BY <1>1, <1>2, CpusFinite DEF IpiInv, Spaces
<1> QED
  BY <1>1, <1>2, <1>3 DEF Loaded

(* A CPU found in another address space need not be told: if it uses user  *)
(* addresses at all, its TLB has nothing of the page.                      *)
LEMMA StepScan ==
  ASSUME IpiInv, NEW c \in Cpus, Scan(c)
  PROVE  IpiInv'
<1> DEFINE d0 == Min(todo[c])
<1>1. /\ pc[c] = "scan" /\ todo[c] # {} /\ d0 \in todo[c] /\ d0 \in Cpus /\ page[c] \in UserVms
      /\ UNCHANGED <<active, ready, modified, pending, stale, cr3, cur, pool, msg, queue, ack, page, mine>>
  BY MinIsMember DEF Scan, At, IpiInv, TypeOK, Phases
<1>2. CASE cur[d0] = cur[c]
  <2> DEFINE l == IF mine[c] = Null THEN "alloc" ELSE "count"
  <2>1. pc' = [pc EXCEPT ![c] = l] /\ UNCHANGED todo
    BY <1>2 DEF Scan, Goto
  <2>2. TypeOK'
    BY <1>1, <2>1 DEF IpiInv, TypeOK, Pcs
  <2>3. Phases'
    BY <1>1, <2>1 DEF IpiInv, TypeOK, Phases, Outside
  <2>4. /\ Spaces' /\ \A d \in Cpus : Loaded(d)' <=> Loaded(d)
        /\ \A d \in Cpus : pc'[d] \in {"boot", "spin"} <=> pc[d] \in {"boot", "spin"}
    BY <1>1, <2>1, FlushingStep DEF Flushing
  <2>5. OnQueuesOnce' /\ PoolExact' /\ Flushes' /\ Messages'
    BY <1>1, <2>1 DEF IpiInv, RefsExact, OnQueuesOnce, PoolExact, Flushes, Messages
  <2>6. \A d \in Cpus : pc'[d] = "post" <=> pc[d] = "post"
    BY <1>1, <2>1 DEF IpiInv, TypeOK
  <2>7. CountsExact'
    BY <1>1, <2>1, <2>6 DEF IpiInv, RefsExact, CountsExact, Owed
  <2>8. ASSUME NEW d \in Cpus, NEW e \in Cpus, Waits(d, e) PROVE Waits(d, e)'
    BY <1>1, <2>1, <2>8 DEF IpiInv, TypeOK, Waits
  <2>9. Stales'
    BY <1>1, <2>4, <2>8 DEF IpiInv, Stales
  <2> QED
    BY <2>2, <2>3, <2>4, <2>5, <2>7, <2>9 DEF IpiInv, RefsExact
<1>3. CASE cur[d0] # cur[c]
  <2>1. todo' = [todo EXCEPT ![c] = todo[c] \ {d0}] /\ UNCHANGED pc
    BY <1>3 DEF Scan
  <2>2. /\ todo'[c] = todo[c] \ {d0} /\ \A d \in Cpus \ {c} : todo'[d] = todo[d]
        /\ \A d \in Cpus : todo'[d] \subseteq todo[d]
    BY <2>1 DEF IpiInv, TypeOK
  <2>3. TypeOK'
    BY <1>1, <2>1 DEF IpiInv, TypeOK
  <2>4. Phases'
    BY <1>1, <2>1, <2>2 DEF IpiInv, Phases, Outside
  <2>5. Spaces' /\ OnQueuesOnce' /\ PoolExact' /\ Flushes'
    BY <1>1, <2>1 DEF IpiInv, Spaces, RefsExact, OnQueuesOnce, PoolExact, Flushes
  <2>6. CountsExact'
    BY <1>1, <2>1, <2>2 DEF IpiInv, RefsExact, CountsExact, Owed
  <2>7. Messages'
    BY <1>1, <2>2 DEF IpiInv, Messages
  <2>8. ASSUME Loaded(d0), page[c] \in stale[d0] PROVE FALSE
    <3>1. cr3[d0] = page[c]
      BY <1>1, <2>8 DEF IpiInv, Stales
    <3>2. cur[d0] = cr3[d0]
      BY <1>1, <2>8 DEF IpiInv, Spaces, Loaded
    <3>3. cur[c] = page[c]
      BY <1>1 DEF IpiInv, Spaces, Flushing
    <3> QED
      BY <1>3, <3>1, <3>2, <3>3
  <2>9. ASSUME NEW d \in Cpus, NEW e \in Cpus, Waits(d, e), ~(d = d0 /\ e = c) PROVE Waits(d, e)'
    BY <1>1, <2>1, <2>2, <2>9 DEF Waits
  <2>10. page[c] \notin KernelPages
    BY <1>1, PagesAssumption
  <2>11. \A d \in Cpus : Loaded(d)' <=> Loaded(d)
    BY <2>1 DEF Loaded
  <2>12. Stales'
    BY <1>1, <2>1, <2>8, <2>9, <2>10, <2>11 DEF IpiInv, Stales
  <2> QED
    BY <2>3, <2>4, <2>5, <2>6, <2>7, <2>12 DEF IpiInv, RefsExact
<1> QED
  BY <1>2, <1>3

(* The ref_count goes up before the message is enqueued.                   *)
LEMMA StepCount ==
  ASSUME IpiInv, NEW c \in Cpus, Count(c)
  PROVE  IpiInv'
<1> DEFINE m == mine[c]
<1>1. /\ pc[c] = "count" /\ msg' = [msg EXCEPT ![m].refs = msg[m].refs + 1]
      /\ pc' = [pc EXCEPT ![c] = "post"]
      /\ UNCHANGED <<active, ready, modified, pending, stale, cr3, cur, pool, queue, ack, page, mine, todo>>
  BY DEF Count, At, Goto, flushVars
<1>2. m \in Msgs /\ m # Null /\ page[c] \in UserVms /\ page[c] # Null /\ todo[c] # {}
  BY <1>1, PagesAssumption DEF IpiInv, Phases, TypeOK
<1>3. /\ \A x \in Msgs \ {m} : msg'[x] = msg[x]
      /\ msg'[m].refs = msg[m].refs + 1 /\ msg'[m].page = msg[m].page /\ msg'[m].type = msg[m].type
      /\ msg' \in [Msgs -> [type : {"HALT", "FLUSH_TLB"}, page : Pages \cup {Null}, refs : Nat]]
  <2> DEFINE R == [type : {"HALT", "FLUSH_TLB"}, page : Pages \cup {Null}, refs : Nat]
             r == [msg[m] EXCEPT !.refs = msg[m].refs + 1]
  <2>1. msg \in [Msgs -> R] /\ msg[m] \in R
    BY <1>2 DEF IpiInv, TypeOK
  <2>2. r \in R /\ r.refs = msg[m].refs + 1 /\ r.page = msg[m].page /\ r.type = msg[m].type
    BY <2>1
  <2>3. msg' = [msg EXCEPT ![m] = r]
    BY <1>1
  <2> HIDE DEF R, r
  <2>4. msg' \in [Msgs -> R] /\ msg'[m] = r /\ \A x \in Msgs \ {m} : msg'[x] = msg[x]
    BY <1>2, <2>1, <2>2, <2>3
  <2> QED
    BY <2>2, <2>4 DEF R
<1> HIDE DEF m
<1>4. TypeOK'
  BY <1>1, <1>3 DEF IpiInv, TypeOK, Pcs
<1>5. Phases'
  BY <1>1, <1>2 DEF m, IpiInv, TypeOK, Phases, Outside
<1>6. /\ Spaces' /\ \A d \in Cpus : Loaded(d)' <=> Loaded(d)
      /\ \A d \in Cpus : pc'[d] \in {"boot", "spin"} <=> pc[d] \in {"boot", "spin"}
  BY <1>1, FlushingStep DEF Flushing
<1>7. OnQueuesOnce' /\ Flushes'
  BY <1>1 DEF IpiInv, RefsExact, OnQueuesOnce, Flushes
<1>8. PoolExact'
  <2>1. ~In(pool, m)
    BY <1>2 DEF m, IpiInv, RefsExact, PoolExact
  <2> QED
    BY <1>1, <1>3, <2>1 DEF IpiInv, RefsExact, PoolExact
<1>9. \A d \in Cpus : mine[d] \in Msgs \cup {Null} /\ ack[d] \in Msgs \cup {Null}
  BY DEF IpiInv, TypeOK
<1>10. Messages'
  BY <1>1, <1>2, <1>3, <1>9 DEF IpiInv, Messages
<1>11. CountsExact'
  <2>1. ASSUME NEW d \in Cpus, mine[d] # Null, page[d] # Null
        PROVE  msg'[mine[d]].refs = Cardinality(Holders(queue, ack, mine[d])) + Owed(d)'
    <3>1. CASE d = c
      <4>1. Owed(c) = 0 /\ Owed(c)' = 1
        BY <1>1, <1>2 DEF Owed, IpiInv, TypeOK
      <4>2. Holders(queue, ack, m) \in SUBSET Cpus
        BY DEF Holders
      <4>3. Cardinality(Holders(queue, ack, m)) \in Nat
        BY <4>2, CpusFinite
      <4>4. msg[m].refs = Cardinality(Holders(queue, ack, m)) + Owed(c)
        BY <1>2 DEF m, IpiInv, RefsExact, CountsExact
      <4>5. mine[d] = m
        BY <3>1 DEF m
      <4> QED
        BY <1>3, <3>1, <4>1, <4>3, <4>4, <4>5
    <3>2. CASE d # c
      <4>1. mine[d] # m /\ msg'[mine[d]] = msg[mine[d]]
        BY <1>2, <1>3, <1>9, <2>1, <3>2 DEF m, IpiInv, RefsExact, OnQueuesOnce
      <4>2. Owed(d)' = Owed(d)
        BY <1>1, <3>2 DEF Owed, IpiInv, TypeOK
      <4> QED
        BY <2>1, <4>1, <4>2 DEF IpiInv, RefsExact, CountsExact
    <3> QED
      BY <3>1, <3>2
  <2> QED
    BY <1>1, <2>1 DEF CountsExact
<1>12. Stales'
  <2>1. ASSUME NEW d \in Cpus, NEW e \in Cpus, Waits(d, e) PROVE Waits(d, e)'
    BY <1>1, <2>1 DEF IpiInv, TypeOK, Waits
  <2> QED
    BY <1>1, <1>6, <2>1 DEF IpiInv, Stales
<1> QED
  BY <1>4, <1>5, <1>6, <1>7, <1>8, <1>10, <1>11, <1>12 DEF IpiInv, RefsExact

(* The message moves from what is owed to what is held.                    *)
LEMMA StepPost ==
  ASSUME IpiInv, NEW c \in Cpus, Post(c)
  PROVE  IpiInv'
<1> DEFINE d0 == Min(todo[c])
           m == mine[c]
           rest == todo[c] \ {d0}
<1>1. /\ pc[c] = "post" /\ queue' = [queue EXCEPT ![d0] = Append(queue[d0], m)]
      /\ todo' = [todo EXCEPT ![c] = rest]
      /\ UNCHANGED <<active, ready, modified, pending, stale, cr3, cur, pool, msg, ack, page, mine>>
  BY DEF Post, At
<1>2. /\ m \in Msgs /\ m # Null /\ todo[c] # {} /\ d0 \in todo[c] /\ d0 \in Cpus /\ d0 # c
      /\ page[c] \in Pages \cup {Null}
  BY <1>1, MinIsMember DEF IpiInv, Phases, TypeOK
<1> DEFINE l == CASE page[c] \in UserVms -> "scan"
                  [] page[c] \notin UserVms /\ rest # {} -> "post"
                  [] page[c] \in KernelPages /\ rest = {} -> "self"
                  [] OTHER -> "halted"
<1>3. pc' = [pc EXCEPT ![c] = l]
  BY DEF Post, Goto
<1>4. \/ l = "scan" /\ page[c] \in UserVms
      \/ l = "post" /\ page[c] \notin UserVms /\ rest # {}
      \/ l = "self" /\ page[c] \in KernelPages /\ page[c] \notin UserVms /\ rest = {}
      \/ l = "halted" /\ page[c] = Null /\ page[c] \notin UserVms /\ rest = {}
  BY <1>2, PagesAssumption DEF Pages
<1> HIDE DEF l, d0, m
<1>5. /\ queue'[d0] = Append(queue[d0], m) /\ \A d \in Cpus \ {d0} : queue'[d] = queue[d]
      /\ queue[d0] \in Seq(Msgs)
      /\ todo'[c] = rest /\ \A d \in Cpus \ {c} : todo'[d] = todo[d] /\ pc'[d] = pc[d]
      /\ pc'[c] = l
  BY <1>1, <1>2, <1>3 DEF IpiInv, TypeOK
<1>6. /\ Append(queue[d0], m) \in Seq(Msgs)
      /\ \A x : In(queue'[d0], x) <=> In(queue[d0], x) \/ x = m
      /\ Once(queue[d0]) /\ ~In(queue[d0], m) => Once(queue'[d0])
  BY <1>2, <1>5, InAppend
<1>7. d0 \notin Holders(queue, ack, m)
  BY <1>2 DEF m, IpiInv, Messages
<1>8. /\ Holders(queue', ack, m) = Holders(queue, ack, m) \cup {d0}
      /\ \A x \in Msgs \ {m} : Holders(queue', ack, x) = Holders(queue, ack, x)
  BY <1>2, <1>5, <1>6 DEF Holders
<1>9. TypeOK'
  <2>1. todo' \in [Cpus -> SUBSET Cpus] /\ pc' \in [Cpus -> Pcs] /\ queue' \in [Cpus -> Seq(Msgs)]
    BY <1>1, <1>2, <1>3, <1>4, <1>6, <1>5 DEF IpiInv, TypeOK, Pcs
  <2> QED
    BY <1>1, <2>1 DEF IpiInv, TypeOK
<1>10. Phases'
  BY <1>1, <1>2, <1>4, <1>5 DEF m, IpiInv, Phases, Outside
<1>11. /\ Spaces' /\ \A d \in Cpus : Loaded(d)' => Loaded(d)
       /\ \A d \in Cpus : pc'[d] \in {"boot", "spin"} <=> pc[d] \in {"boot", "spin"}
  BY <1>1, <1>4, <1>5, CpusFinite DEF IpiInv, Spaces, Loaded, Flushing
<1>12. OnQueuesOnce'
  <2>1. ~In(queue[d0], m) /\ ack[d0] # m
    BY <1>2, <1>7 DEF Holders
  <2> QED
    BY <1>1, <1>2, <1>5, <1>6, <2>1 DEF IpiInv, RefsExact, OnQueuesOnce
<1>13. PoolExact'
  <2>1. ~In(pool, m)
    BY <1>2 DEF m, IpiInv, RefsExact, PoolExact
  <2> QED
    BY <1>1, <1>8, <2>1 DEF IpiInv, RefsExact, PoolExact
<1>14. \A d \in Cpus : mine[d] \in Msgs \cup {Null} /\ (mine[d] = m => d = c)
  BY <1>2 DEF m, IpiInv, TypeOK, RefsExact, OnQueuesOnce
<1>15. CountsExact'
  <2>1. ASSUME NEW d \in Cpus, mine[d] # Null, page[d] # Null
        PROVE  msg[mine[d]].refs = Cardinality(Holders(queue', ack, mine[d])) + Owed(d)'
    <3>1. msg[mine[d]].refs = Cardinality(Holders(queue, ack, mine[d])) + Owed(d)
      BY <2>1 DEF IpiInv, RefsExact, CountsExact
    <3>2. CASE d = c
      <4>1. Holders(queue, ack, m) \in SUBSET Cpus /\ todo[c] \in SUBSET Cpus
        BY DEF Holders, IpiInv, TypeOK
      <4>2. /\ Cardinality(Holders(queue', ack, m)) = Cardinality(Holders(queue, ack, m)) + 1
            /\ Cardinality(Holders(queue, ack, m)) \in Nat
        BY <1>7, <1>8, <4>1, CpusFinite, FS_AddElement
      <4>3. Cardinality(rest) = Cardinality(todo[c]) - 1 /\ Cardinality(todo[c]) \in Nat
        BY <1>2, <4>1, CpusFinite, FS_RemoveElement
      <4>4. Owed(c) = Owed(c)' + 1 /\ Owed(c)' \in Int
        <5>1. CASE page[c] \in UserVms
          <6>1. Owed(c) = 1 /\ Owed(c)' = 0
            BY <1>1, <1>4, <1>5, <5>1 DEF Owed
          <6> QED
            BY <6>1
        <5>2. CASE page[c] \notin UserVms
          <6>1. Owed(c) = Cardinality(todo[c]) /\ Owed(c)' = Cardinality(rest)
            BY <1>1, <1>5, <5>2 DEF Owed
          <6> QED
            BY <4>3, <6>1
        <5> QED
          BY <5>1, <5>2
      <4>5. mine[d] = m
        BY <3>2 DEF m
      <4> QED
        BY <3>1, <3>2, <4>2, <4>4, <4>5
    <3>3. CASE d # c
      <4>1. Holders(queue', ack, mine[d]) = Holders(queue, ack, mine[d])
        BY <1>8, <1>14, <2>1, <3>3
      <4>2. Owed(d)' = Owed(d)
        BY <1>1, <1>5, <3>3 DEF Owed
      <4> QED
        BY <3>1, <4>1, <4>2
    <3> QED
      BY <3>2, <3>3
  <2> QED
    BY <1>1, <2>1 DEF CountsExact
<1>16. Flushes'
  BY <1>1 DEF IpiInv, Flushes
<1>17. Messages'
  <2>1. \A d \in Cpus : todo'[d] \subseteq todo[d]
    BY <1>5
  <2>2. d0 \notin todo'[c]
    BY <1>5
  <2>3. ASSUME NEW d \in Cpus, mine[d] # Null, NEW e \in Holders(queue', ack, mine[d])
        PROVE  e # d /\ e \notin todo'[d]
    <3>1. e \in Holders(queue, ack, mine[d]) \/ (d = c /\ e = d0)
      BY <1>8, <1>14, <2>3
    <3> QED
      BY <1>2, <2>1, <2>2, <2>3, <3>1 DEF IpiInv, Messages
  <2> QED
    BY <1>1, <2>3 DEF IpiInv, Messages
<1>18. Stales'
  <2>1. ASSUME NEW d \in Cpus, NEW e \in Cpus, page[e] # Null, Waits(d, e) PROVE Waits(d, e)'
    <3>1. \A x : In(queue[d], x) => In(queue'[d], x)
      BY <1>5, <1>6
    <3>2. CASE e = c
      <4>1. d \in todo[c] => d \in todo'[c] \/ In(queue'[d], mine[c])
        BY <1>5, <1>6 DEF m
      <4> QED
        BY <1>1, <1>4, <1>5, <2>1, <3>1, <3>2, <4>1 DEF Waits
    <3>3. CASE e # c
      BY <1>1, <1>5, <2>1, <3>1, <3>3 DEF Waits
    <3> QED
      BY <3>2, <3>3
  <2>2. \A d \in Cpus : \A p \in stale[d] : p \in KernelPages \/ p \in UserVms => p # Null
    BY PagesAssumption
  <2> QED
    BY <1>1, <1>11, <2>1, <2>2 DEF IpiInv, Stales
<1> QED
  BY <1>9, <1>10, <1>11, <1>12, <1>13, <1>15, <1>16, <1>17, <1>18 DEF IpiInv, RefsExact

(* The flushing CPU's own TLB, after which it only waits for the others.   *)
LEMMA StepFlushSelf ==
  ASSUME IpiInv, NEW c \in Cpus, FlushSelf(c)
  PROVE  IpiInv'
<1>1. /\ pc[c] \in {"self", "scan"} /\ (pc[c] = "scan" => todo[c] = {})
      /\ stale' = [stale EXCEPT ![c] = stale[c] \ {page[c]}] /\ pc' = [pc EXCEPT ![c] = "wait"]
      /\ UNCHANGED <<active, ready, modified, pending, cr3, cur, pool, msg, queue, ack, page, mine, todo>>
  BY DEF FlushSelf, At, Goto, flushVars
<1>2. page[c] # Null /\ todo[c] = {}
  BY <1>1, PagesAssumption DEF IpiInv, Phases
<1>3. TypeOK'
  BY <1>1 DEF IpiInv, TypeOK, Pcs
<1>4. Phases'
  BY <1>1, <1>2 DEF IpiInv, TypeOK, Phases, Outside
<1>5. /\ Spaces' /\ \A d \in Cpus : Loaded(d)' <=> Loaded(d)
      /\ \A d \in Cpus : pc'[d] \in {"boot", "spin"} <=> pc[d] \in {"boot", "spin"}
  BY <1>1, FlushingStep DEF Flushing
<1>6. OnQueuesOnce' /\ PoolExact' /\ Flushes' /\ Messages'
  BY <1>1 DEF IpiInv, RefsExact, OnQueuesOnce, PoolExact, Flushes, Messages
<1>7. \A d \in Cpus : pc'[d] = "post" <=> pc[d] = "post"
  BY <1>1 DEF IpiInv, TypeOK
<1>8. CountsExact'
  BY <1>1, <1>7 DEF IpiInv, RefsExact, CountsExact, Owed
<1>9. Stales'
  <2>1. ASSUME NEW d \in Cpus, NEW e \in Cpus, Waits(d, e), ~(d = c /\ e = c) PROVE Waits(d, e)'
    BY <1>1, <2>1 DEF IpiInv, TypeOK, Waits
  <2>2. (\A d \in Cpus : stale'[d] \subseteq stale[d]) /\ page[c] \notin stale'[c]
    BY <1>1 DEF IpiInv, TypeOK
  <2> QED
    BY <1>1, <1>5, <2>1, <2>2 DEF IpiInv, Stales
<1> QED
  BY <1>3, <1>4, <1>5, <1>6, <1>8, <1>9 DEF IpiInv, RefsExact

(* A ref_count of zero means that nobody has the message: it may go back   *)
(* to the pool, and no TLB has the page.                                   *)
LEMMA StepFlushReturn ==
  ASSUME IpiInv, NEW c \in Cpus, FlushReturn(c)
  PROVE  IpiInv'
<1> DEFINE m == mine[c]
           p == page[c]
<1>1. /\ pc[c] = "wait" /\ (m # Null => msg[m].refs = 0)
      /\ pool' = IF m = Null THEN pool ELSE Append(pool, m)
      /\ pending' = pending \ {p} /\ page' = [page EXCEPT ![c] = Null]
      /\ mine' = [mine EXCEPT ![c] = Null] /\ pc' = [pc EXCEPT ![c] = "run"]
      /\ UNCHANGED <<active, ready, modified, stale, cr3, cur, msg, queue, ack, todo>>
  BY DEF FlushReturn, At, Goto
<1>2. /\ p # Null /\ todo[c] = {} /\ Null \notin Msgs /\ m \in Msgs \cup {Null}
      /\ pool \in Seq(Msgs)
  BY <1>1, PagesAssumption DEF IpiInv, Phases, TypeOK, Msgs
<1>3. /\ page'[c] = Null /\ mine'[c] = Null /\ pc'[c] = "run"
      /\ \A d \in Cpus \ {c} : page'[d] = page[d] /\ mine'[d] = mine[d] /\ pc'[d] = pc[d]
  BY <1>1 DEF IpiInv, TypeOK
<1> HIDE DEF m, p
<1>4. m # Null => Holders(queue, ack, m) = {} /\ ~In(pool, m)
  <2> HAVE m # Null
  <2>1. ~In(pool, m)
    BY <1>2 DEF m, IpiInv, RefsExact, PoolExact
  <2>2. msg[m].refs = Cardinality(Holders(queue, ack, m)) + Owed(c)
    BY <1>2 DEF m, p, IpiInv, RefsExact, CountsExact
  <2>3. Owed(c) = 0
    <3>1. Cardinality({}) = 0
      BY FS_EmptySet
    <3> QED
      BY <1>1, <1>2, <3>1 DEF Owed
  <2>4. Holders(queue, ack, m) \in SUBSET Cpus
    BY DEF Holders
  <2>5. IsFiniteSet(Holders(queue, ack, m)) /\ Cardinality(Holders(queue, ack, m)) \in Nat
    BY <2>4, CpusFinite
  <2>6. Cardinality(Holders(queue, ack, m)) = 0
    BY <1>1, <2>2, <2>3, <2>5
  <2> QED
    BY <2>1, <2>5, <2>6, FS_EmptySet
<1>5. /\ pool' \in Seq(Msgs) /\ Once(pool')
      /\ \A x \in Msgs : In(pool', x) <=> In(pool, x) \/ x = m
  <2>1. Once(pool)
    BY DEF IpiInv, RefsExact, PoolExact
  <2> QED
    BY <1>1, <1>2, <1>4, <2>1, InAppend
<1>6. TypeOK'
  BY <1>1, <1>5 DEF IpiInv, TypeOK, Pcs
<1>7. Phases'
  BY <1>1, <1>2, <1>3 DEF IpiInv, Phases, Outside
<1>8. Spaces'
  BY <1>1, <1>3, CpusFinite DEF IpiInv, Spaces, Flushing
<1>9. OnQueuesOnce'
  BY <1>1, <1>3 DEF IpiInv, RefsExact, OnQueuesOnce
<1>10. PoolExact'
  <2>1. \A d \in Cpus : mine[d] = m /\ m # Null => d = c
    BY DEF m, IpiInv, RefsExact, OnQueuesOnce
  <2>2. \A x \in Msgs : In(pool', x) <=> \A d \in Cpus : mine'[d] # x
    BY <1>2, <1>3, <1>5, <2>1 DEF m, IpiInv, RefsExact, PoolExact
  <2>3. \A x \in Msgs : In(pool', x) => Holders(queue, ack, x) = {} /\ msg[x].refs = 0
    BY <1>1, <1>2, <1>4, <1>5 DEF IpiInv, RefsExact, PoolExact
  <2> QED
    BY <1>1, <1>5, <2>2, <2>3 DEF PoolExact
<1>11. CountsExact'
  BY <1>1, <1>3 DEF IpiInv, RefsExact, CountsExact, Owed
<1>12. Flushes'
  BY <1>1, <1>2, <1>3 DEF p, IpiInv, Flushes
<1>13. Messages'
  BY <1>1, <1>3 DEF IpiInv, Messages
<1>14. Stales'
  <2>1. ASSUME NEW d \in Cpus PROVE ~Waits(d, c)
    <3>1. ~In(queue[d], m)
      <4>1. CASE m = Null
        <5>1. \A i \in 1..Len(queue[d]) : queue[d][i] \in Msgs
          BY DEF IpiInv, TypeOK
        <5> QED
          BY <1>2, <4>1, <5>1 DEF In
      <4>2. CASE m # Null
        BY <1>4, <4>2 DEF Holders
      <4> QED
        BY <4>1, <4>2
    <3> QED
      BY <1>1, <1>2, <3>1 DEF m, Waits
  <2>2. ASSUME NEW d \in Cpus, NEW e \in Cpus \ {c}, Waits(d, e) PROVE Waits(d, e)'
    BY <1>1, <1>3, <2>2 DEF Waits
  <2>3. ASSUME NEW d \in Cpus, NEW q \in stale[d], q \in KernelPages \/ (q \in UserVms /\ Loaded(d))
        PROVE  q \in pending' /\ \A e \in Cpus : page'[e] = q => Waits(d, e)'
    <3>1. q \in pending /\ q # p /\ q # Null
      BY <2>1, <2>3, PagesAssumption DEF p, IpiInv, Stales
    <3> QED
      BY <1>1, <1>3, <2>2, <2>3, <3>1 DEF IpiInv, Stales
  <2>4. /\ \A d \in Cpus : Loaded(d)' <=> Loaded(d)
        /\ \A d \in Cpus : pc'[d] \in {"boot", "spin"} <=> pc[d] \in {"boot", "spin"}
    BY <1>1, <1>3 DEF Loaded, Flushing
  <2> QED
    BY <1>1, <2>3, <2>4 DEF IpiInv, Stales
<1> QED
  BY <1>6, <1>7, <1>8, <1>9, <1>10, <1>11, <1>12, <1>13, <1>14 DEF IpiInv, RefsExact

-----------------------------------------------------------------------------
(* The receiver.                                                           *)
LEMMA StepTake ==
  ASSUME IpiInv, NEW c \in Cpus, Take(c)
  PROVE  IpiInv'
<1> DEFINE m == Head(queue[c])
<1>1. /\ ack[c] = Null /\ Polls(c) /\ queue[c] # <<>>
      /\ queue' = [queue EXCEPT ![c] = Tail(queue[c])]
      /\ UNCHANGED <<active, ready, modified, pending, cr3, cur, pool, msg, page, mine, todo>>
  BY DEF Take, flushVars
<1>2. pc[c] \in {"run", "enter", "switch", "wait"}
  <2>1. NeverFull
    BY InvNeverFull
  <2>2. pc[c] = "post" => Min(todo[c]) \in Cpus
    BY MinIsMember DEF IpiInv, Phases, TypeOK
  <2>3. ASSUME NEW d \in Cpus PROVE ~(Len(queue[d]) >= NumCpus)
    <3>1. Len(queue[d]) \in Nat /\ Len(queue[d]) < NumCpus
      BY <2>1 DEF NeverFull, IpiInv, TypeOK
    <3> QED
      BY <3>1, NumCpusAssumption
  <2> QED
    BY <1>1, <2>1, <2>2, <2>3 DEF Polls, NeverFull
<1>3. queue[c] \in Seq(Msgs) /\ Once(queue[c])
  BY DEF IpiInv, TypeOK, RefsExact, OnQueuesOnce
<1>4. /\ Tail(queue[c]) \in Seq(Msgs) /\ m \in Msgs /\ In(queue[c], m) /\ Once(Tail(queue[c]))
      /\ ~In(Tail(queue[c]), m) /\ \A x : In(Tail(queue[c]), x) <=> In(queue[c], x) /\ x # m
  BY <1>1, <1>3, InTail
<1>5. queue'[c] = Tail(queue[c]) /\ (\A d \in Cpus \ {c} : queue'[d] = queue[d])
      /\ queue' \in [Cpus -> Seq(Msgs)]
  BY <1>1, <1>4 DEF IpiInv, TypeOK
<1> HIDE DEF m
<1>6. c \in Holders(queue, ack, m) /\ m # Null /\ Null \notin Msgs
  BY <1>4, PagesAssumption DEF Holders, Msgs
<1>7. PICK o \in Cpus : mine[o] = m /\ o # c
  BY <1>4, <1>6, HeldIsOwned
<1>8. /\ msg[m].page = page[o] /\ msg[m].type = IF page[o] = Null THEN "HALT" ELSE "FLUSH_TLB"
      /\ \A d \in Cpus : mine[d] = m => d = o
  BY <1>6, <1>7 DEF IpiInv, Messages, RefsExact, OnQueuesOnce
<1>9. \A d \in Cpus : mine[d] \in Msgs \cup {Null} /\ ack[d] \in Msgs \cup {Null}
  BY DEF IpiInv, TypeOK
<1>10. Flushes'
  BY <1>1 DEF IpiInv, Flushes
<1>11. ~In(pool, m)
  BY <1>4, <1>7 DEF IpiInv, RefsExact, PoolExact
<1>12. CASE msg[m].type = "HALT"
  <2>1. pc' = [pc EXCEPT ![c] = "halted"] /\ UNCHANGED <<stale, ack>> /\ page[o] = Null
    BY <1>8, <1>12 DEF m, Take, Goto
  <2>2. pc'[c] = "halted" /\ \A d \in Cpus \ {c} : pc'[d] = pc[d]
    BY <2>1 DEF IpiInv, TypeOK
  <2>3. \A x \in Msgs \ {m} : Holders(queue', ack, x) = Holders(queue, ack, x)
    BY <1>4, <1>5 DEF Holders
  <2>4. Holders(queue', ack, m) \subseteq Holders(queue, ack, m)
    BY <1>4, <1>5 DEF Holders
  <2>5. TypeOK'
    BY <1>1, <1>5, <2>1 DEF IpiInv, TypeOK, Pcs
  <2>6. Phases'
    BY <1>1, <1>2, <2>2 DEF IpiInv, Phases, Outside
  <2>7. Spaces'
    <3>1. pc[0] # "boot" /\ active
      BY DEF Take, IpiInv, Spaces
    <3> QED
      BY <1>1, <2>2, <3>1, CpusFinite DEF IpiInv, Spaces, Flushing
  <2>8. OnQueuesOnce'
    BY <1>1, <1>4, <1>5, <2>1 DEF IpiInv, RefsExact, OnQueuesOnce
  <2>9. PoolExact'
    BY <1>1, <1>11, <2>1, <2>3 DEF IpiInv, RefsExact, PoolExact
  <2>10. CountsExact'
    <3>1. ASSUME NEW d \in Cpus, mine[d] # Null, page[d] # Null
          PROVE  msg[mine[d]].refs = Cardinality(Holders(queue', ack, mine[d])) + Owed(d)'
      <4>1. mine[d] \in Msgs \ {m}
        BY <1>8, <1>9, <2>1, <3>1
      <4>2. Owed(d)' = Owed(d)
        BY <1>1, <1>2, <2>2 DEF Owed
      <4>3. Holders(queue', ack, mine[d]) = Holders(queue, ack, mine[d])
        BY <2>3, <4>1
      <4> QED
        BY <3>1, <4>2, <4>3 DEF IpiInv, RefsExact, CountsExact
    <3> QED
      BY <1>1, <2>1, <3>1 DEF CountsExact
  <2>11. Messages'
    <3>1. \A d \in Cpus : mine[d] # Null => Holders(queue', ack, mine[d]) \subseteq Holders(queue, ack, mine[d])
      BY <1>9, <2>3, <2>4
    <3> QED
      BY <1>1, <2>1, <3>1 DEF IpiInv, Messages
  <2>12. Stales'
    <3>1. ASSUME NEW d \in Cpus, NEW e \in Cpus, page[e] # Null, Waits(d, e) PROVE Waits(d, e)'
      <4>1. mine[e] # m
        BY <1>8, <2>1, <3>1
      <4>2. In(queue[d], mine[e]) => In(queue'[d], mine[e])
        BY <1>4, <1>5, <4>1
      <4> QED
        BY <1>1, <1>2, <2>2, <3>1, <4>2 DEF Waits
    <3>2. \A d \in Cpus : Loaded(d)' => Loaded(d)
      BY <2>2 DEF Loaded, Flushing
    <3>3. \A d \in Cpus : pc'[d] \in {"boot", "spin"} <=> pc[d] \in {"boot", "spin"}
      BY <1>2, <2>2
    <3>4. Null \notin KernelPages /\ Null \notin UserVms
      BY PagesAssumption
    <3> QED
      BY <1>1, <2>1, <3>1, <3>2, <3>3, <3>4 DEF IpiInv, Stales
  <2> QED
    BY <1>10, <2>5, <2>6, <2>7, <2>8, <2>9, <2>10, <2>11, <2>12 DEF IpiInv, RefsExact
<1>13. CASE msg[m].type # "HALT"
  <2>1. /\ stale' = [stale EXCEPT ![c] = stale[c] \ {page[o]}]
        /\ ack' = [ack EXCEPT ![c] = m] /\ UNCHANGED pc
        /\ msg[m].type = "FLUSH_TLB"
    BY <1>8, <1>13 DEF m, Take
  <2>2. ack'[c] = m /\ (\A d \in Cpus \ {c} : ack'[d] = ack[d])
        /\ ack' \in [Cpus -> Msgs \cup {Null}]
    BY <1>4, <2>1 DEF IpiInv, TypeOK
  <2>3. \A x \in Msgs : Holders(queue', ack', x) = Holders(queue, ack, x)
    BY <1>1, <1>4, <1>5, <1>6, <2>2 DEF Holders
  <2>4. TypeOK'
    BY <1>1, <1>5, <2>1, <2>2 DEF IpiInv, TypeOK
  <2>5. Phases' /\ Spaces'
    BY <1>1, <2>1 DEF IpiInv, Phases, Spaces
  <2>6. OnQueuesOnce'
    BY <1>1, <1>4, <1>5, <2>2 DEF IpiInv, RefsExact, OnQueuesOnce
  <2>7. PoolExact'
    BY <1>1, <2>3 DEF IpiInv, RefsExact, PoolExact
  <2>8. CountsExact'
    <3>1. \A d \in Cpus : Owed(d)' = Owed(d)
      BY <1>1, <2>1 DEF Owed
    <3> QED
      BY <1>1, <1>9, <2>3, <3>1 DEF IpiInv, RefsExact, CountsExact
  <2>9. Messages'
    <3>1. \A d \in Cpus : mine[d] # Null => Holders(queue', ack', mine[d]) = Holders(queue, ack, mine[d])
      BY <1>9, <2>3
    <3>2. \A d \in Cpus : ack'[d] # Null => msg[ack'[d]].type = "FLUSH_TLB"
      BY <2>1, <2>2 DEF IpiInv, Messages
    <3> QED
      BY <1>1, <3>1, <3>2 DEF IpiInv, Messages
  <2>10. Stales'
    <3>1. (\A d \in Cpus : stale'[d] \subseteq stale[d]) /\ page[o] \notin stale'[c]
      BY <2>1 DEF IpiInv, TypeOK
    <3>2. ASSUME NEW d \in Cpus, NEW e \in Cpus, Waits(d, e), ~(d = c /\ e = o) PROVE Waits(d, e)'
      <4>1. In(queue[d], mine[e]) => In(queue'[d], mine[e])
        BY <1>4, <1>5, <1>8, <3>2
      <4> QED
        BY <1>1, <2>1, <3>2, <4>1 DEF Waits
    <3>3. \A d \in Cpus : Loaded(d)' <=> Loaded(d)
      BY <2>1 DEF Loaded
    <3> QED
      BY <1>1, <2>1, <3>1, <3>2, <3>3 DEF IpiInv, Stales
  <2> QED
    BY <1>10, <2>4, <2>5, <2>6, <2>7, <2>8, <2>9, <2>10 DEF IpiInv, RefsExact
<1> QED
  BY <1>12, <1>13

(* The decrement: the message's owner waits for one CPU less.              *)
LEMMA StepAcknowledge ==
  ASSUME IpiInv, NEW c \in Cpus, Acknowledge(c)
  PROVE  IpiInv'
<1> DEFINE m == ack[c]
<1>1. /\ m # Null /\ msg[m].refs > 0 /\ msg' = [msg EXCEPT ![m].refs = msg[m].refs - 1]
      /\ ack' = [ack EXCEPT ![c] = Null]
      /\ UNCHANGED <<active, ready, modified, pending, stale, cr3, cur, pool, queue, pc, page, mine, todo>>
  BY DEF Acknowledge, flushVars
<1>2. m \in Msgs /\ Null \notin Msgs
  BY <1>1, PagesAssumption DEF IpiInv, TypeOK, Msgs
<1>3. /\ \A x \in Msgs \ {m} : msg'[x] = msg[x]
      /\ msg'[m].refs = msg[m].refs - 1 /\ msg'[m].page = msg[m].page /\ msg'[m].type = msg[m].type
      /\ msg[m].refs \in Nat
      /\ msg' \in [Msgs -> [type : {"HALT", "FLUSH_TLB"}, page : Pages \cup {Null}, refs : Nat]]
  <2> DEFINE R == [type : {"HALT", "FLUSH_TLB"}, page : Pages \cup {Null}, refs : Nat]
             r == [msg[m] EXCEPT !.refs = msg[m].refs - 1]
  <2>1. msg \in [Msgs -> R] /\ msg[m] \in R
    BY <1>2 DEF IpiInv, TypeOK
  <2>2. r \in R /\ r.refs = msg[m].refs - 1 /\ r.page = msg[m].page /\ r.type = msg[m].type
    BY <1>1, <2>1
  <2>3. msg' = [msg EXCEPT ![m] = r]
    BY <1>1
  <2>4. msg[m].refs \in Nat
    BY <2>1
  <2> HIDE DEF R, r
  <2>5. msg' \in [Msgs -> R] /\ msg'[m] = r /\ \A x \in Msgs \ {m} : msg'[x] = msg[x]
    BY <1>2, <2>1, <2>2, <2>3
  <2> QED
    BY <2>2, <2>4, <2>5 DEF R
<1>4. /\ c \in Holders(queue, ack, m) /\ ~In(queue[c], m)
      /\ msg[m].type = "FLUSH_TLB"
  BY <1>1 DEF Holders, IpiInv, RefsExact, OnQueuesOnce, Messages
<1>5. /\ ack'[c] = Null /\ (\A d \in Cpus \ {c} : ack'[d] = ack[d])
      /\ ack' \in [Cpus -> Msgs \cup {Null}]
  BY <1>1 DEF IpiInv, TypeOK
<1> HIDE DEF m
<1>6. PICK o \in Cpus : mine[o] = m /\ o # c
  BY <1>2, <1>4, HeldIsOwned
<1>7. page[o] # Null /\ \A d \in Cpus : mine[d] = m => d = o
  BY <1>1, <1>4, <1>6 DEF IpiInv, Messages, RefsExact, OnQueuesOnce
<1>8. ack[c] = m
  BY DEF m
<1>9. /\ Holders(queue, ack', m) = Holders(queue, ack, m) \ {c}
      /\ \A x \in Msgs \ {m} : Holders(queue, ack', x) = Holders(queue, ack, x)
  BY <1>2, <1>4, <1>5, <1>8 DEF Holders
<1>10. \A d \in Cpus : mine[d] \in Msgs \cup {Null} /\ ack[d] \in Msgs \cup {Null}
  BY DEF IpiInv, TypeOK
<1>11. TypeOK'
  BY <1>1, <1>3, <1>5 DEF IpiInv, TypeOK
<1>12. Phases' /\ Spaces' /\ Flushes'
  BY <1>1 DEF IpiInv, Phases, Spaces, Flushes
<1>13. OnQueuesOnce'
  <2>1. ~In(queue[c], Null)
    <3>1. \A i \in 1..Len(queue[c]) : queue[c][i] \in Msgs
      BY DEF IpiInv, TypeOK
    <3> QED
      BY <1>2, <3>1 DEF In
  <2> QED
    BY <1>1, <1>5, <2>1 DEF IpiInv, RefsExact, OnQueuesOnce
<1>14. PoolExact'
  <2>1. ~In(pool, m)
    BY <1>2, <1>6 DEF IpiInv, RefsExact, PoolExact
  <2> QED
    BY <1>1, <1>3, <1>9, <2>1 DEF IpiInv, RefsExact, PoolExact
<1>15. CountsExact'
  <2>1. ASSUME NEW d \in Cpus, mine[d] # Null, page[d] # Null
        PROVE  msg'[mine[d]].refs = Cardinality(Holders(queue, ack', mine[d])) + Owed(d)'
    <3>1. msg[mine[d]].refs = Cardinality(Holders(queue, ack, mine[d])) + Owed(d)
      BY <2>1 DEF IpiInv, RefsExact, CountsExact
    <3>2. Owed(d)' = Owed(d)
      BY <1>1 DEF Owed
    <3>3. CASE d = o
      <4>1. Holders(queue, ack, m) \in SUBSET Cpus
        BY DEF Holders
      <4>2. /\ Cardinality(Holders(queue, ack', m)) = Cardinality(Holders(queue, ack, m)) - 1
            /\ Cardinality(Holders(queue, ack, m)) \in Nat
        BY <1>4, <1>9, <4>1, CpusFinite, FS_RemoveElement
      <4>3. Owed(d) \in Nat
        <5>1. Cardinality(todo[d]) \in Nat
          BY CpusFinite DEF IpiInv, TypeOK
        <5> QED
          BY <5>1 DEF Owed
      <4> QED
        BY <1>3, <1>6, <3>1, <3>2, <3>3, <4>2, <4>3
    <3>4. CASE d # o
      <4>1. mine[d] \in Msgs \ {m}
        BY <1>7, <1>10, <2>1, <3>4
      <4> QED
        BY <1>3, <1>9, <3>1, <3>2, <4>1
    <3> QED
      BY <3>3, <3>4
  <2> QED
    BY <1>1, <2>1 DEF CountsExact
<1>16. Messages'
  <2>1. \A x \in Msgs : msg'[x].page = msg[x].page /\ msg'[x].type = msg[x].type
    BY <1>3
  <2>2. \A d \in Cpus : mine[d] # Null => Holders(queue, ack', mine[d]) \subseteq Holders(queue, ack, mine[d])
    BY <1>9, <1>10
  <2> QED
    BY <1>1, <1>5, <1>10, <2>1, <2>2, ZenonT(40) DEF IpiInv, Messages
<1>17. Stales'
  BY <1>1 DEF IpiInv, Stales, Waits, Loaded
<1> QED
  BY <1>11, <1>12, <1>13, <1>14, <1>15, <1>16, <1>17 DEF IpiInv, RefsExact
-----------------------------------------------------------------------------
(* Every step keeps the invariant.                                         *)
LEMMA NextIpiInv ==
  ASSUME IpiInv, [Next]_vars
  PROVE  IpiInv'
<1>1. CASE SmpActivate
  BY <1>1, StepSmpActivate
<1>2. ASSUME NEW c \in Cpus, Progress(c) PROVE IpiInv'
  BY <1>2, StepApReady, StepApStart, StepLoadCr3, StepAllocMessage, StepScan, StepCount,
     StepPost, StepFlushSelf, StepFlushReturn, StepAcknowledge DEF Progress
<1>3. ASSUME NEW c \in Cpus, Take(c) \/ Halt(c) PROVE IpiInv'
  BY <1>3, StepTake, StepHalt
<1>4. ASSUME NEW c \in Cpus, NEW b \in BOOLEAN, Leave(c, b) PROVE IpiInv'
  BY <1>4, StepLeave
<1>5. ASSUME NEW c \in Cpus, NEW vm \in Vms, SetTask(c, vm) \/ EnterVm(c, vm) PROVE IpiInv'
  BY <1>5, StepSetTask, StepEnterVm
<1>6. ASSUME NEW c \in Cpus, NEW p \in Pages, Modify(c, p) \/ Flush(c, p) PROVE IpiInv'
  BY <1>6, StepModify, StepFlush
<1>7. CASE UNCHANGED vars
  <2>1. TypeOK' /\ Phases' /\ Spaces' /\ Flushes' /\ Messages'
    BY <1>7 DEF vars, IpiInv, TypeOK, Phases, Spaces, Flushes, Messages
  <2>2. RefsExact'
    BY <1>7 DEF vars, IpiInv, RefsExact, OnQueuesOnce, PoolExact, CountsExact, Owed
  <2>3. Stales'
    BY <1>7 DEF vars, IpiInv, Stales, Waits, Loaded
  <2> QED
    BY <2>1, <2>2, <2>3 DEF IpiInv
<1> QED
  BY <1>1, <1>2, <1>3, <1>4, <1>5, <1>6, <1>7 DEF Next

(* The invariant, and with it the types, for every specification above.    *)
THEOREM IpiInvariant == Spec => []IpiInv
BY InitIpiInv, NextIpiInv, PTL DEF Spec

(* When flush_tlb_range has returned no CPU can use the old translation,   *)
(* the ref_count of a message is the number of CPUs that still have to see *)
(* it, a message is nobody's exactly while it is in the pool, and neither  *)
(* the pool nor a queue ever runs out: for any number of CPUs and pages,   *)
(* whatever the tasks do between a change and its flush.                   *)
THEOREM IpiShootdownSafe == Spec => []ShootdownSafe
BY IpiInvariant, InvShootdownSafe, PTL
=============================================================================
