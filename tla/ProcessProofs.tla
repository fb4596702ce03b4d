---------------------------- MODULE ProcessProofs ----------------------------
(***************************************************************************)
(* Processes, threads and signals, for any number of them and every        *)
(* interleaving.  The counts that clone, its error path and exit keep of   *)
(* thread groups, signal handlers and running threads are exact, a process *)
(* tells its parent once and at its end, and every process has a living    *)
(* parent.  The memory of a thread of the C library is given back once.    *)
(* Signal handlers nest.  execve gives back what it got, wherever it fails.*)
(***************************************************************************)
EXTENDS MCTaskLife, Integers, Sequences, SequenceTheorems, FiniteSetTheorems, WellFoundedInduction, TLAPS

(* Who points to a thread group or uses a table of handlers, and which     *)
(* tasks of a group num_running counts.                                    *)
Pointing(ref, o) == {t \in Tids : ref[t] = o}
Using(ref, where, o) == {t \in Tids : ref[t] = o /\ where[t] # "clear"}
Counted(st, tg, where, g) ==
  {t \in Tids : st[t] = "RUNNING" /\ tg[t] = g /\ where[t] \in {"user", "clone", "exit"}}

(* What a task looks like at each stage of its life.                       *)
Stages ==
  \A t \in Tids :
    /\ t \in listed <=> state[t] \in {"RUNNING", "DEAD"}
    /\ state[t] = "NEW" => pc[t] = "user"
    /\ state[t] = "DEAD" => pc[t] = "dead"
    /\ state[t] = "FREED" => pc[t] \in {"user", "dead"}
    /\ tgid[t] = NoTid => state[t] = "NEW" /\ threadGroup[t] = NoTid /\ sighand[t] = NoTid
    /\ state[t] = "RUNNING" /\ pc[t] \in {"user", "clone", "exit", "notify", "unref"}
         => threadGroup[t] \in Tids /\ sighand[t] \in Tids
    /\ threadGroup[t] # NoTid => threadGroup[t] = tgid[t]
    /\ exitSignal[t] => tgid[t] = t

(* A child that sys_clone is building belongs to it alone.                 *)
Building ==
  \A t \in Tids : pc[t] = "clone" =>
    /\ arg[t] \in Tids /\ state[arg[t]] = "NEW" /\ tgid[arg[t]] \in {tgid[t], arg[t]}
    /\ threadGroup[arg[t]] \in Tids /\ sighand[arg[t]] \in Tids
    /\ exitSignal[arg[t]] => ppid[arg[t]] = tgid[t]
    /\ \A v \in Tids : pc[v] = "clone" /\ arg[v] = arg[t] => v = t

(* The three counts.                                                       *)
GroupsCounted ==
  \A o \in Tids : /\ IsFiniteSet(Pointing(threadGroup, o))
                  /\ groupRefs[o] = Cardinality(Pointing(threadGroup, o))
SighandsCounted ==
  \A o \in Tids : /\ IsFiniteSet(Using(sighand, pc, o))
                  /\ sighandRefs[o] = Cardinality(Using(sighand, pc, o))
RunningCounted ==
  \A g \in Tids : /\ IsFiniteSet(Counted(state, tgid, pc, g))
                  /\ numRunning[g] = Cardinality(Counted(state, tgid, pc, g))

(* Only the leader tells the parent, when it was the last that ran.        *)
LeaderTells ==
  \A g \in Tids :
    /\ pc[g] = "notify" => exitSignal[g] /\ numRunning[g] = 0 /\ notified[g] = 0
    /\ notified[g] # 0 => /\ notified[g] = 1 /\ numRunning[g] = 0
                          /\ pc[g] \in {"unref", "clear", "reparent", "dead"}

(* init lives for ever, and every process has a parent that has not yet    *)
(* looked for its children.                                                *)
Parents ==
  /\ state[InitTid] = "RUNNING" /\ pc[InitTid] \in {"user", "clone"} /\ tgid[InitTid] = InitTid
  /\ \A t \in listed : exitSignal[t] =>
       \E u \in listed : tgid[u] = ppid[t] /\ state[u] = "RUNNING" /\ pc[u] # "dead"

TaskInv == /\ TypeOK /\ Stages /\ Building /\ GroupsCounted /\ SighandsCounted
           /\ RunningCounted /\ LeaderTells /\ Parents
-----------------------------------------------------------------------------
(* The size of a set that gains an element.                                *)
LEMMA OneMore ==
  ASSUME NEW S, NEW T, NEW x, IsFiniteSet(S), x \notin S, T = S \cup {x}
  PROVE  IsFiniteSet(T) /\ Cardinality(T) = Cardinality(S) + 1
BY FS_AddElement

(* A set that loses one was not empty.                                     *)
LEMMA OneLess ==
  ASSUME NEW S, NEW T, NEW x, IsFiniteSet(S), x \in S, T = S \ {x}
  PROVE  /\ IsFiniteSet(T) /\ Cardinality(T) = Cardinality(S) - 1
         /\ Cardinality(S) \in Nat /\ Cardinality(S) > 0
<1>1. IsFiniteSet(T) /\ Cardinality(T) = Cardinality(S) - 1
  BY FS_RemoveElement
<1>2. Cardinality(S) \in Nat /\ Cardinality(S) # 0
  BY FS_CardinalityType, FS_EmptySet
<1> QED
  BY <1>1, <1>2

(* The invariant says that the counts are exact,                           *)
LEMMA InvRefCountsExact ==
  ASSUME TaskInv
  PROVE  RefCountsExact
BY DEF TaskInv, GroupsCounted, SighandsCounted, RefCountsExact, Pointing, Using

(* and that families are as they should be: with num_running at 0 every    *)
(* task of the group has left the part of exit where it counts.            *)
LEMMA InvFamiliesExact ==
  ASSUME TaskInv
  PROVE  FamiliesExact
<1>1. NotifiesOnceAtTheEnd
  <2>1. ASSUME NEW g \in Tids PROVE notified[g] <= 1
    BY DEF TaskInv, TypeOK, LeaderTells
  <2>2. ASSUME NEW g \in Tids, notified[g] = 1, NEW t \in listed, tgid[t] = g
        PROVE  state[t] = "DEAD" \/ pc[t] \in {"unref", "clear", "reparent", "dead"}
    <3>1. t \in Tids /\ state[t] \in {"RUNNING", "DEAD"} /\ pc[t] \in Pcs
      BY DEF TaskInv, TypeOK, Stages
    <3>2. numRunning[g] = 0 /\ pc[g] # "notify"
      BY <2>2 DEF TaskInv, LeaderTells
    <3>3. Counted(state, tgid, pc, g) = {}
      BY <3>2, FS_EmptySet DEF TaskInv, RunningCounted
    <3>4. pc[t] = "notify" => t = g
      BY <2>2, <3>1 DEF TaskInv, LeaderTells, Stages
    <3> QED
      BY <2>2, <3>1, <3>2, <3>3, <3>4 DEF Counted, Pcs
  <2> QED
    BY <2>1, <2>2 DEF NotifiesOnceAtTheEnd
<1>2. OrphansAdopted
  BY DEF TaskInv, Parents, OrphansAdopted, Member
<1> QED
  BY <1>1, <1>2 DEF FamiliesExact

(* init is the only task at first.                                         *)
LEMMA InitTaskInv ==
  ASSUME Init
  PROVE  TaskInv
<1> USE TidsAssumption DEF Init, OnlyInit
<1>1. TypeOK
  BY DEF TypeOK, Pcs
<1>2. Stages /\ Building /\ LeaderTells /\ Parents
  BY DEF Stages, Building, LeaderTells, Parents
<1>3. ASSUME NEW o \in Tids
      PROVE  /\ Pointing(threadGroup, o) = IF o = InitTid THEN {InitTid} ELSE {}
             /\ Using(sighand, pc, o) = IF o = InitTid THEN {InitTid} ELSE {}
             /\ Counted(state, tgid, pc, o) = IF o = InitTid THEN {InitTid} ELSE {}
  BY DEF Pointing, Using, Counted
<1>4. /\ IsFiniteSet({InitTid}) /\ Cardinality({InitTid}) = 1
      /\ IsFiniteSet({}) /\ Cardinality({}) = 0
  BY FS_Singleton, FS_EmptySet
<1>5. GroupsCounted
  BY <1>3, <1>4 DEF GroupsCounted
<1>6. SighandsCounted
  BY <1>3, <1>4 DEF SighandsCounted
<1>7. RunningCounted
  BY <1>3, <1>4 DEF RunningCounted
<1> QED
  BY <1>1, <1>2, <1>5, <1>6, <1>7 DEF TaskInv
-----------------------------------------------------------------------------
(* Nobody's thread group changes.                                          *)
LEMMA SameGroups ==
  ASSUME TaskInv, UNCHANGED <<threadGroup, groupRefs>>
  PROVE  GroupsCounted'
BY DEF TaskInv, GroupsCounted

(* Nobody starts or stops using a table of handlers.                       *)
LEMMA SameSighands ==
  ASSUME TaskInv, UNCHANGED <<sighand, sighandRefs>>,
         \A t \in Tids : pc'[t] = "clear" <=> pc[t] = "clear"
  PROVE  SighandsCounted'
<1>1. \A o \in Tids : Using(sighand', pc', o) = Using(sighand, pc, o)
  BY DEF Using
<1> QED
  BY <1>1 DEF TaskInv, SighandsCounted

(* Nobody starts or stops counting as a running thread.                    *)
LEMMA SameRunning ==
  ASSUME TaskInv, UNCHANGED numRunning,
         \A t \in Tids : /\ (state'[t] = "RUNNING" /\ pc'[t] \in {"user", "clone", "exit"})
                              <=> (state[t] = "RUNNING" /\ pc[t] \in {"user", "clone", "exit"})
                         /\ state[t] = "RUNNING" => tgid'[t] = tgid[t]
  PROVE  RunningCounted'
<1>1. \A g \in Tids : Counted(state', tgid', pc', g) = Counted(state, tgid, pc, g)
  BY DEF Counted
<1> QED
  BY <1>1 DEF TaskInv, RunningCounted

(* sys_clone builds a child: nobody points to a fresh task, and it points  *)
(* to nothing yet.                                                         *)
LEMMA StepClone ==
  ASSUME TaskInv, NEW t \in Tids, NEW thread \in BOOLEAN, Clone(t, thread)
  PROVE  TaskInv'
<1> USE TidsAssumption
<1>1. PICK u \in Tids :
        /\ Fresh(u)
        /\ LET g == IF thread THEN threadGroup[t] ELSE u
               h == IF thread THEN sighand[t] ELSE u
           IN /\ tgid' = [tgid EXCEPT ![u] = IF thread THEN tgid[t] ELSE u]
              /\ ppid' = [ppid EXCEPT ![u] = IF thread THEN ppid[t] ELSE tgid[t]]
              /\ exitSignal' = [exitSignal EXCEPT ![u] = ~thread]
              /\ threadGroup' = [threadGroup EXCEPT ![u] = g]
              /\ sighand' = [sighand EXCEPT ![u] = h]
              /\ groupRefs' = [groupRefs EXCEPT ![g] = @ + 1]
              /\ sighandRefs' = [sighandRefs EXCEPT ![h] = @ + 1]
        /\ arg' = [arg EXCEPT ![t] = u]
  BY DEF Clone
<1> DEFINE g == IF thread THEN threadGroup[t] ELSE u
           h == IF thread THEN sighand[t] ELSE u
           k == IF thread THEN tgid[t] ELSE u
<1>2. /\ state[t] = "RUNNING" /\ pc[t] = "user" /\ pc' = [pc EXCEPT ![t] = "clone"]
      /\ UNCHANGED <<state, listed, killed, numRunning, notified>>
  BY DEF Clone, At, Goto
<1>3. tgid[u] = NoTid /\ state[u] = "NEW" /\ threadGroup[u] = NoTid /\ sighand[u] = NoTid
  BY <1>1 DEF Fresh, TaskInv, Stages
<1>4. u # t /\ u \notin listed /\ pc[u] = "user"
  BY <1>2, <1>3 DEF TaskInv, Stages
<1>5. /\ threadGroup[t] \in Tids /\ sighand[t] \in Tids /\ threadGroup[t] = tgid[t]
      /\ g \in Tids /\ h \in Tids /\ g = k
  BY <1>2 DEF TaskInv, Stages
<1>6. /\ tgid' = [tgid EXCEPT ![u] = k]
      /\ exitSignal' = [exitSignal EXCEPT ![u] = ~thread]
      /\ threadGroup' = [threadGroup EXCEPT ![u] = g]
      /\ sighand' = [sighand EXCEPT ![u] = h]
      /\ groupRefs' = [groupRefs EXCEPT ![g] = groupRefs[g] + 1]
      /\ sighandRefs' = [sighandRefs EXCEPT ![h] = sighandRefs[h] + 1]
      /\ ppid' = [ppid EXCEPT ![u] = IF thread THEN ppid[t] ELSE tgid[t]]
      /\ arg' = [arg EXCEPT ![t] = u]
  BY <1>1
<1>7. k \in {tgid[t], u} /\ (~thread => k = u) /\ k \in Tids
  BY <1>5
<1> HIDE DEF g, h, k
<1>8. /\ tgid'[u] = k /\ exitSignal'[u] = ~thread /\ threadGroup'[u] = g /\ sighand'[u] = h
      /\ ~thread => ppid'[u] = tgid[t]
      /\ \A v \in Tids \ {u} : /\ tgid'[v] = tgid[v] /\ exitSignal'[v] = exitSignal[v]
                               /\ threadGroup'[v] = threadGroup[v] /\ sighand'[v] = sighand[v]
                               /\ ppid'[v] = ppid[v]
  BY <1>6 DEF TaskInv, TypeOK
<1>9. /\ arg'[t] = u /\ pc'[t] = "clone"
      /\ \A v \in Tids \ {t} : arg'[v] = arg[v] /\ pc'[v] = pc[v]
  BY <1>2, <1>6 DEF TaskInv, TypeOK
<1>10. TypeOK'
  <2>1. tgid' \in [Tids -> Tids \cup {NoTid}] /\ ppid' \in [Tids -> Tids \cup {NoTid}]
    BY <1>6, <1>7 DEF TaskInv, TypeOK
  <2>2. threadGroup' \in [Tids -> Tids \cup {NoTid}] /\ sighand' \in [Tids -> Tids \cup {NoTid}]
    BY <1>5, <1>6 DEF TaskInv, TypeOK
  <2>3. groupRefs' \in [Tids -> Nat] /\ sighandRefs' \in [Tids -> Nat]
    BY <1>5, <1>6 DEF TaskInv, TypeOK
  <2>4. exitSignal' \in [Tids -> BOOLEAN] /\ arg' \in [Tids -> Tids \cup {NoTid}]
    BY <1>6 DEF TaskInv, TypeOK
  <2>5. pc' \in [Tids -> Pcs]
    BY <1>2 DEF TaskInv, TypeOK, Pcs
  <2> QED
    BY <1>2, <2>1, <2>2, <2>3, <2>4, <2>5 DEF TaskInv, TypeOK
<1>11. Stages'
  <2>1. ASSUME NEW v \in Tids, v # u
        PROVE  /\ v \in listed' <=> state'[v] \in {"RUNNING", "DEAD"}
               /\ state'[v] = "NEW" => pc'[v] = "user"
               /\ state'[v] = "DEAD" => pc'[v] = "dead"
               /\ state'[v] = "FREED" => pc'[v] \in {"user", "dead"}
               /\ tgid'[v] = NoTid => state'[v] = "NEW" /\ threadGroup'[v] = NoTid /\ sighand'[v] = NoTid
               /\ state'[v] = "RUNNING" /\ pc'[v] \in {"user", "clone", "exit", "notify", "unref"}
                    => threadGroup'[v] \in Tids /\ sighand'[v] \in Tids
               /\ threadGroup'[v] # NoTid => threadGroup'[v] = tgid'[v]
               /\ exitSignal'[v] => tgid'[v] = v
    BY <1>2, <1>5, <1>8, <1>9, <2>1 DEF TaskInv, Stages
  <2>2. /\ u \notin listed' /\ state'[u] = "NEW" /\ pc'[u] = "user" /\ tgid'[u] # NoTid
        /\ threadGroup'[u] = tgid'[u]
        /\ exitSignal'[u] => tgid'[u] = u
    BY <1>2, <1>3, <1>4, <1>5, <1>7, <1>8, <1>9, ZenonT(40)
  <2> QED
    BY <2>1, <2>2 DEF Stages
<1>12. Building'
  <2>1. ASSUME NEW v \in Tids \ {t}, pc[v] = "clone" PROVE arg[v] # u /\ arg[v] \in Tids
    BY <1>3, <2>1 DEF TaskInv, Building
  <2>2. ASSUME NEW v \in Tids, pc'[v] = "clone", v # t
        PROVE  /\ arg'[v] \in Tids /\ state'[arg'[v]] = "NEW" /\ tgid'[arg'[v]] \in {tgid'[v], arg'[v]}
               /\ threadGroup'[arg'[v]] \in Tids /\ sighand'[arg'[v]] \in Tids
               /\ exitSignal'[arg'[v]] => ppid'[arg'[v]] = tgid'[v]
               /\ \A w \in Tids : pc'[w] = "clone" /\ arg'[w] = arg'[v] => w = v
    <3>1. v # u /\ pc[v] = "clone" /\ arg'[v] = arg[v] /\ arg[v] # u /\ arg[v] \in Tids
      BY <1>4, <1>9, <2>1, <2>2
    <3>2. \A w \in Tids : pc'[w] = "clone" /\ arg'[w] = arg'[v] => w = v
      BY <1>9, <2>1, <3>1 DEF TaskInv, Building
    <3>3. /\ state[arg[v]] = "NEW" /\ tgid[arg[v]] \in {tgid[v], arg[v]}
          /\ threadGroup[arg[v]] \in Tids /\ sighand[arg[v]] \in Tids
          /\ exitSignal[arg[v]] => ppid[arg[v]] = tgid[v]
      BY <3>1 DEF TaskInv, Building
    <3>4. /\ tgid'[arg[v]] = tgid[arg[v]] /\ threadGroup'[arg[v]] = threadGroup[arg[v]]
          /\ sighand'[arg[v]] = sighand[arg[v]] /\ exitSignal'[arg[v]] = exitSignal[arg[v]]
          /\ ppid'[arg[v]] = ppid[arg[v]] /\ tgid'[v] = tgid[v] /\ state' = state
      BY <1>2, <1>8, <3>1
    <3> QED
      BY <3>1, <3>2, <3>3, <3>4
  <2>3. /\ arg'[t] \in Tids /\ state'[arg'[t]] = "NEW" /\ tgid'[arg'[t]] \in {tgid'[t], arg'[t]}
        /\ threadGroup'[arg'[t]] \in Tids /\ sighand'[arg'[t]] \in Tids
        /\ exitSignal'[arg'[t]] => ppid'[arg'[t]] = tgid'[t]
    BY <1>2, <1>3, <1>4, <1>5, <1>7, <1>8, <1>9
  <2>4. \A w \in Tids : pc'[w] = "clone" /\ arg'[w] = arg'[t] => w = t
    BY <1>9, <2>1
  <2> QED
    BY <2>2, <2>3, <2>4 DEF Building
<1>13. GroupsCounted'
  <2>1. /\ Pointing(threadGroup', g) = Pointing(threadGroup, g) \cup {u}
        /\ u \notin Pointing(threadGroup, g)
        /\ \A o \in Tids \ {g} : Pointing(threadGroup', o) = Pointing(threadGroup, o)
    BY <1>3, <1>5, <1>8 DEF Pointing
  <2>2. groupRefs'[g] = groupRefs[g] + 1 /\ \A o \in Tids \ {g} : groupRefs'[o] = groupRefs[o]
    BY <1>5, <1>6 DEF TaskInv, TypeOK
  <2>3. /\ IsFiniteSet(Pointing(threadGroup, g)) /\ groupRefs[g] = Cardinality(Pointing(threadGroup, g))
    BY <1>5 DEF TaskInv, GroupsCounted
  <2>4. /\ IsFiniteSet(Pointing(threadGroup', g)) /\ groupRefs'[g] = Cardinality(Pointing(threadGroup', g))
    BY <2>1, <2>2, <2>3, OneMore
  <2> QED
    BY <2>1, <2>2, <2>4 DEF TaskInv, GroupsCounted
<1>14. SighandsCounted'
  <2>1. /\ Using(sighand', pc', h) = Using(sighand, pc, h) \cup {u}
        /\ u \notin Using(sighand, pc, h)
        /\ \A o \in Tids \ {h} : Using(sighand', pc', o) = Using(sighand, pc, o)
    <3>1. \A v \in Tids : pc'[v] = "clear" <=> pc[v] = "clear"
      BY <1>2, <1>9
    <3>2. pc[u] # "clear" /\ sighand[u] \notin Tids
      BY <1>3, <1>4
    <3>3. u \notin Using(sighand, pc, h)
      BY <1>5, <3>2 DEF Using
    <3>4. Using(sighand', pc', h) = Using(sighand, pc, h) \cup {u}
      BY <1>8, <3>1, <3>2, ZenonT(40) DEF Using
    <3>5. \A o \in Tids \ {h} : Using(sighand', pc', o) = Using(sighand, pc, o)
      BY <1>8, <3>1, <3>2, ZenonT(40) DEF Using
    <3> QED
      BY <3>3, <3>4, <3>5
  <2>2. sighandRefs'[h] = sighandRefs[h] + 1 /\ \A o \in Tids \ {h} : sighandRefs'[o] = sighandRefs[o]
    BY <1>5, <1>6 DEF TaskInv, TypeOK
  <2>3. /\ IsFiniteSet(Using(sighand, pc, h)) /\ sighandRefs[h] = Cardinality(Using(sighand, pc, h))
    BY <1>5 DEF TaskInv, SighandsCounted
  <2>4. /\ IsFiniteSet(Using(sighand', pc', h)) /\ sighandRefs'[h] = Cardinality(Using(sighand', pc', h))
    BY <2>1, <2>2, <2>3, OneMore
  <2> QED
    BY <2>1, <2>2, <2>4 DEF TaskInv, SighandsCounted
<1>15. RunningCounted'
  <2>1. \A v \in Tids : /\ (state'[v] = "RUNNING" /\ pc'[v] \in {"user", "clone", "exit"})
                              <=> (state[v] = "RUNNING" /\ pc[v] \in {"user", "clone", "exit"})
                        /\ state[v] = "RUNNING" => tgid'[v] = tgid[v]
    BY <1>2, <1>3, <1>8, <1>9
  <2> QED
    BY <1>2, <2>1, SameRunning
<1>16. LeaderTells'
  BY <1>2, <1>4, <1>8, <1>9 DEF TaskInv, LeaderTells
<1>17. Parents'
  <2>1. ASSUME NEW v \in listed', exitSignal'[v]
        PROVE  \E w \in listed' : tgid'[w] = ppid'[v] /\ state'[w] = "RUNNING" /\ pc'[w] # "dead"
    <3>1. v \in listed /\ v \in Tids /\ v # u /\ listed \subseteq Tids
      BY <1>2, <1>4 DEF TaskInv, TypeOK
    <3>2. PICK w \in listed : tgid[w] = ppid[v] /\ state[w] = "RUNNING" /\ pc[w] # "dead"
      BY <1>8, <2>1, <3>1 DEF TaskInv, Parents
    <3>3. w # u /\ w \in Tids
      BY <1>4, <3>1
    <3> QED
      BY <1>2, <1>8, <1>9, <3>1, <3>2, <3>3
  <2>2. state'[InitTid] = "RUNNING" /\ pc'[InitTid] \in {"user", "clone"} /\ tgid'[InitTid] = InitTid
    BY <1>2, <1>3, <1>8, <1>9 DEF TaskInv, Parents
  <2> QED
    BY <2>1, <2>2 DEF Parents
<1> QED
  BY <1>10, <1>11, <1>12, <1>13, <1>14, <1>15, <1>16, <1>17 DEF TaskInv

(* The child becomes visible.  Its group has a thread that is in clone, or *)
(* is its own: nobody can have spoken for the group yet.                   *)
LEMMA StepCloneRegister ==
  ASSUME TaskInv, NEW t \in Tids, CloneRegister(t)
  PROVE  TaskInv'
<1> USE TidsAssumption
<1> DEFINE u == arg[t]
           g == threadGroup[u]
<1>1. /\ state[t] = "RUNNING" /\ pc[t] = "clone" /\ pc' = [pc EXCEPT ![t] = "user"]
      /\ numRunning' = [numRunning EXCEPT ![g] = numRunning[g] + 1]
      /\ state' = [state EXCEPT ![u] = "RUNNING"]
      /\ listed' = listed \cup {u}
      /\ arg' = [arg EXCEPT ![t] = NoTid]
      /\ UNCHANGED <<tgid, ppid, exitSignal, killed, threadGroup, sighand, groupRefs,
                     sighandRefs, notified>>
  BY DEF CloneRegister, At, Goto
<1>2. /\ u \in Tids /\ state[u] = "NEW" /\ tgid[u] \in {tgid[t], u}
      /\ g \in Tids /\ sighand[u] \in Tids
      /\ (exitSignal[u] => ppid[u] = tgid[t])
      /\ \A v \in Tids : pc[v] = "clone" /\ arg[v] = u => v = t
  BY <1>1 DEF TaskInv, Building
<1>3. u # t /\ u \notin listed /\ pc[u] = "user" /\ g = tgid[u] /\ t \in listed
  BY <1>1, <1>2 DEF TaskInv, Stages
<1> HIDE DEF u, g
<1>4. /\ pc'[t] = "user" /\ arg'[t] = NoTid /\ \A v \in Tids \ {t} : arg'[v] = arg[v] /\ pc'[v] = pc[v]
      /\ state'[u] = "RUNNING" /\ \A v \in Tids \ {u} : state'[v] = state[v]
      /\ numRunning'[g] = numRunning[g] + 1 /\ \A o \in Tids \ {g} : numRunning'[o] = numRunning[o]
  BY <1>1, <1>2 DEF TaskInv, TypeOK
<1>5. TypeOK'
  <2>1. numRunning' \in [Tids -> Nat]
    BY <1>1, <1>2 DEF TaskInv, TypeOK
  <2> QED
    BY <1>1, <1>2, <2>1 DEF TaskInv, TypeOK, Pcs
<1>6. Stages'
  BY <1>1, <1>2, <1>3, <1>4 DEF TaskInv, Stages, g
<1>7. Building'
  <2>1. ASSUME NEW v \in Tids, pc'[v] = "clone"
        PROVE  v # t /\ pc[v] = "clone" /\ arg'[v] = arg[v] /\ arg[v] # u
    BY <1>2, <1>4, <2>1
  <2>2. ASSUME NEW v \in Tids, pc'[v] = "clone"
        PROVE  \A w \in Tids : pc'[w] = "clone" /\ arg'[w] = arg'[v] => w = v
    BY <2>1, <2>2 DEF TaskInv, Building
  <2> QED
    BY <1>1, <1>4, <2>1, <2>2 DEF TaskInv, Building
<1>8. GroupsCounted'
  BY <1>1, SameGroups
<1>9. SighandsCounted'
  BY <1>1, <1>4, SameSighands
<1>10. RunningCounted'
  <2>1. /\ Counted(state', tgid', pc', g) = Counted(state, tgid, pc, g) \cup {u}
        /\ u \notin Counted(state, tgid, pc, g)
        /\ \A o \in Tids \ {g} : Counted(state', tgid', pc', o) = Counted(state, tgid, pc, o)
    <3>1. \A v \in Tids \ {u} : (state'[v] = "RUNNING" /\ pc'[v] \in {"user", "clone", "exit"})
                                  <=> (state[v] = "RUNNING" /\ pc[v] \in {"user", "clone", "exit"})
      BY <1>1, <1>4
    <3>2. state'[u] = "RUNNING" /\ pc'[u] = "user" /\ tgid'[u] = g /\ state[u] # "RUNNING"
      BY <1>1, <1>2, <1>3, <1>4
    <3> QED
      BY <1>1, <1>2, <3>1, <3>2 DEF Counted
  <2>2. IsFiniteSet(Counted(state, tgid, pc, g)) /\ numRunning[g] = Cardinality(Counted(state, tgid, pc, g))
    BY <1>2 DEF TaskInv, RunningCounted
  <2>3. IsFiniteSet(Counted(state', tgid', pc', g)) /\ numRunning'[g] = Cardinality(Counted(state', tgid', pc', g))
    BY <1>4, <2>1, <2>2, OneMore
  <2> QED
    BY <1>4, <2>1, <2>3 DEF TaskInv, RunningCounted
<1>11. LeaderTells'
  <2>1. pc[g] # "notify" /\ notified[g] = 0
    <3>1. CASE g = u
      BY <1>2, <1>3, <3>1 DEF TaskInv, LeaderTells
    <3>2. CASE g # u
      <4>1. t \in Counted(state, tgid, pc, g)
        BY <1>1, <1>2, <1>3, <3>2 DEF Counted
      <4>2. numRunning[g] # 0
        BY <1>2, <4>1, FS_EmptySet DEF TaskInv, RunningCounted
      <4> QED
        BY <1>2, <4>2 DEF TaskInv, LeaderTells
    <3> QED
      BY <3>1, <3>2
  <2> QED
    BY <1>1, <1>4, <2>1 DEF TaskInv, LeaderTells
<1>12. Parents'
  <2>1. ASSUME NEW v \in listed', exitSignal'[v]
        PROVE  \E w \in listed' : tgid'[w] = ppid'[v] /\ state'[w] = "RUNNING" /\ pc'[w] # "dead"
    <3>1. CASE v = u
      BY <1>1, <1>2, <1>3, <1>4, <2>1, <3>1
    <3>2. CASE v # u
      <4>1. PICK w \in listed : tgid[w] = ppid[v] /\ state[w] = "RUNNING" /\ pc[w] # "dead"
        BY <1>1, <2>1, <3>2 DEF TaskInv, Parents
      <4>2. w # u /\ w \in Tids
        BY <1>3 DEF TaskInv, TypeOK
      <4> QED
        BY <1>1, <1>4, <4>1, <4>2
    <3> QED
      BY <3>1, <3>2
  <2>2. state'[InitTid] = "RUNNING" /\ pc'[InitTid] \in {"user", "clone"} /\ tgid'[InitTid] = InitTid
    BY <1>1, <1>4 DEF TaskInv, Parents
  <2> QED
    BY <2>1, <2>2 DEF Parents
<1> QED
  BY <1>5, <1>6, <1>7, <1>8, <1>9, <1>10, <1>11, <1>12 DEF TaskInv

(* The error path gives up both references of the child.                   *)
LEMMA StepCloneFail ==
  ASSUME TaskInv, NEW t \in Tids, CloneFail(t)
  PROVE  TaskInv'
<1> USE TidsAssumption
<1> DEFINE u == arg[t]
           g == threadGroup[u]
           h == sighand[u]
<1>1. /\ state[t] = "RUNNING" /\ pc[t] = "clone" /\ pc' = [pc EXCEPT ![t] = "user"]
      /\ groupRefs' = [groupRefs EXCEPT ![g] = groupRefs[g] - 1]
      /\ sighandRefs' = [sighandRefs EXCEPT ![h] = sighandRefs[h] - 1]
      /\ threadGroup' = [threadGroup EXCEPT ![u] = NoTid]
      /\ sighand' = [sighand EXCEPT ![u] = NoTid]
      /\ state' = [state EXCEPT ![u] = "FREED"]
      /\ arg' = [arg EXCEPT ![t] = NoTid]
      /\ UNCHANGED <<listed, tgid, ppid, exitSignal, killed, numRunning, notified>>
  BY DEF CloneFail, At, Goto
<1>2. /\ u \in Tids /\ state[u] = "NEW" /\ g \in Tids /\ h \in Tids
      /\ \A v \in Tids : pc[v] = "clone" /\ arg[v] = u => v = t
  BY <1>1 DEF TaskInv, Building
<1>3. u # t /\ u \notin listed /\ pc[u] = "user" /\ tgid[u] # NoTid
  BY <1>1, <1>2 DEF TaskInv, Stages
<1>4. u \in Pointing(threadGroup, g) /\ u \in Using(sighand, pc, h)
  BY <1>2, <1>3 DEF Pointing, Using
<1>5. threadGroup[u] = g /\ sighand[u] = h
  OBVIOUS
<1> HIDE DEF u, g, h
<1>6. /\ pc'[t] = "user" /\ arg'[t] = NoTid /\ \A v \in Tids \ {t} : arg'[v] = arg[v] /\ pc'[v] = pc[v]
      /\ state'[u] = "FREED" /\ threadGroup'[u] = NoTid /\ sighand'[u] = NoTid
      /\ \A v \in Tids \ {u} : /\ state'[v] = state[v] /\ threadGroup'[v] = threadGroup[v]
                               /\ sighand'[v] = sighand[v]
      /\ groupRefs'[g] = groupRefs[g] - 1 /\ \A o \in Tids \ {g} : groupRefs'[o] = groupRefs[o]
      /\ sighandRefs'[h] = sighandRefs[h] - 1 /\ \A o \in Tids \ {h} : sighandRefs'[o] = sighandRefs[o]
  BY <1>1, <1>2 DEF TaskInv, TypeOK
<1>7. /\ IsFiniteSet(Pointing(threadGroup, g)) /\ groupRefs[g] = Cardinality(Pointing(threadGroup, g))
      /\ IsFiniteSet(Using(sighand, pc, h)) /\ sighandRefs[h] = Cardinality(Using(sighand, pc, h))
  BY <1>2 DEF TaskInv, GroupsCounted, SighandsCounted
<1>8. GroupsCounted' /\ groupRefs[g] > 0
  <2>1. /\ Pointing(threadGroup', g) = Pointing(threadGroup, g) \ {u}
        /\ \A o \in Tids \ {g} : Pointing(threadGroup', o) = Pointing(threadGroup, o)
    <3>1. threadGroup'[u] \notin Tids /\ threadGroup[u] = g
      BY <1>5, <1>6
    <3>2. Pointing(threadGroup', g) = Pointing(threadGroup, g) \ {u}
      BY <1>2, <1>6, <3>1 DEF Pointing
    <3>3. ASSUME NEW o \in Tids \ {g} PROVE Pointing(threadGroup', o) = Pointing(threadGroup, o)
      <4>1. \A v \in Tids : threadGroup'[v] = o <=> threadGroup[v] = o
        BY <1>2, <1>6, <3>1
      <4> QED
        BY <4>1 DEF Pointing
    <3> QED
      BY <3>2, <3>3
  <2>2. /\ IsFiniteSet(Pointing(threadGroup', g)) /\ groupRefs'[g] = Cardinality(Pointing(threadGroup', g))
        /\ groupRefs[g] > 0
    BY <1>4, <1>6, <1>7, <2>1, OneLess
  <2> QED
    BY <1>6, <2>1, <2>2 DEF TaskInv, GroupsCounted
<1>9. SighandsCounted' /\ sighandRefs[h] > 0
  <2>1. \A v \in Tids : pc'[v] = "clear" <=> pc[v] = "clear"
    BY <1>1, <1>6
  <2>2. /\ Using(sighand', pc', h) = Using(sighand, pc, h) \ {u}
        /\ \A o \in Tids \ {h} : Using(sighand', pc', o) = Using(sighand, pc, o)
    <3>1. sighand'[u] \notin Tids /\ sighand[u] = h
      BY <1>5, <1>6
    <3>2. Using(sighand', pc', h) = Using(sighand, pc, h) \ {u}
      BY <1>2, <1>6, <2>1, <3>1, ZenonT(40) DEF Using
    <3>3. ASSUME NEW o \in Tids \ {h} PROVE Using(sighand', pc', o) = Using(sighand, pc, o)
      <4>1. \A v \in Tids : sighand'[v] = o <=> sighand[v] = o
        BY <1>6, <3>1
      <4> QED
        BY <2>1, <4>1 DEF Using
    <3> QED
      BY <3>2, <3>3
  <2>3. /\ IsFiniteSet(Using(sighand', pc', h)) /\ sighandRefs'[h] = Cardinality(Using(sighand', pc', h))
        /\ sighandRefs[h] > 0
    BY <1>4, <1>6, <1>7, <2>2, OneLess
  <2> QED
    BY <1>6, <2>2, <2>3 DEF TaskInv, SighandsCounted
<1>10. TypeOK'
  <2>1. groupRefs' \in [Tids -> Nat] /\ sighandRefs' \in [Tids -> Nat]
    BY <1>1, <1>2, <1>8, <1>9 DEF TaskInv, TypeOK
  <2> QED
    BY <1>1, <1>2, <2>1 DEF TaskInv, TypeOK, Pcs
<1>11. Stages'
  BY <1>1, <1>2, <1>3, <1>6 DEF TaskInv, Stages
<1>12. Building'
  <2>1. ASSUME NEW v \in Tids, pc'[v] = "clone"
        PROVE  v # t /\ pc[v] = "clone" /\ arg'[v] = arg[v] /\ arg[v] # u
    BY <1>2, <1>6, <2>1
  <2>2. ASSUME NEW v \in Tids, pc'[v] = "clone"
        PROVE  \A w \in Tids : pc'[w] = "clone" /\ arg'[w] = arg'[v] => w = v
    BY <2>1, <2>2 DEF TaskInv, Building
  <2> QED
    BY <1>1, <1>6, <2>1, <2>2 DEF TaskInv, Building
<1>13. RunningCounted'
  BY <1>1, <1>2, <1>6, SameRunning
<1>14. LeaderTells'
  BY <1>1, <1>6 DEF TaskInv, LeaderTells
<1>15. Parents'
  <2>1. ASSUME NEW v \in listed', exitSignal'[v]
        PROVE  \E w \in listed' : tgid'[w] = ppid'[v] /\ state'[w] = "RUNNING" /\ pc'[w] # "dead"
    <3>1. PICK w \in listed : tgid[w] = ppid[v] /\ state[w] = "RUNNING" /\ pc[w] # "dead"
      BY <1>1, <2>1 DEF TaskInv, Parents
    <3>2. w # u /\ w \in Tids
      BY <1>3 DEF TaskInv, TypeOK
    <3> QED
      BY <1>1, <1>6, <3>1, <3>2
  <2>2. state'[InitTid] = "RUNNING" /\ pc'[InitTid] \in {"user", "clone"} /\ tgid'[InitTid] = InitTid
    BY <1>1, <1>2, <1>6 DEF TaskInv, Parents
  <2> QED
    BY <2>1, <2>2 DEF Parents
<1> QED
  BY <1>8, <1>9, <1>10, <1>11, <1>12, <1>13, <1>14, <1>15 DEF TaskInv

(* Signals, and the way into exit.                                         *)
LEMMA StepSignal ==
  ASSUME TaskInv, NEW t \in Tids,
         ExitGroup(t) \/ ExitThread(t) \/ \E u \in Tids : Kill(t, u)
  PROVE  TaskInv'
<1> USE TidsAssumption
<1>1. /\ killed' \in [Tids -> BOOLEAN]
      /\ \/ UNCHANGED pc
         \/ /\ state[t] = "RUNNING" /\ pc[t] = "user" /\ t # InitTid
            /\ pc' = [pc EXCEPT ![t] = "exit"]
      /\ UNCHANGED <<state, listed, tgid, ppid, exitSignal, threadGroup, sighand, numRunning,
                     groupRefs, sighandRefs, arg, notified>>
  BY DEF ExitGroup, ExitThread, Kill, Kills, At, Goto, TaskInv, TypeOK
<1>2. /\ \A v \in Tids \ {t} : pc'[v] = pc[v]
      /\ \/ pc'[t] = pc[t]
         \/ state[t] = "RUNNING" /\ pc[t] = "user" /\ t # InitTid /\ pc'[t] = "exit"
  BY <1>1 DEF TaskInv, TypeOK
<1>3. TypeOK'
  BY <1>1 DEF TaskInv, TypeOK, Pcs
<1>4. Stages'
  BY <1>1, <1>2 DEF TaskInv, Stages
<1>5. Building'
  <2>1. \A v \in Tids : pc'[v] = "clone" <=> pc[v] = "clone"
    BY <1>2
  <2> QED
    BY <1>1, <2>1 DEF TaskInv, Building
<1>6. GroupsCounted'
  BY <1>1, SameGroups
<1>7. SighandsCounted'
  BY <1>1, <1>2, SameSighands
<1>8. RunningCounted'
  BY <1>1, <1>2, SameRunning
<1>9. LeaderTells'
  BY <1>1, <1>2 DEF TaskInv, LeaderTells
<1>10. Parents'
  <2>1. \A v \in listed : pc[v] # "dead" => pc'[v] # "dead"
    BY <1>2 DEF TaskInv, TypeOK
  <2>2. pc'[InitTid] \in {"user", "clone"}
    BY <1>2 DEF TaskInv, Parents
  <2> QED
    BY <1>1, <2>1, <2>2 DEF TaskInv, Parents
<1> QED
  BY <1>3, <1>4, <1>5, <1>6, <1>7, <1>8, <1>9, <1>10 DEF TaskInv

(* A thread stops counting as a running one.  Only the leader can be about *)
(* to speak for the group, and then it was the last.                       *)
LEMMA StepExitBegin ==
  ASSUME TaskInv, NEW t \in Tids, ExitBegin(t)
  PROVE  TaskInv'
<1> USE TidsAssumption
<1> DEFINE g == threadGroup[t]
           tells == numRunning[g] = 1 /\ ppid[t] # NoTid /\ exitSignal[t]
<1>1. /\ state[t] = "RUNNING" /\ pc[t] = "exit" /\ numRunning[g] > 0
      /\ numRunning' = [numRunning EXCEPT ![g] = numRunning[g] - 1]
      /\ pc' = [pc EXCEPT ![t] = IF tells THEN "notify" ELSE "unref"]
      /\ arg' = [arg EXCEPT ![t] = arg'[t]] /\ arg'[t] \in Tids \cup {NoTid}
      /\ UNCHANGED <<state, listed, tgid, ppid, exitSignal, killed, threadGroup, sighand,
                     groupRefs, sighandRefs, notified>>
  BY DEF ExitBegin, At, Goto, TaskInv, TypeOK
<1>2. g \in Tids /\ g = tgid[t] /\ (exitSignal[t] => g = t)
  BY <1>1 DEF TaskInv, Stages
<1>3. t # InitTid
  BY <1>1 DEF TaskInv, Parents
<1>4. t \in Counted(state, tgid, pc, g)
  BY <1>1, <1>2 DEF Counted
<1>5. tells => numRunning[g] = 1 /\ exitSignal[t]
  OBVIOUS
<1>6. threadGroup[t] = g
  OBVIOUS
<1> HIDE DEF g, tells
<1>7. /\ pc'[t] \in {"notify", "unref"} /\ (pc'[t] = "notify" => tells)
      /\ \A v \in Tids \ {t} : arg'[v] = arg[v] /\ pc'[v] = pc[v]
      /\ numRunning'[g] = numRunning[g] - 1 /\ \A o \in Tids \ {g} : numRunning'[o] = numRunning[o]
  BY <1>1, <1>2 DEF TaskInv, TypeOK
<1>8. TypeOK'
  <2>1. numRunning' \in [Tids -> Nat]
    BY <1>1, <1>2 DEF TaskInv, TypeOK
  <2>2. pc' \in [Tids -> Pcs] /\ arg' \in [Tids -> Tids \cup {NoTid}]
    BY <1>1 DEF TaskInv, TypeOK, Pcs
  <2> QED
    BY <1>1, <2>1, <2>2 DEF TaskInv, TypeOK
<1>9. Stages'
  BY <1>1, <1>2, <1>7 DEF TaskInv, Stages
<1>10. Building'
  <2>1. ASSUME NEW v \in Tids, pc'[v] = "clone" PROVE pc[v] = "clone" /\ arg'[v] = arg[v]
    BY <1>7, <2>1
  <2> QED
    BY <1>1, <2>1 DEF TaskInv, Building
<1>11. GroupsCounted'
  BY <1>1, SameGroups
<1>12. SighandsCounted'
  BY <1>1, <1>7, SameSighands
<1>13. RunningCounted'
  <2>1. /\ Counted(state', tgid', pc', g) = Counted(state, tgid, pc, g) \ {t}
        /\ \A o \in Tids \ {g} : Counted(state', tgid', pc', o) = Counted(state, tgid, pc, o)
    <3>1. pc'[t] \notin {"user", "clone", "exit"}
      BY <1>7
    <3> QED
      BY <1>1, <1>2, <1>7, <3>1 DEF Counted
  <2>2. IsFiniteSet(Counted(state, tgid, pc, g)) /\ numRunning[g] = Cardinality(Counted(state, tgid, pc, g))
    BY <1>2 DEF TaskInv, RunningCounted
  <2>3. IsFiniteSet(Counted(state', tgid', pc', g)) /\ numRunning'[g] = Cardinality(Counted(state', tgid', pc', g))
    BY <1>4, <1>7, <2>1, <2>2, OneLess
  <2> QED
    BY <1>7, <2>1, <2>3 DEF TaskInv, RunningCounted
<1>14. LeaderTells'
  <2>1. pc[g] # "notify" /\ notified[g] = 0 /\ notified[t] = 0
    BY <1>1, <1>2 DEF TaskInv, LeaderTells
  <2>2. ASSUME pc'[t] = "notify" PROVE exitSignal'[t] /\ numRunning'[t] = 0 /\ notified'[t] = 0
    <3>1. t = g /\ exitSignal[t] /\ numRunning[g] = 1
      BY <1>2, <1>5, <1>7, <2>2
    <3> QED
      BY <1>1, <1>7, <2>1, <3>1
  <2>3. ASSUME NEW o \in Tids, o # t, pc'[o] = "notify"
        PROVE  exitSignal'[o] /\ numRunning'[o] = 0 /\ notified'[o] = 0
    BY <1>1, <1>7, <2>1, <2>3 DEF TaskInv, LeaderTells
  <2>4. ASSUME NEW o \in Tids, notified'[o] # 0
        PROVE  notified'[o] = 1 /\ numRunning'[o] = 0 /\ pc'[o] \in {"unref", "clear", "reparent", "dead"}
    BY <1>1, <1>7, <2>1, <2>4 DEF TaskInv, LeaderTells
  <2> QED
    BY <2>2, <2>3, <2>4 DEF LeaderTells
<1>15. Parents'
  <2>1. \A v \in listed : pc[v] # "dead" => pc'[v] # "dead"
    BY <1>7 DEF TaskInv, TypeOK
  <2>2. pc'[InitTid] \in {"user", "clone"}
    BY <1>3, <1>7 DEF TaskInv, Parents
  <2> QED
    BY <1>1, <2>1, <2>2 DEF TaskInv, Parents
<1> QED
  BY <1>8, <1>9, <1>10, <1>11, <1>12, <1>13, <1>14, <1>15 DEF TaskInv

(* The exit signal is sent: the leader does it once.                       *)
LEMMA StepExitNotify ==
  ASSUME TaskInv, NEW t \in Tids, ExitNotify(t)
  PROVE  TaskInv'
<1> USE TidsAssumption
<1>1. /\ state[t] = "RUNNING" /\ pc[t] = "notify" /\ pc' = [pc EXCEPT ![t] = "unref"]
      /\ notified' = [notified EXCEPT ![threadGroup[t]] = notified[threadGroup[t]] + 1]
      /\ arg' = [arg EXCEPT ![t] = NoTid]
      /\ UNCHANGED <<state, listed, tgid, ppid, exitSignal, killed, threadGroup, sighand,
                     numRunning, groupRefs, sighandRefs>>
  BY DEF ExitNotify, At, Goto
<1>2. threadGroup[t] = t /\ numRunning[t] = 0 /\ notified[t] = 0
  BY <1>1 DEF TaskInv, Stages, LeaderTells
<1>3. t # InitTid
  BY <1>1 DEF TaskInv, Parents
<1>4. /\ pc'[t] = "unref" /\ \A v \in Tids \ {t} : arg'[v] = arg[v] /\ pc'[v] = pc[v]
      /\ notified'[t] = 1 /\ \A v \in Tids \ {t} : notified'[v] = notified[v]
  BY <1>1, <1>2 DEF TaskInv, TypeOK
<1>5. TypeOK'
  <2>1. notified' \in [Tids -> Nat]
    BY <1>1, <1>2 DEF TaskInv, TypeOK
  <2> QED
    BY <1>1, <2>1 DEF TaskInv, TypeOK, Pcs
<1>6. Stages'
  BY <1>1, <1>4 DEF TaskInv, Stages
<1>7. Building'
  <2>1. ASSUME NEW v \in Tids, pc'[v] = "clone" PROVE pc[v] = "clone" /\ arg'[v] = arg[v]
    BY <1>4, <2>1
  <2> QED
    BY <1>1, <2>1 DEF TaskInv, Building
<1>8. GroupsCounted'
  BY <1>1, SameGroups
<1>9. SighandsCounted'
  BY <1>1, <1>4, SameSighands
<1>10. RunningCounted'
  BY <1>1, <1>4, SameRunning
<1>11. LeaderTells'
  BY <1>1, <1>2, <1>4 DEF TaskInv, LeaderTells
<1>12. Parents'
  <2>1. \A v \in listed : pc[v] # "dead" => pc'[v] # "dead"
    BY <1>4 DEF TaskInv, TypeOK
  <2>2. pc'[InitTid] \in {"user", "clone"}
    BY <1>3, <1>4 DEF TaskInv, Parents
  <2> QED
    BY <1>1, <2>1, <2>2 DEF TaskInv, Parents
<1> QED
  BY <1>5, <1>6, <1>7, <1>8, <1>9, <1>10, <1>11, <1>12 DEF TaskInv

(* The references of the task itself are given up; the pointer to the      *)
(* handlers stays a moment longer.                                         *)
LEMMA StepExitUnref ==
  ASSUME TaskInv, NEW t \in Tids, ExitUnref(t)
  PROVE  TaskInv'
<1> USE TidsAssumption
<1> DEFINE g == threadGroup[t]
           h == sighand[t]
<1>1. /\ state[t] = "RUNNING" /\ pc[t] = "unref" /\ pc' = [pc EXCEPT ![t] = "clear"]
      /\ groupRefs' = [groupRefs EXCEPT ![g] = groupRefs[g] - 1]
      /\ threadGroup' = [threadGroup EXCEPT ![t] = NoTid]
      /\ sighandRefs' = [sighandRefs EXCEPT ![h] = sighandRefs[h] - 1]
      /\ UNCHANGED <<state, listed, tgid, ppid, exitSignal, killed, sighand, numRunning,
                     arg, notified>>
  BY DEF ExitUnref, At, Goto
<1>2. g \in Tids /\ h \in Tids
  BY <1>1 DEF TaskInv, Stages
<1>3. t # InitTid
  BY <1>1 DEF TaskInv, Parents
<1>4. t \in Pointing(threadGroup, g) /\ t \in Using(sighand, pc, h)
  BY <1>1 DEF Pointing, Using
<1>5. threadGroup[t] = g /\ sighand[t] = h
  OBVIOUS
<1> HIDE DEF g, h
<1>6. /\ pc'[t] = "clear" /\ threadGroup'[t] = NoTid
      /\ \A v \in Tids \ {t} : threadGroup'[v] = threadGroup[v] /\ pc'[v] = pc[v]
      /\ groupRefs'[g] = groupRefs[g] - 1 /\ \A o \in Tids \ {g} : groupRefs'[o] = groupRefs[o]
      /\ sighandRefs'[h] = sighandRefs[h] - 1 /\ \A o \in Tids \ {h} : sighandRefs'[o] = sighandRefs[o]
  BY <1>1, <1>2 DEF TaskInv, TypeOK
<1>7. /\ IsFiniteSet(Pointing(threadGroup, g)) /\ groupRefs[g] = Cardinality(Pointing(threadGroup, g))
      /\ IsFiniteSet(Using(sighand, pc, h)) /\ sighandRefs[h] = Cardinality(Using(sighand, pc, h))
  BY <1>2 DEF TaskInv, GroupsCounted, SighandsCounted
<1>8. GroupsCounted' /\ groupRefs[g] > 0
  <2>1. threadGroup'[t] \notin Tids
    BY <1>6
  <2>2. Pointing(threadGroup', g) = Pointing(threadGroup, g) \ {t}
    BY <1>2, <1>6, <2>1 DEF Pointing
  <2>3. \A o \in Tids \ {g} : Pointing(threadGroup', o) = Pointing(threadGroup, o)
    BY <1>5, <1>6, <2>1 DEF Pointing
  <2>4. /\ IsFiniteSet(Pointing(threadGroup', g)) /\ groupRefs'[g] = Cardinality(Pointing(threadGroup', g))
        /\ groupRefs[g] > 0
    BY <1>4, <1>6, <1>7, <2>2, OneLess
  <2> QED
    BY <1>6, <2>3, <2>4 DEF TaskInv, GroupsCounted
<1>9. SighandsCounted' /\ sighandRefs[h] > 0
  <2>1. Using(sighand', pc', h) = Using(sighand, pc, h) \ {t}
    BY <1>1, <1>6 DEF Using
  <2>2. \A o \in Tids \ {h} : Using(sighand', pc', o) = Using(sighand, pc, o)
    BY <1>1, <1>5, <1>6 DEF Using
  <2>3. /\ IsFiniteSet(Using(sighand', pc', h)) /\ sighandRefs'[h] = Cardinality(Using(sighand', pc', h))
        /\ sighandRefs[h] > 0
    BY <1>4, <1>6, <1>7, <2>1, OneLess
  <2> QED
    BY <1>6, <2>2, <2>3 DEF TaskInv, SighandsCounted
<1>10. TypeOK'
  <2>1. groupRefs' \in [Tids -> Nat] /\ sighandRefs' \in [Tids -> Nat]
    BY <1>1, <1>2, <1>8, <1>9 DEF TaskInv, TypeOK
  <2> QED
    BY <1>1, <2>1 DEF TaskInv, TypeOK, Pcs
<1>11. Stages'
  BY <1>1, <1>6 DEF TaskInv, Stages
<1>12. Building'
  <2>1. ASSUME NEW v \in Tids, pc'[v] = "clone"
        PROVE  pc[v] = "clone" /\ threadGroup'[arg[v]] = threadGroup[arg[v]]
    <3>1. pc[v] = "clone"
      BY <1>6, <2>1
    <3>2. arg[v] \in Tids /\ arg[v] # t
      BY <1>1, <3>1 DEF TaskInv, Building
    <3> QED
      BY <1>6, <3>1, <3>2
  <2>2. \A v \in Tids : pc'[v] = "clone" <=> pc[v] = "clone"
    BY <1>1, <1>6
  <2> QED
    BY <1>1, <2>1, <2>2 DEF TaskInv, Building
<1>13. RunningCounted'
  BY <1>1, <1>6, SameRunning
<1>14. LeaderTells'
  BY <1>1, <1>6 DEF TaskInv, LeaderTells
<1>15. Parents'
  <2>1. \A v \in listed : pc[v] # "dead" => pc'[v] # "dead"
    BY <1>6 DEF TaskInv, TypeOK
  <2>2. pc'[InitTid] \in {"user", "clone"}
    BY <1>3, <1>6 DEF TaskInv, Parents
  <2> QED
    BY <1>1, <2>1, <2>2 DEF TaskInv, Parents
<1> QED
  BY <1>8, <1>9, <1>10, <1>11, <1>12, <1>13, <1>14, <1>15 DEF TaskInv

(* The pointer had been given up before it is cleared.                     *)
LEMMA StepExitClear ==
  ASSUME TaskInv, NEW t \in Tids, ExitClear(t)
  PROVE  TaskInv'
<1> USE TidsAssumption
<1>1. /\ state[t] = "RUNNING" /\ pc[t] = "clear" /\ pc' = [pc EXCEPT ![t] = "reparent"]
      /\ sighand' = [sighand EXCEPT ![t] = NoTid]
      /\ UNCHANGED <<state, listed, tgid, ppid, exitSignal, killed, threadGroup, numRunning,
                     groupRefs, sighandRefs, arg, notified>>
  BY DEF ExitClear, At, Goto
<1>2. t # InitTid
  BY <1>1 DEF TaskInv, Parents
<1>3. /\ pc'[t] = "reparent" /\ sighand'[t] = NoTid
      /\ \A v \in Tids \ {t} : sighand'[v] = sighand[v] /\ pc'[v] = pc[v]
  BY <1>1 DEF TaskInv, TypeOK
<1>4. TypeOK'
  BY <1>1 DEF TaskInv, TypeOK, Pcs
<1>5. Stages'
  BY <1>1, <1>3 DEF TaskInv, Stages
<1>6. Building'
  <2>1. ASSUME NEW v \in Tids, pc[v] = "clone" PROVE sighand'[arg[v]] = sighand[arg[v]]
    <3>1. arg[v] \in Tids /\ arg[v] # t
      BY <1>1, <2>1 DEF TaskInv, Building
    <3> QED
      BY <1>3, <3>1
  <2>2. \A v \in Tids : pc'[v] = "clone" <=> pc[v] = "clone"
    BY <1>1, <1>3
  <2> QED
    BY <1>1, <2>1, <2>2 DEF TaskInv, Building
<1>7. GroupsCounted'
  BY <1>1, SameGroups
<1>8. SighandsCounted'
  <2>1. \A o \in Tids : Using(sighand', pc', o) = Using(sighand, pc, o)
    BY <1>1, <1>3 DEF Using
  <2> QED
    BY <1>1, <2>1 DEF TaskInv, SighandsCounted
<1>9. RunningCounted'
  BY <1>1, <1>3, SameRunning
<1>10. LeaderTells'
  BY <1>1, <1>3 DEF TaskInv, LeaderTells
<1>11. Parents'
  <2>1. \A v \in listed : pc[v] # "dead" => pc'[v] # "dead"
    BY <1>3 DEF TaskInv, TypeOK
  <2>2. pc'[InitTid] \in {"user", "clone"}
    BY <1>2, <1>3 DEF TaskInv, Parents
  <2> QED
    BY <1>1, <2>1, <2>2 DEF TaskInv, Parents
<1> QED
  BY <1>4, <1>5, <1>6, <1>7, <1>8, <1>9, <1>10, <1>11 DEF TaskInv

(* The children of the group go to init, also when other threads of it     *)
(* still run.                                                              *)
LEMMA StepExitReparent ==
  ASSUME TaskInv, NEW t \in Tids, ExitReparent(t)
  PROVE  TaskInv'
<1> USE TidsAssumption
<1>1. /\ state[t] = "RUNNING" /\ pc[t] = "reparent" /\ pc' = [pc EXCEPT ![t] = "dead"]
      /\ ppid' = [u \in Tids |-> IF u \in listed /\ ppid[u] = tgid[t] THEN InitTid ELSE ppid[u]]
      /\ UNCHANGED <<state, listed, tgid, exitSignal, killed, threadGroup, sighand, numRunning,
                     groupRefs, sighandRefs, arg, notified>>
  BY DEF ExitReparent, At, Goto
<1>2. t # InitTid /\ InitTid \in listed
  BY <1>1 DEF TaskInv, Parents, Stages
<1>3. pc'[t] = "dead" /\ \A v \in Tids \ {t} : pc'[v] = pc[v]
  BY <1>1 DEF TaskInv, TypeOK
<1>4. TypeOK'
  BY <1>1 DEF TaskInv, TypeOK, Pcs
<1>5. Stages'
  BY <1>1, <1>3 DEF TaskInv, Stages
<1>6. Building'
  <2>1. ASSUME NEW v \in Tids, pc[v] = "clone" PROVE ppid'[arg[v]] = ppid[arg[v]]
    <3>1. arg[v] \in Tids /\ arg[v] \notin listed
      BY <2>1 DEF TaskInv, Building, Stages
    <3> QED
      BY <1>1, <3>1
  <2>2. \A v \in Tids : pc'[v] = "clone" <=> pc[v] = "clone"
    BY <1>1, <1>3
  <2> QED
    BY <1>1, <2>1, <2>2 DEF TaskInv, Building
<1>7. GroupsCounted'
  BY <1>1, SameGroups
<1>8. SighandsCounted'
  BY <1>1, <1>3, SameSighands
<1>9. RunningCounted'
  BY <1>1, <1>3, SameRunning
<1>10. LeaderTells'
  BY <1>1, <1>3 DEF TaskInv, LeaderTells
<1>11. Parents'
  <2>1. state'[InitTid] = "RUNNING" /\ pc'[InitTid] \in {"user", "clone"} /\ tgid'[InitTid] = InitTid
    BY <1>1, <1>2, <1>3 DEF TaskInv, Parents
  <2>2. ASSUME NEW v \in listed', exitSignal'[v]
        PROVE  \E w \in listed' : tgid'[w] = ppid'[v] /\ state'[w] = "RUNNING" /\ pc'[w] # "dead"
    <3>1. v \in listed /\ v \in Tids /\ exitSignal[v]
      BY <1>1, <2>2 DEF TaskInv, TypeOK
    <3>2. CASE ppid[v] = tgid[t]
      <4>1. ppid'[v] = InitTid
        BY <1>1, <3>1, <3>2
      <4> QED
        BY <1>1, <1>2, <2>1, <4>1
    <3>3. CASE ppid[v] # tgid[t]
      <4>1. ppid'[v] = ppid[v]
        BY <1>1, <3>1, <3>3
      <4>2. PICK w \in listed : tgid[w] = ppid[v] /\ state[w] = "RUNNING" /\ pc[w] # "dead"
        BY <3>1 DEF TaskInv, Parents
      <4>3. w \in Tids /\ w # t
        BY <3>3, <4>2 DEF TaskInv, TypeOK
      <4> QED
        BY <1>1, <1>3, <4>1, <4>2, <4>3
    <3> QED
      BY <3>2, <3>3
  <2> QED
    BY <2>1, <2>2 DEF Parents
<1> QED
  BY <1>4, <1>5, <1>6, <1>7, <1>8, <1>9, <1>10, <1>11 DEF TaskInv

(* A dead task, and a dead task that wait4 frees, count nowhere.           *)
LEMMA StepDead ==
  ASSUME TaskInv, NEW t \in Tids, NEW s,
         \/ state[t] = "RUNNING" /\ pc[t] = "dead" /\ s = "DEAD" /\ UNCHANGED listed
         \/ state[t] = "DEAD" /\ s = "FREED" /\ listed' = listed \ {t},
         state' = [state EXCEPT ![t] = s],
         UNCHANGED <<tgid, ppid, exitSignal, killed, threadGroup, sighand, numRunning,
                     groupRefs, sighandRefs, pc, arg, notified>>
  PROVE  TaskInv'
<1> USE TidsAssumption
<1>1. pc[t] = "dead" /\ t # InitTid
  BY DEF TaskInv, Stages, Parents
<1>2. state'[t] = s /\ \A v \in Tids \ {t} : state'[v] = state[v]
  BY DEF TaskInv, TypeOK
<1>3. TypeOK'
  BY DEF TaskInv, TypeOK
<1>4. Stages'
  BY <1>1, <1>2 DEF TaskInv, Stages
<1>5. Building'
  <2>1. ASSUME NEW v \in Tids, pc[v] = "clone" PROVE arg[v] \in Tids /\ arg[v] # t
    BY <2>1 DEF TaskInv, Building
  <2> QED
    BY <1>2, <2>1 DEF TaskInv, Building
<1>6. GroupsCounted'
  BY SameGroups
<1>7. SighandsCounted'
  BY SameSighands
<1>8. RunningCounted'
  BY <1>1, <1>2, SameRunning
<1>9. LeaderTells'
  BY DEF TaskInv, LeaderTells
<1>10. Parents'
  <2>1. ASSUME NEW v \in listed', exitSignal'[v]
        PROVE  \E w \in listed' : tgid'[w] = ppid'[v] /\ state'[w] = "RUNNING" /\ pc'[w] # "dead"
    <3>1. PICK w \in listed : tgid[w] = ppid[v] /\ state[w] = "RUNNING" /\ pc[w] # "dead"
      BY <2>1 DEF TaskInv, Parents
    <3>2. w \in Tids /\ w # t
      BY <1>1, <3>1 DEF TaskInv, TypeOK
    <3> QED
      BY <1>2, <3>1, <3>2
  <2>2. state'[InitTid] = "RUNNING" /\ pc'[InitTid] \in {"user", "clone"} /\ tgid'[InitTid] = InitTid
    BY <1>1, <1>2 DEF TaskInv, Parents
  <2> QED
    BY <2>1, <2>2 DEF Parents
<1> QED
  BY <1>3, <1>4, <1>5, <1>6, <1>7, <1>8, <1>9, <1>10 DEF TaskInv

(* wait4 frees a dead task that is on the list.                            *)
LEMMA StepWait ==
  ASSUME TaskInv, NEW t \in Tids, NEW targets, targets \subseteq listed, WaitFor(t, targets)
  PROVE  TaskInv'
<1>1. PICK u \in targets : /\ state[u] = "DEAD" /\ state' = [state EXCEPT ![u] = "FREED"]
                           /\ listed' = listed \ {u}
  BY DEF WaitFor
<1>2. u \in Tids
  BY <1>1 DEF TaskInv, TypeOK
<1>3. UNCHANGED <<tgid, ppid, exitSignal, killed, threadGroup, sighand, numRunning,
                  groupRefs, sighandRefs, pc, arg, notified>>
  BY DEF WaitFor
<1> QED
  BY <1>1, <1>2, <1>3, StepDead

(* Every step keeps the invariant.                                         *)
LEMMA NextTaskInv ==
  ASSUME TaskInv, [Next]_vars
  PROVE  TaskInv'
<1>1. CASE UNCHANGED vars
  BY <1>1 DEF vars, TaskInv, TypeOK, Stages, Building, GroupsCounted, SighandsCounted,
              RunningCounted, LeaderTells, Parents
<1>2. ASSUME NEW t \in Tids, ExitDead(t) PROVE TaskInv'
  BY <1>2, StepDead DEF ExitDead, At
<1>3. ASSUME NEW t \in Tids, WaitAny(t) PROVE TaskInv'
  BY <1>3, StepWait DEF WaitAny, Children
<1>4. ASSUME NEW t \in Tids, NEW u \in Tids, WaitGroup(t, u) PROVE TaskInv'
  BY <1>4, StepWait DEF WaitGroup, Member
<1>5. CASE Next
  <2>1. PICK t \in Tids :
          \/ Clone(t, FALSE) \/ Clone(t, TRUE) \/ CloneStep(t)
          \/ \E u \in Tids : Kill(t, u) \/ WaitGroup(t, u)
          \/ ExitGroup(t) \/ ExitThread(t) \/ ExitStep(t)
          \/ WaitAny(t)
    BY <1>5 DEF Next
  <2>2. CASE Clone(t, FALSE) \/ Clone(t, TRUE)
    BY <2>2, StepClone
  <2>3. CASE CloneStep(t)
    BY <2>3, StepCloneRegister, StepCloneFail DEF CloneStep
  <2>4. CASE (\E u \in Tids : Kill(t, u)) \/ ExitGroup(t) \/ ExitThread(t)
    BY <2>4, StepSignal
  <2>5. CASE ExitStep(t)
    BY <1>2, <2>5, StepExitBegin, StepExitNotify, StepExitUnref, StepExitClear, StepExitReparent
    DEF ExitStep
  <2>6. CASE WaitAny(t) \/ \E u \in Tids : WaitGroup(t, u)
    BY <1>3, <1>4, <2>6
  <2> QED
    BY <2>1, <2>2, <2>3, <2>4, <2>5, <2>6
<1> QED
  BY <1>1, <1>5

(* The inductive invariant of clone, exit and wait4.                       *)
THEOREM TaskLifeInvariant == Spec => []TaskInv
<1>1. Init => TaskInv
  BY InitTaskInv
<1>2. TaskInv /\ [Next]_vars => TaskInv'
  BY NextTaskInv
<1> QED
  BY <1>1, <1>2, PTL DEF Spec

(* thread_group and sighand are referenced by exactly as many tasks as     *)
(* their ref_count says, for any number of tasks.                          *)
THEOREM TaskLifeRefCountsExact == Spec => []RefCountsExact
<1>1. TaskInv => RefCountsExact
  BY InvRefCountsExact
<1> QED
  BY <1>1, TaskLifeInvariant, PTL

(* A process tells its parent at most once, when none of its threads can   *)
(* run or be created any more, and every process has init or a running     *)
(* process as its parent.                                                  *)
THEOREM TaskLifeFamiliesExact == Spec => []FamiliesExact
<1>1. TaskInv => FamiliesExact
  BY InvFamiliesExact
<1> QED
  BY <1>1, TaskLifeInvariant, PTL
-----------------------------------------------------------------------------
(* How far a thread of the C library and its creator are with each other:  *)
(* before pthread_create, while the thread runs, and after the exchange of *)
(* pth->state in pthread_exit, which decides who gives the memory back.    *)
Detached == {"detach", "done", "einval"}
Unborn(m, s, a, held) ==
  m \in {"create", "failed"} /\ s = "none" /\ a = "none" /\ held = "none"
Runs(m, s, a, value, held) ==
  /\ a \in {"running", "storing"} /\ held = "owned" /\ (a = "storing" => value = "value")
  /\ \/ s = "joinable" /\ m \in {"detach", "join", "either"}
     \/ s = "detached" /\ m \in Detached
Exited(m, s, a, value, held) ==
  /\ s = "exited" /\ value = "value"
  /\ \/ a = "freeing" /\ held = "owned" /\ m \in Detached
     \/ a \in {"leaving", "gone"} /\ held = "freed" /\ m \in Detached \cup {"joined"}
     \/ a \in {"leaving", "gone"} /\ held = "owned" /\ m \in {"detach", "join", "either", "einval", "joining"}
Stage(m, s, a, value, held) ==
  Unborn(m, s, a, held) \/ Runs(m, s, a, value, held) \/ Exited(m, s, a, value, held)

ThreadTypes ==
  /\ main \in [Threads -> {"create", "failed", "detach", "join", "either", "done", "einval",
                          "joining", "joined", "novalue"}]
  /\ pstate \in [Threads -> {"none", "joinable", "detached", "exited"}]
  /\ at \in [Threads -> {"none", "running", "storing", "freeing", "leaving", "gone"}]
  /\ retval \in [Threads -> {"none", "value"}]
  /\ memory \in [Threads -> {"none", "owned", "freed", "twice"}]
ThreadInv ==
  ThreadTypes /\ \A t \in Threads : Stage(main[t], pstate[t], at[t], retval[t], memory[t])

(* No thread has been created.                                             *)
LEMMA InitThreadInv == Thr!Init => ThreadInv
BY DEF Thr!Init, ThreadInv, ThreadTypes, Stage, Unborn

(* A step concerns one thread.                                             *)
Elsewhere(t) ==
  \A u \in Threads \ {t} : /\ main'[u] = main[u] /\ pstate'[u] = pstate[u] /\ at'[u] = at[u]
                           /\ retval'[u] = retval[u] /\ memory'[u] = memory[u]

(* So that the invariant need be shown of that thread only.                *)
LEMMA OneThread ==
  ASSUME ThreadInv, NEW t \in Threads, ThreadTypes', Elsewhere(t),
         Stage(main'[t], pstate'[t], at'[t], retval'[t], memory'[t])
  PROVE  ThreadInv'
<1>1. ASSUME NEW u \in Threads PROVE Stage(main'[u], pstate'[u], at'[u], retval'[u], memory'[u])
  <2>1. CASE u = t
    BY <2>1
  <2>2. CASE u # t
    BY <2>2 DEF Elsewhere, ThreadInv
  <2> QED
    BY <2>1, <2>2
<1> QED
  BY <1>1 DEF ThreadInv

(* Each step of a thread or of its creator, whichever comes first.         *)
LEMMA NextThreadInv == ThreadInv /\ [Thr!Next]_pthreadVars => ThreadInv'
<1> SUFFICES ASSUME ThreadInv, [Thr!Next]_pthreadVars PROVE ThreadInv'
  OBVIOUS
<1>1. ASSUME NEW t \in Threads, Thr!ExitStores(t) PROVE ThreadInv'
  <2>1. ThreadTypes' /\ Elsewhere(t)
    BY <1>1 DEF Thr!ExitStores, Thr!StoreValue, ThreadInv, ThreadTypes, Elsewhere
  <2>2. Stage(main[t], pstate[t], at[t], retval[t], memory[t])
    BY DEF ThreadInv
  <2>3. Stage(main'[t], pstate'[t], at'[t], retval'[t], memory'[t])
    BY <1>1, <2>2 DEF Thr!ExitStores, Thr!StoreValue, ThreadInv, ThreadTypes, Stage, Unborn, Runs, Exited, Detached
  <2> QED
    BY <2>1, <2>3, OneThread
<1>2. ASSUME NEW t \in Threads, Thr!ExitExchanges(t) PROVE ThreadInv'
  <2>1. ThreadTypes' /\ Elsewhere(t)
    BY <1>2 DEF Thr!ExitExchanges, ThreadInv, ThreadTypes, Elsewhere
  <2>2. Stage(main[t], pstate[t], at[t], retval[t], memory[t])
    BY DEF ThreadInv
  <2>3. Stage(main'[t], pstate'[t], at'[t], retval'[t], memory'[t])
    BY <1>2, <2>2 DEF Thr!ExitExchanges, ThreadInv, ThreadTypes, Stage, Unborn, Runs, Exited, Detached
  <2> QED
    BY <2>1, <2>3, OneThread
<1>3. ASSUME NEW t \in Threads, Thr!ExitFrees(t) PROVE ThreadInv'
  <2>1. ThreadTypes' /\ Elsewhere(t)
    BY <1>3 DEF Thr!ExitFrees, Thr!Freed, ThreadInv, ThreadTypes, Elsewhere
  <2>2. Stage(main[t], pstate[t], at[t], retval[t], memory[t])
    BY DEF ThreadInv
  <2>3. Stage(main'[t], pstate'[t], at'[t], retval'[t], memory'[t])
    BY <1>3, <2>2 DEF Thr!ExitFrees, Thr!Freed, ThreadInv, ThreadTypes, Stage, Unborn, Runs, Exited, Detached
  <2> QED
    BY <2>1, <2>3, OneThread
<1>4. ASSUME NEW t \in Threads, Thr!ExitLeaves(t) PROVE ThreadInv'
  <2>1. ThreadTypes' /\ Elsewhere(t)
    BY <1>4 DEF Thr!ExitLeaves, ThreadInv, ThreadTypes, Elsewhere
  <2>2. Stage(main[t], pstate[t], at[t], retval[t], memory[t])
    BY DEF ThreadInv
  <2>3. Stage(main'[t], pstate'[t], at'[t], retval'[t], memory'[t])
    BY <1>4, <2>2 DEF Thr!ExitLeaves, ThreadInv, ThreadTypes, Stage, Unborn, Runs, Exited, Detached
  <2> QED
    BY <2>1, <2>3, OneThread
<1>5. ASSUME NEW t \in Threads, Thr!pthread_create(t) PROVE ThreadInv'
  <2>1. ThreadTypes' /\ Elsewhere(t)
    BY <1>5 DEF Thr!pthread_create, Thr!Main, ThreadInv, ThreadTypes, Elsewhere
  <2>2. Stage(main[t], pstate[t], at[t], retval[t], memory[t])
    BY DEF ThreadInv
  <2>3. Stage(main'[t], pstate'[t], at'[t], retval'[t], memory'[t])
    BY <1>5, <2>2 DEF Thr!pthread_create, Thr!Main, ThreadInv, ThreadTypes, Stage, Unborn, Runs, Exited, Detached
  <2> QED
    BY <2>1, <2>3, OneThread
<1>6. ASSUME NEW t \in Threads, Thr!pthread_detach(t) PROVE ThreadInv'
  <2>1. ThreadTypes' /\ Elsewhere(t)
    BY <1>6 DEF Thr!pthread_detach, ThreadInv, ThreadTypes, Elsewhere
  <2>2. Stage(main[t], pstate[t], at[t], retval[t], memory[t])
    BY DEF ThreadInv
  <2>3. Stage(main'[t], pstate'[t], at'[t], retval'[t], memory'[t])
    BY <1>6, <2>2 DEF Thr!pthread_detach, ThreadInv, ThreadTypes, Stage, Unborn, Runs, Exited, Detached
  <2> QED
    BY <2>1, <2>3, OneThread
<1>7. ASSUME NEW t \in Threads, Thr!JoinSees(t) PROVE ThreadInv'
  <2>1. ThreadTypes' /\ Elsewhere(t)
    BY <1>7 DEF Thr!JoinSees, ThreadInv, ThreadTypes, Elsewhere
  <2>2. Stage(main[t], pstate[t], at[t], retval[t], memory[t])
    BY DEF ThreadInv
  <2>3. Stage(main'[t], pstate'[t], at'[t], retval'[t], memory'[t])
    BY <1>7, <2>2 DEF Thr!JoinSees, ThreadInv, ThreadTypes, Stage, Unborn, Runs, Exited, Detached
  <2> QED
    BY <2>1, <2>3, OneThread
<1>8. ASSUME NEW t \in Threads, Thr!JoinFrees(t) PROVE ThreadInv'
  <2>1. ThreadTypes' /\ Elsewhere(t)
    BY <1>8 DEF Thr!JoinFrees, Thr!Main, Thr!Freed, ThreadInv, ThreadTypes, Elsewhere
  <2>2. Stage(main[t], pstate[t], at[t], retval[t], memory[t])
    BY DEF ThreadInv
  <2>3. Stage(main'[t], pstate'[t], at'[t], retval'[t], memory'[t])
    BY <1>8, <2>2 DEF Thr!JoinFrees, Thr!Main, Thr!Freed, ThreadInv, ThreadTypes, Stage, Unborn, Runs, Exited, Detached
  <2> QED
    BY <2>1, <2>3, OneThread
<1>9. CASE UNCHANGED pthreadVars
  BY <1>9 DEF pthreadVars, ThreadInv, ThreadTypes
<1> QED
  BY <1>1, <1>2, <1>3, <1>4, <1>5, <1>6, <1>7, <1>8, <1>9 DEF Thr!Next, Thr!ThreadStep

(* The memory of a thread is given back once, by whoever of it and its     *)
(* creator comes second, and who joins it finds its value: for any number  *)
(* of threads.                                                             *)
THEOREM PthreadHandedOver == Thr!Spec => []HandedOver
<1>1. ThreadInv => HandedOver
  BY DEF ThreadInv, Stage, Unborn, Runs, Exited, Detached, HandedOver, Thr!HandedOver
<1>2. Thr!pthreadVars = pthreadVars
  BY DEF Thr!pthreadVars, pthreadVars
<1> QED
  BY <1>1, InitThreadInv, NextThreadInv, PTL DEF Thr!Spec, Thr!pthreadVars, pthreadVars
-----------------------------------------------------------------------------
(* Signals are numbered from 1, and masks are sets of them.                *)
Dispositions ==
  [handler : {"default", "ignore", "handler"}, mask : SUBSET Sig!Signals,
   flags : SUBSET {"RESTART", "NODEFER", "RESETHAND"}]
SignalParameters ==
  /\ Sig!Signals \subseteq Nat \ {0}
  /\ Actions \subseteq Dispositions
  /\ Masks \subseteq SUBSET Sig!Signals /\ SuspendMasks \subseteq SUBSET Sig!Signals

Contexts == [mask : SUBSET Sig!Signals, sig : Sig!Signals, nodefer : BOOLEAN]
SignalTypes ==
  /\ pending \in [Tasks -> SUBSET Sig!Signals] /\ blocked \in [Tasks -> SUBSET Sig!Signals]
  /\ wanted \in [Tasks -> SUBSET Sig!Signals] /\ frames \in [Tasks -> Seq(Contexts)]
  /\ action \in [Sig!Signals -> Dispositions] /\ alive \in BOOLEAN
  /\ call \in [Tasks -> [kind : {"none", "return", "again", "read", "pause", "suspend"},
                        saved : SUBSET Sig!Signals,
                        ret : {"none", "ok", "restart", "interrupted", "again"}]]

(* A handler's own signal was not blocked when it was entered, and it is   *)
(* from then on, in the handlers inside it and now, but for SA_NODEFER.    *)
Nested(fs, now) ==
  /\ \A i \in 1..Len(fs) : /\ fs[i].sig \notin fs[i].mask /\ fs[i].mask \cap Unblockable = {}
                           /\ fs[i].nodefer \/ fs[i].sig \in now
  /\ \A i, j \in 1..Len(fs) : i < j => fs[i].nodefer \/ fs[i].sig \in fs[j].mask

(* The mask the program asked for is the task's own, or under its first    *)
(* handler, or kept by sigsuspend.                                         *)
Asked(c, fs, now, mask) ==
  /\ mask \cap Unblockable = {}
  /\ c.kind = "suspend" => fs = <<>> /\ c.saved = mask
  /\ c.kind # "suspend" => now \cap Unblockable = {} /\ (fs = <<>> => now = mask)
  /\ fs # <<>> => fs[1].mask = mask

SignalInv ==
  /\ SignalTypes
  /\ \A s \in Sig!Signals \cap Unblockable : action[s].handler = "default"
  /\ \A t \in Tasks : Nested(frames[t], blocked[t]) /\ Asked(call[t], frames[t], blocked[t], wanted[t])

(* No signal has been sent and none is blocked.                            *)
LEMMA InitSignalInv ==
  ASSUME SignalParameters, Sig!Init
  PROVE  SignalInv
<1>1. SignalTypes
  BY DEF Sig!Init, Sig!InUser, Sig!SIG_DFL, SignalTypes, Dispositions
<1>2. \A t \in Tasks : Nested(frames[t], blocked[t]) /\ Asked(call[t], frames[t], blocked[t], wanted[t])
  BY DEF Sig!Init, Sig!InUser, Nested, Asked
<1> QED
  BY <1>1, <1>2 DEF SignalInv, Sig!Init, Sig!SIG_DFL

(* task_pop_signal returns a signal that is pending, not blocked and not   *)
(* ignored, or none.                                                       *)
LEMMA PoppedActs ==
  ASSUME SignalParameters, SignalTypes, NEW t \in Tasks, Sig!Popped(t) # 0
  PROVE  /\ Sig!Popped(t) \in Sig!Signals /\ Sig!Popped(t) \notin blocked[t]
         /\ action[Sig!Popped(t)].handler # "ignore"
<1> DEFINE A == Sig!Acts(t)
<1>1. A # {} /\ Sig!Popped(t) = Sig!Min(A)
  BY DEF Sig!Popped
<1>2. A \subseteq Sig!Signals /\ A \subseteq Nat
  BY DEF Sig!Acts, Sig!Deliverable, SignalTypes, SignalParameters
<1> HIDE DEF A
<1>3. PICK u \in A : \A v \in A : ~(<<v, u>> \in OpToRel(<, Nat))
  BY <1>1, <1>2, NatLessThanWellFounded, WFMin
<1>4. ASSUME NEW v \in A PROVE u <= v
  <2>1. u \in Nat /\ v \in Nat
    BY <1>2
  <2>2. v < u => <<v, u>> \in OpToRel(<, Nat)
    BY <2>1 DEF OpToRel
  <2>3. ~(v < u)
    BY <1>3, <2>2, Zenon
  <2> QED
    BY <2>1, <2>3
<1>5. Sig!Min(A) \in A
  BY <1>4 DEF Sig!Min
<1>6. Sig!Popped(t) \in A
  BY <1>1, <1>5
<1> QED
  BY <1>2, <1>6 DEF A, Sig!Acts, Sig!Deliverable, Sig!Ignored

(* What a step leaves of the other tasks.                                  *)
Aside(t) ==
  \A u \in Tasks \ {t} : /\ frames'[u] = frames[u] /\ blocked'[u] = blocked[u]
                         /\ call'[u] = call[u] /\ wanted'[u] = wanted[u]

(* The invariant need be shown of one task only.                           *)
LEMMA OneTask ==
  ASSUME SignalInv, NEW t \in Tasks, SignalTypes', Aside(t),
         \A s \in Sig!Signals \cap Unblockable : action'[s].handler = "default",
         Nested(frames'[t], blocked'[t]), Asked(call'[t], frames'[t], blocked'[t], wanted'[t])
  PROVE  SignalInv'
<1>1. ASSUME NEW u \in Tasks
      PROVE  Nested(frames'[u], blocked'[u]) /\ Asked(call'[u], frames'[u], blocked'[u], wanted'[u])
  <2>1. CASE u = t
    BY <2>1
  <2>2. CASE u # t
    BY <2>2 DEF Aside, SignalInv
  <2> QED
    BY <2>1, <2>2
<1> QED
  BY <1>1 DEF SignalInv

(* A handler is entered on top of the others.                              *)
LEMMA EnterHandler ==
  ASSUME NEW fs \in Seq(Contexts), NEW now, NEW f \in Contexts, NEW later, Nested(fs, now),
         f.mask = now, f.sig \notin now, now \cap Unblockable = {}, now \subseteq later,
         f.nodefer \/ f.sig \in later
  PROVE  Nested(Append(fs, f), later)
<1> DEFINE gs == Append(fs, f)
           n == Len(fs)
<1>1. /\ n \in Nat /\ Len(gs) = n + 1 /\ gs[n + 1] = f
      /\ \A i \in 1..n : gs[i] = fs[i]
  OBVIOUS
<1> HIDE DEF gs, n
<1>2. ASSUME NEW i \in 1..(n + 1)
      PROVE  /\ gs[i].sig \notin gs[i].mask /\ gs[i].mask \cap Unblockable = {}
             /\ gs[i].nodefer \/ gs[i].sig \in later
  <2>1. CASE i = n + 1
    BY <1>1, <2>1
  <2>2. CASE i # n + 1
    <3>1. i \in 1..n
      BY <1>1, <2>2
    <3> QED
      BY <1>1, <3>1 DEF Nested, n
  <2> QED
    BY <2>1, <2>2
<1>3. ASSUME NEW i \in 1..(n + 1), NEW j \in 1..(n + 1), i < j
      PROVE  gs[i].nodefer \/ gs[i].sig \in gs[j].mask
  <2>1. i \in 1..n
    BY <1>1, <1>3
  <2>2. CASE j = n + 1
    BY <1>1, <2>1, <2>2 DEF Nested, n
  <2>3. CASE j # n + 1
    <3>1. j \in 1..n
      BY <1>1, <2>3
    <3> QED
      BY <1>1, <1>3, <2>1, <3>1 DEF Nested, n
  <2> QED
    BY <2>2, <2>3
<1>4. Nested(gs, later)
  BY <1>1, <1>2, <1>3 DEF Nested
<1> QED
  BY <1>4 DEF gs

(* The innermost handler returns to the mask it was entered with.          *)
LEMMA LeaveHandler ==
  ASSUME NEW fs \in Seq(Contexts), NEW now, Nested(fs, now), fs # <<>>
  PROVE  /\ Sig!Front(fs) \in Seq(Contexts) /\ Nested(Sig!Front(fs), fs[Len(fs)].mask)
         /\ fs[Len(fs)] \in Contexts /\ fs[Len(fs)].mask \cap Unblockable = {}
         /\ Sig!Front(fs) = <<>> => fs[Len(fs)] = fs[1]
         /\ Sig!Front(fs) # <<>> => Sig!Front(fs)[1] = fs[1]
<1> DEFINE gs == Sig!Front(fs)
           n == Len(fs)
<1>1. n \in Nat \ {0} /\ fs[n] \in Contexts
  OBVIOUS
<1>2. gs \in Seq(Contexts) /\ Len(gs) = n - 1 /\ \A i \in 1..(n - 1) : gs[i] = fs[i]
  <2>1. gs = SubSeq(fs, 1, n - 1)
    BY DEF Sig!Front
  <2>2. /\ gs \in Seq(Contexts)
        /\ Len(gs) = IF 1 <= n - 1 THEN n - 1 - 1 + 1 ELSE 0
        /\ \A i \in 1..(n - 1 - 1 + 1) : gs[i] = fs[1 + i - 1]
    BY <1>1, <2>1, SubSeqProperties
  <2> HIDE DEF gs, n
  <2>3. Len(gs) = n - 1
    BY <1>1, <2>2
  <2>4. ASSUME NEW i \in 1..(n - 1) PROVE gs[i] = fs[i]
    <3>1. i \in 1..(n - 1 - 1 + 1) /\ 1 + i - 1 = i
      BY <1>1
    <3> QED
      BY <2>2, <3>1
  <2> QED
    BY <2>2, <2>3, <2>4
<1> HIDE DEF gs
<1>3. /\ gs = <<>> => n = 1
      /\ gs # <<>> => n - 1 \in Nat \ {0}
  BY <1>1, <1>2
<1>4. Nested(gs, fs[n].mask)
  BY <1>1, <1>2 DEF Nested
<1>5. fs[n].mask \cap Unblockable = {}
  BY <1>1 DEF Nested
<1>6. gs # <<>> => gs[1] = fs[1]
  BY <1>1, <1>2, <1>3
<1> QED
  BY <1>1, <1>2, <1>3, <1>4, <1>5, <1>6 DEF gs

(* task_handle_signal at the end of a call or of a timer interrupt, of a   *)
(* task that is not, and will not be, in sigsuspend.                       *)
LEMMA DeliverSignalInv ==
  ASSUME SignalParameters, SignalInv, NEW t \in Tasks, Sig!Deliver(t), call[t].kind # "suspend",
         call' \in [Tasks -> [kind : {"none", "return", "again", "read", "pause", "suspend"},
                              saved : SUBSET Sig!Signals,
                              ret : {"none", "ok", "restart", "interrupted", "again"}]],
         call'[t].kind # "suspend", \A u \in Tasks \ {t} : call'[u] = call[u]
  PROVE  SignalInv'
<1> DEFINE s == Sig!Popped(t)
<1>1. /\ SignalTypes /\ Nested(frames[t], blocked[t])
      /\ Asked(call[t], frames[t], blocked[t], wanted[t])
      /\ \A x \in Sig!Signals \cap Unblockable : action[x].handler = "default"
  BY DEF SignalInv
<1>2. wanted' = wanted
  BY DEF Sig!Deliver
<1>3. s # 0 => s \in Sig!Signals /\ s \notin blocked[t] /\ action[s].handler # "ignore"
  BY <1>1, PoppedActs
<1>4. Asked(call'[t], frames[t], blocked[t], wanted[t])
  BY <1>1 DEF Asked
<1>5. CASE s # 0 /\ action[s].handler = "default"
  <2>1. alive' = FALSE /\ UNCHANGED <<pending, blocked, frames, action>>
    BY <1>5 DEF Sig!Deliver
  <2>2. SignalTypes'
    BY <1>1, <1>2, <2>1 DEF SignalTypes
  <2>3. Aside(t)
    BY <1>2, <2>1 DEF Aside
  <2> QED
    BY <1>1, <1>2, <1>4, <2>1, <2>2, <2>3, OneTask
<1>6. CASE s = 0
  <2>1. /\ pending' = [pending EXCEPT ![t] = @ \ Sig!Dropped(t)]
        /\ frames' = [frames EXCEPT ![t] = @] /\ blocked' = [blocked EXCEPT ![t] = @]
        /\ action' = action /\ alive' = alive
    BY <1>6 DEF Sig!Deliver
  <2>2. frames' = frames /\ blocked' = blocked
    BY <1>1, <2>1 DEF SignalTypes
  <2>3. SignalTypes'
    BY <1>1, <1>2, <2>1, <2>2 DEF SignalTypes
  <2>4. Aside(t)
    BY <1>2, <2>2 DEF Aside
  <2> QED
    BY <1>1, <1>2, <1>4, <2>1, <2>2, <2>3, <2>4, OneTask
<1>7. CASE s # 0 /\ action[s].handler # "default"
  <2> DEFINE f == Sig!Frame(t, s)
             later == Sig!HandlerMask(t, s)
  <2>1. s \in Sig!Signals /\ s \notin blocked[t] /\ s \notin Unblockable
    BY <1>1, <1>3, <1>7
  <2>2. action[s] \in Dispositions /\ blocked[t] \in SUBSET Sig!Signals
    BY <1>1, <2>1 DEF SignalTypes
  <2>3. /\ f \in Contexts /\ f.mask = blocked[t] /\ f.sig = s
        /\ f.nodefer = ("NODEFER" \in action[s].flags)
    BY <2>1, <2>2 DEF Sig!Frame, Contexts
  <2>4. blocked[t] \cap Unblockable = {} /\ (frames[t] = <<>> => blocked[t] = wanted[t])
    BY <1>1 DEF Asked
  <2>5. /\ later \in SUBSET Sig!Signals /\ blocked[t] \subseteq later
        /\ later \cap Unblockable = {} /\ (f.nodefer \/ s \in later)
    BY <2>1, <2>2, <2>3, <2>4 DEF Sig!HandlerMask, Dispositions
  <2>6. /\ pending' = [pending EXCEPT ![t] = @ \ Sig!Dropped(t)]
        /\ frames' = [frames EXCEPT ![t] = Append(@, f)]
        /\ blocked' = [blocked EXCEPT ![t] = later]
        /\ action' = IF "RESETHAND" \in action[s].flags
                     THEN [action EXCEPT ![s].handler = "default"] ELSE action
        /\ alive' = alive
    BY <1>7 DEF Sig!Deliver
  <2> HIDE DEF f, later, s
  <2>7. frames[t] \in Seq(Contexts)
    BY <1>1 DEF SignalTypes
  <2>8. frames'[t] = Append(frames[t], f) /\ blocked'[t] = later
    BY <1>1, <2>6 DEF SignalTypes
  <2>9. Nested(frames'[t], blocked'[t])
    BY <1>1, <2>1, <2>3, <2>4, <2>5, <2>7, <2>8, EnterHandler
  <2>10. Asked(call'[t], frames'[t], blocked'[t], wanted'[t])
    <3>1. frames'[t] # <<>> /\ frames'[t][1] = IF frames[t] = <<>> THEN f ELSE frames[t][1]
      BY <2>3, <2>7, <2>8
    <3>2. frames'[t][1].mask = wanted[t]
      BY <1>1, <2>3, <2>4, <3>1 DEF Asked
    <3> QED
      BY <1>1, <1>2, <2>5, <2>8, <3>1, <3>2 DEF Asked
  <2>11. Aside(t)
    BY <1>1, <1>2, <2>6 DEF Aside, SignalTypes
  <2>12. /\ action' \in [Sig!Signals -> Dispositions]
         /\ \A x \in Sig!Signals \cap Unblockable : action'[x].handler = "default"
    BY <1>1, <2>1, <2>2, <2>6 DEF SignalTypes, Dispositions
  <2>13. frames' \in [Tasks -> Seq(Contexts)]
    BY <1>1, <2>3, <2>6, <2>7 DEF SignalTypes
  <2>14. SignalTypes'
    BY <1>1, <1>2, <2>5, <2>6, <2>12, <2>13 DEF SignalTypes
  <2> QED
    BY <2>9, <2>10, <2>11, <2>12, <2>14, OneTask
<1> QED
  BY <1>5, <1>6, <1>7

(* A step that leaves the frames and the actions alone.                    *)
LEMMA SameFrames ==
  ASSUME SignalInv, NEW t \in Tasks, SignalTypes', frames' = frames, action' = action,
         \A u \in Tasks \ {t} : /\ blocked'[u] = blocked[u] /\ call'[u] = call[u]
                                /\ wanted'[u] = wanted[u],
         Nested(frames[t], blocked'[t]), Asked(call'[t], frames[t], blocked'[t], wanted'[t])
  PROVE  SignalInv'
<1>1. Aside(t)
  BY DEF Aside
<1>2. \A s \in Sig!Signals \cap Unblockable : action'[s].handler = "default"
  BY DEF SignalInv
<1> QED
  BY <1>1, <1>2, OneTask

(* Each step of the kernel, of a task and of who sends it signals.         *)
LEMMA NextSignalInv == SignalParameters /\ SignalInv /\ [Sig!Next]_sigVars => SignalInv'
<1> SUFFICES ASSUME SignalParameters, SignalInv, [Sig!Next]_sigVars PROVE SignalInv'
  OBVIOUS
<1> DEFINE CallTypes == [kind : {"none", "return", "again", "read", "pause", "suspend"},
                         saved : SUBSET Sig!Signals,
                         ret : {"none", "ok", "restart", "interrupted", "again"}]
<1>0. SignalTypes /\ \A t \in Tasks : /\ Nested(frames[t], blocked[t])
                                      /\ Asked(call[t], frames[t], blocked[t], wanted[t])
  BY DEF SignalInv
<1>e. ASSUME NEW now PROVE Nested(<<>>, now)
  BY DEF Nested
<1>u. ASSUME NEW kind
      PROVE  [Sig!InUser EXCEPT !.kind = kind] = [kind |-> kind, saved |-> {}, ret |-> "none"]
  BY DEF Sig!InUser
<1>1. ASSUME NEW s \in Sig!Signals, NEW targets, Sig!task_send_signal(targets, s) PROVE SignalInv'
  <2>1. pending' \in [Tasks -> SUBSET Sig!Signals]
    BY <1>0, <1>1 DEF Sig!task_send_signal, Sig!do_send_signal, SignalTypes
  <2> QED
    BY <1>0, <1>1, <2>1 DEF Sig!task_send_signal, SignalInv, SignalTypes
<1>2. ASSUME NEW t \in Tasks, NEW s \in Sig!Signals, NEW a \in Actions, Sig!sigaction(t, s, a)
      PROVE  SignalInv'
  <2>1. a \in Dispositions /\ s \notin Unblockable /\ action' = [action EXCEPT ![s] = a]
    BY <1>2 DEF Sig!sigaction, SignalParameters
  <2>2. /\ action' \in [Sig!Signals -> Dispositions]
        /\ \A x \in Sig!Signals \cap Unblockable : action'[x].handler = "default"
    BY <2>1 DEF SignalInv, SignalTypes
  <2>3. call' = [call EXCEPT ![t] = [kind |-> "return", saved |-> {}, ret |-> "ok"]]
    BY <1>2 DEF Sig!sigaction, Sig!Returning
  <2>4. call' \in [Tasks -> CallTypes] /\ call'[t].kind = "return"
    BY <1>0, <2>3 DEF SignalTypes
  <2>5. call[t].kind = "none" /\ UNCHANGED <<pending, blocked, frames, alive, wanted>>
    BY <1>2 DEF Sig!sigaction, Sig!User
  <2>6. SignalTypes'
    BY <1>0, <2>2, <2>4, <2>5 DEF SignalTypes
  <2>7. Aside(t)
    BY <1>0, <2>3, <2>5 DEF Aside, SignalTypes
  <2>8. Nested(frames'[t], blocked'[t]) /\ Asked(call'[t], frames'[t], blocked'[t], wanted'[t])
    BY <1>0, <2>4, <2>5 DEF Asked
  <2> QED
    BY <2>2, <2>6, <2>7, <2>8, OneTask
<1>3. ASSUME NEW t \in Tasks, NEW how \in {"block", "unblock", "set"}, NEW m \in Masks,
             Sig!sigprocmask(t, how, m)
      PROVE  SignalInv'
  <2> DEFINE new == Sig!NewMask(how, blocked[t], m)
  <2>1. /\ call[t].kind = "none" /\ frames[t] = <<>> /\ blocked[t] = wanted[t]
        /\ blocked[t] \cap Unblockable = {} /\ blocked[t] \subseteq Sig!Signals
    BY <1>0, <1>3 DEF Sig!sigprocmask, Sig!User, Asked, SignalTypes
  <2>2. m \subseteq Sig!Signals
    BY DEF SignalParameters
  <2>3. new \in SUBSET Sig!Signals /\ new \cap Unblockable = {}
    BY <2>1, <2>2 DEF Sig!NewMask
  <2>4. /\ blocked' = [blocked EXCEPT ![t] = new]
        /\ wanted' = [wanted EXCEPT ![t] = new]
        /\ UNCHANGED <<pending, frames, alive, action>>
    BY <1>0, <1>3, <2>1 DEF Sig!sigprocmask, SignalTypes
  <2>5. call' = [call EXCEPT ![t] = [kind |-> "return", saved |-> {}, ret |-> "ok"]]
    BY <1>3 DEF Sig!sigprocmask, Sig!Returning
  <2> HIDE DEF new
  <2>6. call' \in [Tasks -> CallTypes] /\ call'[t].kind = "return"
    BY <1>0, <2>5 DEF SignalTypes
  <2>7. SignalTypes'
    BY <1>0, <2>3, <2>4, <2>6 DEF SignalTypes
  <2>8. blocked'[t] = new /\ wanted'[t] = new
    BY <1>0, <2>4 DEF SignalTypes
  <2>9. Nested(frames[t], blocked'[t]) /\ Asked(call'[t], frames[t], blocked'[t], wanted'[t])
    BY <1>e, <2>1, <2>3, <2>6, <2>8 DEF Asked
  <2>10. \A u \in Tasks \ {t} : /\ blocked'[u] = blocked[u] /\ call'[u] = call[u]
                                /\ wanted'[u] = wanted[u]
    BY <1>0, <2>4, <2>5 DEF SignalTypes
  <2> QED
    BY <2>4, <2>7, <2>9, <2>10, SameFrames
<1>4. ASSUME NEW t \in Tasks, NEW m \in SuspendMasks, Sig!sigsuspend(t, m) PROVE SignalInv'
  <2>1. /\ call[t].kind = "none" /\ frames[t] = <<>> /\ blocked[t] = wanted[t]
        /\ wanted[t] \cap Unblockable = {} /\ blocked[t] \in SUBSET Sig!Signals
    BY <1>0, <1>4 DEF Sig!sigsuspend, Sig!User, Asked, SignalTypes
  <2>2. m \in SUBSET Sig!Signals
    BY DEF SignalParameters
  <2>3. /\ blocked' = [blocked EXCEPT ![t] = m]
        /\ UNCHANGED <<pending, frames, alive, action, wanted>>
        /\ call' = [call EXCEPT ![t] = [kind |-> "suspend", saved |-> blocked[t], ret |-> "none"]]
    BY <1>4 DEF Sig!sigsuspend
  <2>4. call' \in [Tasks -> CallTypes] /\ call'[t].kind = "suspend" /\ call'[t].saved = blocked[t]
    BY <1>0, <2>1, <2>3 DEF SignalTypes
  <2>5. SignalTypes'
    BY <1>0, <2>2, <2>3, <2>4 DEF SignalTypes
  <2>6. Nested(frames[t], blocked'[t]) /\ Asked(call'[t], frames[t], blocked'[t], wanted'[t])
    BY <1>e, <2>1, <2>3, <2>4 DEF Asked
  <2>7. \A u \in Tasks \ {t} : /\ blocked'[u] = blocked[u] /\ call'[u] = call[u]
                               /\ wanted'[u] = wanted[u]
    BY <1>0, <2>3 DEF SignalTypes
  <2> QED
    BY <2>3, <2>5, <2>6, <2>7, SameFrames
<1>5. ASSUME NEW t \in Tasks, NEW kind \in {"read", "pause"}, Sig!Blocks(t, kind) PROVE SignalInv'
  <2>1. /\ call[t].kind = "none" /\ UNCHANGED <<pending, blocked, frames, alive, action, wanted>>
        /\ call' = [call EXCEPT ![t] = [kind |-> kind, saved |-> {}, ret |-> "none"]]
    BY <1>5, <1>u DEF Sig!Blocks, Sig!Calls, Sig!User
  <2>2. call' \in [Tasks -> CallTypes] /\ call'[t].kind # "suspend"
    BY <1>0, <2>1 DEF SignalTypes
  <2>3. SignalTypes'
    BY <1>0, <2>1, <2>2 DEF SignalTypes
  <2>4. Nested(frames[t], blocked'[t]) /\ Asked(call'[t], frames[t], blocked'[t], wanted'[t])
    BY <1>0, <2>1, <2>2 DEF Asked
  <2>5. \A u \in Tasks \ {t} : /\ blocked'[u] = blocked[u] /\ call'[u] = call[u]
                               /\ wanted'[u] = wanted[u]
    BY <1>0, <2>1 DEF SignalTypes
  <2> QED
    BY <2>1, <2>3, <2>4, <2>5, SameFrames
<1>6. ASSUME NEW t \in Tasks, Sig!Wake(t) PROVE SignalInv'
  <2>1. PICK ret \in {"restart", "interrupted", "ok"} :
          call' = [call EXCEPT ![t] = [kind |-> "return", saved |-> {}, ret |-> ret]]
    BY <1>6 DEF Sig!Wake, Sig!Returning
  <2>2. /\ blocked' = [blocked EXCEPT ![t] = IF call[t].kind = "suspend" THEN call[t].saved
                                            ELSE blocked[t]]
        /\ UNCHANGED <<pending, frames, alive, action, wanted>>
    BY <1>0, <1>6 DEF Sig!Wake, SignalTypes
  <2>3. call' \in [Tasks -> CallTypes] /\ call'[t].kind = "return"
    BY <1>0, <2>1 DEF SignalTypes
  <2>4. blocked' \in [Tasks -> SUBSET Sig!Signals]
    BY <1>0, <2>2 DEF SignalTypes
  <2>5. SignalTypes'
    BY <1>0, <2>2, <2>3, <2>4 DEF SignalTypes
  <2>6. blocked'[t] = IF call[t].kind = "suspend" THEN call[t].saved ELSE blocked[t]
    BY <1>0, <2>2 DEF SignalTypes
  <2>7. Nested(frames[t], blocked'[t])
    <3>1. CASE call[t].kind = "suspend"
      BY <1>0, <1>e, <3>1 DEF Asked
    <3>2. CASE call[t].kind # "suspend"
      BY <1>0, <2>6, <3>2
    <3> QED
      BY <3>1, <3>2
  <2>8. Asked(call'[t], frames[t], blocked'[t], wanted'[t])
    <3>1. CASE call[t].kind = "suspend"
      <4>1. frames[t] = <<>> /\ blocked'[t] = wanted[t] /\ wanted[t] \cap Unblockable = {}
        BY <1>0, <2>6, <3>1 DEF Asked
      <4> QED
        BY <2>2, <2>3, <4>1 DEF Asked
    <3>2. CASE call[t].kind # "suspend"
      BY <1>0, <2>2, <2>3, <2>6, <3>2 DEF Asked
    <3> QED
      BY <3>1, <3>2
  <2>9. \A u \in Tasks \ {t} : /\ blocked'[u] = blocked[u] /\ call'[u] = call[u]
                                /\ wanted'[u] = wanted[u]
    BY <1>0, <2>1, <2>2 DEF SignalTypes
  <2> QED
    BY <2>2, <2>5, <2>7, <2>8, <2>9, SameFrames
<1>7. ASSUME NEW t \in Tasks, Sig!Return(t) PROVE SignalInv'
  <2>1. PICK kind \in {"again", "none"} :
          call' = [call EXCEPT ![t] = [kind |-> kind, saved |-> {}, ret |-> "none"]]
    BY <1>7, <1>u, ZenonT(40) DEF Sig!Return
  <2>2. call' \in [Tasks -> CallTypes] /\ call'[t].kind # "suspend"
    BY <1>0, <2>1 DEF SignalTypes
  <2>3. call[t].kind = "return" /\ Sig!Deliver(t)
    BY <1>7 DEF Sig!Return
  <2>4. \A u \in Tasks \ {t} : call'[u] = call[u]
    BY <1>0, <2>1 DEF SignalTypes
  <2> QED
    BY <2>2, <2>3, <2>4, DeliverSignalInv
<1>8. ASSUME NEW t \in Tasks, Sig!Tick(t) PROVE SignalInv'
  <2>1. call[t].kind # "suspend" /\ Sig!Deliver(t) /\ call' = call
    BY <1>8 DEF Sig!Tick
  <2>2. call \in [Tasks -> CallTypes]
    BY <1>0 DEF SignalTypes
  <2> QED
    BY <2>1, <2>2, DeliverSignalInv
<1>9. ASSUME NEW t \in Tasks, Sig!sigreturn(t) PROVE SignalInv'
  <2> DEFINE fs == frames[t]
             f == fs[Len(fs)]
  <2>1. /\ call[t].kind # "suspend" /\ fs # <<>> /\ fs \in Seq(Contexts)
        /\ blocked' = [blocked EXCEPT ![t] = f.mask]
        /\ frames' = [frames EXCEPT ![t] = Sig!Front(fs)]
        /\ UNCHANGED <<pending, alive, action, wanted>>
    BY <1>0, <1>9 DEF Sig!sigreturn, SignalTypes
  <2>2. PICK ret \in {"again", "ok"} :
          call' = [call EXCEPT ![t] = [kind |-> "return", saved |-> {}, ret |-> ret]]
    BY <1>9 DEF Sig!sigreturn, Sig!Returning
  <2>3. call' \in [Tasks -> CallTypes] /\ call'[t].kind = "return"
    BY <1>0, <2>2 DEF SignalTypes
  <2>4. /\ Sig!Front(fs) \in Seq(Contexts) /\ Nested(Sig!Front(fs), f.mask)
        /\ f \in Contexts /\ f.mask \cap Unblockable = {}
        /\ Sig!Front(fs) = <<>> => f = fs[1]
        /\ Sig!Front(fs) # <<>> => Sig!Front(fs)[1] = fs[1]
    BY <1>0, <2>1, LeaveHandler
  <2>5. fs[1].mask = wanted[t] /\ wanted[t] \cap Unblockable = {}
    BY <1>0, <2>1 DEF Asked
  <2> HIDE DEF f, fs
  <2>6. frames'[t] = Sig!Front(fs) /\ blocked'[t] = f.mask
    BY <1>0, <2>1 DEF SignalTypes
  <2>7. f.mask \in SUBSET Sig!Signals
    BY <2>4 DEF Contexts
  <2>8. SignalTypes'
    BY <1>0, <2>1, <2>3, <2>4, <2>7 DEF SignalTypes
  <2>9. Aside(t)
    BY <1>0, <2>1, <2>2 DEF Aside, SignalTypes
  <2>10. Asked(call'[t], frames'[t], blocked'[t], wanted'[t])
    BY <2>1, <2>3, <2>4, <2>5, <2>6 DEF Asked
  <2>11. \A s \in Sig!Signals \cap Unblockable : action'[s].handler = "default"
    BY <2>1 DEF SignalInv
  <2> QED
    BY <2>4, <2>6, <2>8, <2>9, <2>10, <2>11, OneTask
<1>10. ASSUME NEW t \in Tasks, Sig!Again(t) PROVE SignalInv'
  <2>1. /\ call[t].kind = "again" /\ UNCHANGED <<pending, blocked, frames, alive, action, wanted>>
        /\ call' = [call EXCEPT ![t] = [kind |-> "read", saved |-> {}, ret |-> "none"]]
    BY <1>10, <1>u DEF Sig!Again
  <2>2. call' \in [Tasks -> CallTypes] /\ call'[t].kind # "suspend"
    BY <1>0, <2>1 DEF SignalTypes
  <2>3. SignalTypes'
    BY <1>0, <2>1, <2>2 DEF SignalTypes
  <2>4. Nested(frames[t], blocked'[t]) /\ Asked(call'[t], frames[t], blocked'[t], wanted'[t])
    BY <1>0, <2>1, <2>2 DEF Asked
  <2>5. \A u \in Tasks \ {t} : /\ blocked'[u] = blocked[u] /\ call'[u] = call[u]
                               /\ wanted'[u] = wanted[u]
    BY <1>0, <2>1 DEF SignalTypes
  <2> QED
    BY <2>1, <2>3, <2>4, <2>5, SameFrames
<1>11. CASE UNCHANGED sigVars
  BY <1>11 DEF sigVars, SignalInv, SignalTypes
<1> QED
  BY <1>1, <1>2, <1>3, <1>4, <1>5, <1>6, <1>7, <1>8, <1>9, <1>10, <1>11
     DEF Sig!Next, Sig!Step, Sig!Request

(* Handlers nest like calls, whatever signals are sent, blocked and waited *)
(* for, by any number of threads.                                          *)
THEOREM SignalsHandlersNest == ASSUME SignalParameters PROVE Sig!Spec => []HandlersNest
<1>1. SignalInv => HandlersNest
  <2> SUFFICES ASSUME SignalInv, NEW t \in Tasks
               PROVE  /\ \A i, j \in DOMAIN frames[t] :
                           i < j /\ frames[t][i].sig = frames[t][j].sig => frames[t][i].nodefer
                      /\ alive /\ frames[t] = <<>> /\ call[t].kind # "suspend" => blocked[t] = wanted[t]
                      /\ alive /\ frames[t] # <<>> => frames[t][1].mask = wanted[t]
                      /\ blocked[t] \cap Unblockable = {} \/ call[t].kind = "suspend"
    BY DEF HandlersNest, Sig!HandlersNest
  <2>1. Nested(frames[t], blocked[t]) /\ Asked(call[t], frames[t], blocked[t], wanted[t])
    BY DEF SignalInv
  <2>2. DOMAIN frames[t] = 1..Len(frames[t])
    BY DEF SignalInv, SignalTypes
  <2>3. ASSUME NEW i \in 1..Len(frames[t]), NEW j \in 1..Len(frames[t]), i < j,
               frames[t][i].sig = frames[t][j].sig
        PROVE  frames[t][i].nodefer
    BY <2>1, <2>3 DEF Nested
  <2> QED
    BY <2>1, <2>2, <2>3 DEF Asked
<1>2. SignalParameters /\ SignalInv /\ [Sig!Next]_sigVars => SignalInv'
  BY NextSignalInv
<1>3. Sig!sigVars = sigVars
  BY DEF Sig!sigVars, sigVars
<1>4. Sig!Init => SignalInv
  BY InitSignalInv
<1>5. SignalInv /\ [Sig!Next]_Sig!sigVars => SignalInv'
  BY <1>2 DEF Sig!sigVars, sigVars
<1> QED
  BY <1>1, <1>4, <1>5, PTL DEF Sig!Spec
-----------------------------------------------------------------------------
(***************************************************************************)
(* execve.                                                                 *)
(***************************************************************************)

(* What execve may own at each of its steps, and which address space the   *)
(* task is in.                                                             *)
MayOwn(c) ==
  CASE c = "envp" -> {"argv"}
    [] c \in {"stat", "open"} -> {"argv", "envp"}
    [] c = "buffer" -> {"argv", "envp", "file"}
    [] c = "read" -> {"argv", "envp", "file", "exe"}
    [] c \in {"header", "vm", "segments", "env"} -> {"argv", "envp", "exe"}
    [] c = "arg" -> {"argv", "exe", "envp_ptrs"}
    [] c = "random" -> {"exe", "envp_ptrs", "argv_ptrs"}
    [] c = "tables" -> {"envp_ptrs", "argv_ptrs"}
    [] OTHER -> {}

Entered == {"segments", "env", "arg", "random", "tables", "commit", "running"}
Owning(p, rs) == \A r \in X!Resources : p[r] \in {"null", "owned"} /\ (p[r] = "owned" => r \in rs)
Spaces(c, v, n) == IF c \in Entered THEN v = "new" /\ n = 1 ELSE v = "old" /\ n = 0

ExecInv ==
  /\ ~badFree /\ ptr \in [X!Resources -> {"null", "owned"}]
  /\ vmRefs \in [old : Int, new : Int]
  /\ Owning(ptr, MayOwn(xpc)) /\ Spaces(xpc, vm, vmRefs.new)

(* What is given back, and what is got: the rest is left alone.            *)
LEMMA FreeOwning ==
  ASSUME ExecInv, NEW rs \in SUBSET X!Resources, X!Free(rs), NEW S, MayOwn(xpc) \subseteq rs \cup S
  PROVE  ~badFree' /\ ptr' \in [X!Resources -> {"null", "owned"}] /\ Owning(ptr', S)
<1>1. ~badFree /\ ptr \in [X!Resources -> {"null", "owned"}] /\ Owning(ptr, MayOwn(xpc))
  BY DEF ExecInv
<1>2. /\ badFree' = (badFree \/ \E r \in rs : ptr[r] = "dangling")
      /\ ptr' = [r \in X!Resources |-> IF r \in rs THEN "null" ELSE ptr[r]]
  BY DEF X!Free
<1> QED
  BY <1>1, <1>2 DEF Owning

(* What is got may be owned from then on.                                  *)
LEMMA GotOwning ==
  ASSUME ExecInv, NEW rs, ptr' = X!Owned(ptr, rs), NEW S, MayOwn(xpc) \cup rs \subseteq S
  PROVE  ptr' \in [X!Resources -> {"null", "owned"}] /\ Owning(ptr', S)
<1>1. ptr \in [X!Resources -> {"null", "owned"}] /\ Owning(ptr, MayOwn(xpc))
  BY DEF ExecInv
<1> QED
  BY <1>1 DEF Owning, X!Owned

(* A step that touches nothing leaves everything owned that was.           *)
LEMMA SameOwning ==
  ASSUME ExecInv, ptr' = ptr, NEW S, MayOwn(xpc) \subseteq S
  PROVE  ptr' \in [X!Resources -> {"null", "owned"}] /\ Owning(ptr', S)
  BY DEF ExecInv, Owning

(* The parts of a step put together.                                       *)
LEMMA ExecStep ==
  ASSUME ExecInv, ~badFree', ptr' \in [X!Resources -> {"null", "owned"}],
         Owning(ptr', MayOwn(xpc')), vmRefs' \in [old : Int, new : Int],
         Spaces(xpc', vm', vmRefs'.new)
  PROVE  ExecInv'
  BY DEF ExecInv

(* The two ways out of a call that fails.                                  *)
LEMMA FailExeInv ==
  ASSUME ExecInv, xpc \in {"stat", "open", "buffer", "read", "header", "vm"}, X!fail_exe
  PROVE  ExecInv'
<1>1. xpc' = "failed" /\ X!Free({"exe", "file", "envp", "argv"}) /\ vmRefs' = vmRefs /\ vm' = vm
  BY DEF X!fail_exe
<1>2. MayOwn(xpc) \subseteq {"exe", "file", "envp", "argv"} /\ MayOwn("failed") = {}
  BY DEF MayOwn
<1>3. ~badFree' /\ ptr' \in [X!Resources -> {"null", "owned"}] /\ Owning(ptr', {})
  BY <1>1, <1>2, FreeOwning DEF X!Resources
<1>4. vmRefs' \in [old : Int, new : Int] /\ Spaces("failed", vm', vmRefs'.new)
  BY <1>1 DEF ExecInv, Spaces, Entered
<1> QED
  BY <1>1, <1>2, <1>3, <1>4, ExecStep

(* Once in the new address space, failing leaves it too.                   *)
LEMMA FailVmInv ==
  ASSUME ExecInv, xpc \in Entered, X!fail_vm
  PROVE  ExecInv'
<1>1. /\ xpc' = "failed" /\ X!Free(X!Resources)
      /\ vmRefs' = [vmRefs EXCEPT !.new = @ - 1] /\ vm' = "old"
  BY DEF X!fail_vm
<1>2. MayOwn(xpc) \subseteq X!Resources /\ MayOwn("failed") = {}
  BY DEF MayOwn, X!Resources
<1>3. ~badFree' /\ ptr' \in [X!Resources -> {"null", "owned"}] /\ Owning(ptr', {})
  BY <1>1, <1>2, FreeOwning
<1>4. vmRefs \in [old : Int, new : Int] /\ vmRefs.new = 1
  BY DEF ExecInv, Spaces
<1>5. vmRefs' \in [old : Int, new : Int] /\ vmRefs'.new = 0
  BY <1>1, <1>4
<1>6. Spaces("failed", vm', vmRefs'.new)
  BY <1>1, <1>5 DEF Spaces, Entered
<1> QED
  BY <1>1, <1>2, <1>3, <1>5, <1>6, ExecStep

(* A step that goes on in the same address space.                          *)
LEMMA GoesInv ==
  ASSUME ExecInv, NEW to, xpc' = to, vm' = vm, vmRefs' = vmRefs, to \in Entered <=> xpc \in Entered,
         ~badFree', ptr' \in [X!Resources -> {"null", "owned"}], Owning(ptr', MayOwn(to))
  PROVE  ExecInv'
<1>1. vmRefs' \in [old : Int, new : Int] /\ Spaces(xpc', vm', vmRefs'.new)
  BY DEF ExecInv, Spaces
<1> QED
  BY <1>1, ExecStep

(* The copies of argv and envp.                                            *)
LEMMA CloneInv ==
  ASSUME ExecInv, X!CloneArgv \/ X!CloneEnvp
  PROVE  ExecInv'
<1>0. ~badFree /\ vm' = vm /\ vmRefs' = vmRefs
  BY DEF ExecInv, X!CloneArgv, X!CloneEnvp, X!NoVm
<1>1. CASE X!CloneArgv
  <2>1. /\ xpc = "argv" /\ xpc' \in {"envp", "failed"} /\ badFree' = badFree
        /\ ptr' = ptr \/ (xpc' = "envp" /\ ptr' = X!Owned(ptr, {"argv"}))
    BY <1>1 DEF X!CloneArgv, X!Got, X!Same
  <2>2. MayOwn("argv") = {} /\ MayOwn("envp") = {"argv"}
    BY DEF MayOwn
  <2>3. ptr' \in [X!Resources -> {"null", "owned"}] /\ Owning(ptr', MayOwn(xpc'))
    <3>1. CASE ptr' = ptr
      BY <2>1, <2>2, <3>1, SameOwning
    <3>2. CASE xpc' = "envp" /\ ptr' = X!Owned(ptr, {"argv"})
      BY <2>1, <2>2, <3>2, GotOwning
    <3> QED
      BY <2>1, <3>1, <3>2
  <2> QED
    BY <1>0, <2>1, <2>3, GoesInv DEF Entered
<1>2. CASE X!CloneEnvp
  <2>1. /\ xpc = "envp"
        /\ \/ xpc' = "stat" /\ badFree' = badFree /\ ptr' = ptr
           \/ xpc' = "stat" /\ badFree' = badFree /\ ptr' = X!Owned(ptr, {"envp"})
           \/ xpc' = "failed" /\ X!Free({"argv"})
    BY <1>2 DEF X!CloneEnvp, X!Got, X!Same
  <2>2. MayOwn("envp") = {"argv"} /\ MayOwn("stat") = {"argv", "envp"} /\ MayOwn("failed") = {}
    BY DEF MayOwn
  <2>3. ~badFree' /\ ptr' \in [X!Resources -> {"null", "owned"}] /\ Owning(ptr', MayOwn(xpc'))
    <3>1. CASE xpc' = "stat" /\ badFree' = badFree /\ ptr' = ptr
      BY <1>0, <2>1, <2>2, <3>1, SameOwning
    <3>2. CASE xpc' = "stat" /\ badFree' = badFree /\ ptr' = X!Owned(ptr, {"envp"})
      BY <1>0, <2>1, <2>2, <3>2, GotOwning
    <3>3. CASE xpc' = "failed" /\ X!Free({"argv"})
      BY <2>1, <2>2, <3>3, FreeOwning DEF X!Resources
    <3> QED
      BY <2>1, <3>1, <3>2, <3>3
  <2> QED
    BY <1>0, <2>1, <2>3, GoesInv DEF Entered
<1> QED
  BY <1>1, <1>2

(* From the look at the file to its header.                                *)
LEMMA LoadInv ==
  ASSUME ExecInv, X!Stat \/ X!Open \/ X!Buffer \/ X!Read \/ X!Header
  PROVE  ExecInv'
<1>0. ~badFree
  BY DEF ExecInv
<1>1. CASE X!fail_exe /\ xpc \in {"stat", "open", "buffer", "read", "header", "vm"}
  BY <1>1, FailExeInv
<1>2. CASE /\ vm' = vm /\ vmRefs' = vmRefs /\ badFree' = badFree
           /\ \/ xpc = "stat" /\ xpc' = "open" /\ ptr' = ptr
              \/ xpc = "open" /\ xpc' = "buffer" /\ ptr' = X!Owned(ptr, {"file"})
              \/ xpc = "buffer" /\ xpc' = "read" /\ ptr' = X!Owned(ptr, {"exe"})
              \/ xpc = "header" /\ xpc' = "vm" /\ ptr' = ptr
  <2>1. /\ MayOwn("stat") = {"argv", "envp"} /\ MayOwn("open") = {"argv", "envp"}
        /\ MayOwn("buffer") = {"argv", "envp", "file"}
        /\ MayOwn("read") = {"argv", "envp", "file", "exe"}
        /\ MayOwn("header") = {"argv", "envp", "exe"} /\ MayOwn("vm") = {"argv", "envp", "exe"}
    BY DEF MayOwn
  <2>2. ptr' \in [X!Resources -> {"null", "owned"}] /\ Owning(ptr', MayOwn(xpc'))
    <3>1. CASE ptr' = ptr /\ MayOwn(xpc) \subseteq MayOwn(xpc')
      BY <3>1, SameOwning
    <3>2. CASE ptr' = X!Owned(ptr, {"file"}) /\ MayOwn(xpc) \cup {"file"} \subseteq MayOwn(xpc')
      BY <3>2, GotOwning
    <3>3. CASE ptr' = X!Owned(ptr, {"exe"}) /\ MayOwn(xpc) \cup {"exe"} \subseteq MayOwn(xpc')
      BY <3>3, GotOwning
    <3> QED
      BY <1>2, <2>1, <3>1, <3>2, <3>3
  <2>3. xpc \notin Entered /\ xpc' \notin Entered
    BY <1>2 DEF Entered
  <2> QED
    BY <1>0, <1>2, <2>2, <2>3, GoesInv
<1>3. CASE X!Read
  <2>1. xpc = "read" /\ xpc' = "header" /\ X!Free({"file"}) /\ vm' = vm /\ vmRefs' = vmRefs
    BY <1>3 DEF X!Read, X!Goes, X!NoVm
  <2>2. MayOwn("read") \subseteq {"file"} \cup MayOwn("header")
    BY DEF MayOwn
  <2>3. ~badFree' /\ ptr' \in [X!Resources -> {"null", "owned"}] /\ Owning(ptr', MayOwn("header"))
    BY <2>1, <2>2, FreeOwning DEF X!Resources
  <2> QED
    BY <2>1, <2>3, GoesInv DEF Entered
<1> QED
  BY <1>1, <1>2, <1>3
  DEF X!Stat, X!Open, X!Buffer, X!Header, X!Goes, X!Same, X!Got, X!NoVm

(* The new address space, its segments and its stack.                      *)
LEMMA SpaceInv ==
  ASSUME ExecInv, X!vm_create \/ X!Segments
  PROVE  ExecInv'
<1>0. ~badFree /\ vmRefs \in [old : Int, new : Int]
  BY DEF ExecInv
<1>m. /\ MayOwn("vm") = {"argv", "envp", "exe"} /\ MayOwn("segments") = {"argv", "envp", "exe"}
      /\ MayOwn("env") = {"argv", "envp", "exe"}
  BY DEF MayOwn
<1>1. CASE xpc = "vm" /\ X!fail_exe
  BY <1>1, FailExeInv
<1>2. CASE xpc = "segments" /\ X!fail_vm
  BY <1>2, FailVmInv DEF Entered
<1>3. CASE /\ xpc = "vm" /\ xpc' = "segments" /\ ptr' = ptr /\ badFree' = badFree
           /\ vm' = "new" /\ vmRefs' = [vmRefs EXCEPT !.new = 1]
  <2>1. ptr' \in [X!Resources -> {"null", "owned"}] /\ Owning(ptr', MayOwn(xpc'))
    BY <1>3, <1>m, SameOwning
  <2>2. vmRefs' \in [old : Int, new : Int] /\ vmRefs'.new = 1
    BY <1>0, <1>3
  <2>3. Spaces(xpc', vm', vmRefs'.new)
    BY <1>3, <2>2 DEF Spaces, Entered
  <2> QED
    BY <1>0, <1>3, <2>1, <2>2, <2>3, ExecStep
<1>4. CASE /\ xpc = "segments" /\ xpc' = "env" /\ ptr' = ptr /\ badFree' = badFree
           /\ vm' = vm /\ vmRefs' = vmRefs
  <2>1. ptr' \in [X!Resources -> {"null", "owned"}] /\ Owning(ptr', MayOwn("env"))
    BY <1>4, <1>m, SameOwning
  <2> QED
    BY <1>0, <1>4, <2>1, GoesInv DEF Entered
<1> QED
  BY <1>1, <1>2, <1>3, <1>4 DEF X!vm_create, X!Segments, X!Goes, X!Same, X!NoVm

(* The strings: their table is got, and they are given back.               *)
LEMMA PushInv ==
  ASSUME ExecInv, X!PushEnv \/ X!PushArg
  PROVE  ExecInv'
<1>0. ~badFree
  BY DEF ExecInv
<1>1. CASE xpc \in {"env", "arg"} /\ X!fail_vm
  BY <1>1, FailVmInv DEF Entered
<1>2. ASSUME NEW strings \in {"envp", "argv"}, NEW ptrs \in {"envp_ptrs", "argv_ptrs"}, NEW rs,
             rs \subseteq {ptrs}, ptr' = X!AfterPush(X!Owned(ptr, rs), strings), badFree' = badFree,
             vm' = vm, vmRefs' = vmRefs,
             \/ xpc = "env" /\ xpc' = "arg" /\ strings = "envp" /\ ptrs = "envp_ptrs"
             \/ xpc = "arg" /\ xpc' = "random" /\ strings = "argv" /\ ptrs = "argv_ptrs"
      PROVE  ExecInv'
  <2>1. ptr \in [X!Resources -> {"null", "owned"}] /\ Owning(ptr, MayOwn(xpc))
    BY DEF ExecInv
  <2>2. /\ MayOwn("env") = {"argv", "envp", "exe"} /\ MayOwn("arg") = {"argv", "exe", "envp_ptrs"}
        /\ MayOwn("random") = {"exe", "envp_ptrs", "argv_ptrs"}
    BY DEF MayOwn
  <2>3. /\ \A r \in X!Resources :
             ptr'[r] = IF r = strings THEN "null" ELSE IF r \in rs THEN "owned" ELSE ptr[r]
        /\ ptr' \in [X!Resources -> {"null", "owned"}]
    BY <1>2, <2>1 DEF X!AfterPush, X!Owned
  <2>4. Owning(ptr', MayOwn(xpc'))
    <3> SUFFICES ASSUME NEW r \in X!Resources, ptr'[r] = "owned"
                 PROVE  r \in MayOwn(xpc')
      BY <2>3 DEF Owning
    <3>1. r # strings /\ (r \in rs \/ r \in MayOwn(xpc))
      BY <2>1, <2>3 DEF Owning
    <3> QED
      BY <1>2, <2>2, <3>1
  <2>5. xpc \in Entered /\ xpc' \in Entered
    BY <1>2 DEF Entered
  <2> QED
    BY <1>0, <1>2, <2>3, <2>4, <2>5, GoesInv
<1>3. CASE X!PushEnv
  <2> DEFINE s == X!push_strings(X!push_value(X!OnStack, 0), args.envp)
             rs == IF args["envp"] = <<>> THEN {} ELSE {"envp_ptrs"}
  <2>1. xpc = "env" /\ X!Push(s, "envp", "envp_ptrs", "arg")
    BY <1>3 DEF X!PushEnv
  <2> HIDE DEF s
  <2>2. \/ X!fail_vm
        \/ /\ xpc' = "arg" /\ ptr' = X!AfterPush(X!Owned(ptr, rs), "envp")
           /\ badFree' = badFree /\ vm' = vm /\ vmRefs' = vmRefs
    BY <2>1 DEF X!Push, X!NoVm
  <2>3. rs \subseteq {"envp_ptrs"}
    OBVIOUS
  <2> HIDE DEF rs
  <2> QED
    BY <1>1, <1>2, <2>1, <2>2, <2>3
<1>4. CASE X!PushArg
  <2> DEFINE s == X!push_strings(X!OnStack, args.argv)
             rs == IF args["argv"] = <<>> THEN {} ELSE {"argv_ptrs"}
  <2>1. xpc = "arg" /\ X!Push(s, "argv", "argv_ptrs", "random")
    BY <1>4 DEF X!PushArg
  <2> HIDE DEF s
  <2>2. \/ X!fail_vm
        \/ /\ xpc' = "random" /\ ptr' = X!AfterPush(X!Owned(ptr, rs), "argv")
           /\ badFree' = badFree /\ vm' = vm /\ vmRefs' = vmRefs
    BY <2>1 DEF X!Push, X!NoVm
  <2>3. rs \subseteq {"argv_ptrs"}
    OBVIOUS
  <2> HIDE DEF rs
  <2> QED
    BY <1>1, <1>2, <2>1, <2>2, <2>3
<1> QED
  BY <1>3, <1>4

(* The random words, the tables, and the way into the program.             *)
LEMMA EnterInv ==
  ASSUME ExecInv, X!PushRandom \/ X!PushTables \/ X!Commit
  PROVE  ExecInv'
<1>0. ~badFree /\ vmRefs \in [old : Int, new : Int] /\ Spaces(xpc, vm, vmRefs.new)
  BY DEF ExecInv
<1>m. /\ MayOwn("random") = {"exe", "envp_ptrs", "argv_ptrs"}
      /\ MayOwn("tables") = {"envp_ptrs", "argv_ptrs"} /\ MayOwn("commit") = {}
      /\ MayOwn("running") = {}
  BY DEF MayOwn
<1>1. CASE xpc \in {"random", "tables"} /\ X!fail_vm
  BY <1>1, FailVmInv DEF Entered
<1>2. CASE xpc = "random" /\ xpc' = "tables" /\ X!Free({"exe"}) /\ vm' = vm /\ vmRefs' = vmRefs
  <2>1. ~badFree' /\ ptr' \in [X!Resources -> {"null", "owned"}] /\ Owning(ptr', MayOwn("tables"))
    BY <1>2, <1>m, FreeOwning DEF X!Resources
  <2> QED
    BY <1>2, <2>1, GoesInv DEF Entered
<1>3. CASE xpc = "tables" /\ xpc' = "commit" /\ X!Free({"envp_ptrs", "argv_ptrs"})
           /\ vm' = vm /\ vmRefs' = vmRefs
  <2>1. ~badFree' /\ ptr' \in [X!Resources -> {"null", "owned"}] /\ Owning(ptr', MayOwn("commit"))
    BY <1>3, <1>m, FreeOwning DEF X!Resources
  <2> QED
    BY <1>3, <2>1, GoesInv DEF Entered
<1>4. CASE X!Commit
  <2>1. /\ xpc = "commit" /\ xpc' = "running" /\ ptr' = ptr /\ badFree' = badFree /\ vm' = vm
        /\ vmRefs' = IF X!FromKernel THEN vmRefs ELSE [vmRefs EXCEPT !.old = @ - 1]
    BY <1>4 DEF X!Commit, X!Goes, X!Same
  <2>2. vmRefs' \in [old : Int, new : Int] /\ vmRefs'.new = vmRefs.new
    BY <1>0, <2>1
  <2>3. Spaces("running", vm', vmRefs'.new)
    BY <1>0, <2>1, <2>2 DEF Spaces, Entered
  <2>4. ptr' \in [X!Resources -> {"null", "owned"}] /\ Owning(ptr', MayOwn("running"))
    BY <2>1, <1>m, SameOwning
  <2> QED
    BY <1>0, <2>1, <2>2, <2>3, <2>4, ExecStep
<1>5. CASE X!PushRandom
  <2>1. xpc = "random" /\ (X!fail_vm \/ (xpc' = "tables" /\ X!Free({"exe"}) /\ X!NoVm))
    BY <1>5 DEF X!PushRandom
  <2> QED
    BY <1>1, <1>2, <2>1 DEF X!NoVm
<1>6. CASE X!PushTables
  <2>1. /\ xpc = "tables"
        /\ X!fail_vm \/ (xpc' = "commit" /\ X!Free({"envp_ptrs", "argv_ptrs"}) /\ X!NoVm)
    BY <1>6 DEF X!PushTables
  <2> QED
    BY <1>1, <1>3, <2>1 DEF X!NoVm
<1> QED
  BY <1>4, <1>5, <1>6

(* At whichever of its steps execve fails: what it allocated is given back *)
(* once, the new address space is gone and the task is in its old one; and *)
(* when nothing fails it holds the new one and nothing else.               *)
THEOREM ExecGivesBack == X!Spec => []X!GivenBack
<1>1. X!Init => ExecInv
  <2> SUFFICES ASSUME X!Init
               PROVE  ExecInv
    OBVIOUS
  <2>1. /\ xpc = "argv" /\ ptr = [r \in X!Resources |-> "null"] /\ ~badFree /\ vm = "old"
        /\ vmRefs \in {[old |-> n, new |-> 0] : n \in 0..2}
    BY DEF X!Init
  <2>2. vmRefs \in [old : Int, new : Int] /\ vmRefs.new = 0
    BY <2>1
  <2> QED
    BY <2>1, <2>2 DEF ExecInv, Owning, Spaces, Entered
<1>2. ExecInv /\ [X!Next]_X!execVars => ExecInv'
  <2>1. ASSUME ExecInv, X!Next
        PROVE  ExecInv'
    BY <2>1, CloneInv, LoadInv, SpaceInv, PushInv, EnterInv DEF X!Next
  <2>2. ASSUME ExecInv, UNCHANGED X!execVars
        PROVE  ExecInv'
    BY <2>2 DEF X!execVars, ExecInv
  <2> QED
    BY <2>1, <2>2
<1>3. ExecInv => X!GivenBack
  <2> SUFFICES ASSUME ExecInv
               PROVE  X!GivenBack
    OBVIOUS
  <2>1. MayOwn("failed") = {} /\ MayOwn("running") = {}
    BY DEF MayOwn
  <2> QED
    BY <2>1 DEF ExecInv, Owning, Spaces, Entered, X!GivenBack
<1> QED
  BY <1>1, <1>2, <1>3, PTL DEF X!Spec
=============================================================================
