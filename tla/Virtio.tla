------------------------------- MODULE Virtio -------------------------------
(***************************************************************************)
(* The virtio block driver: bringing the device up (virtio_device_create,  *)
(* virtio_blk_device_init), and the requests of several tasks through the  *)
(* one split virtqueue (virtio.c, virtio_blk.c) that the device reads and  *)
(* answers on its own.                                                     *)
(*                                                                         *)
(* A buffer is named after the task on whose stack or in whose memory it   *)
(* is.  The indexes run free modulo Modulus (2^16 in the code).            *)
(***************************************************************************)
EXTENDS Naturals, Sequences, FiniteSets

CONSTANTS Tasks, NoTask,
          Size,         \* descriptors of the queue
          Modulus,      \* a multiple of Size
          Capacity,     \* sectors of the disk
          MaxRequests   \* bound: requests made

VARIABLES stage,        \* of bringing up the device
          status,       \* common_cfg->device_status
          desc, freeHead, numFree,       \* struct virtq
          shadow, ring, availIdx, usedIdx,
          seen,         \* the device's own index into the available ring
          owner,        \* node->lock
          at, req, chain, served,        \* per task; served: answers to its request
          made

virtioVars == <<stage, status, desc, freeHead, numFree, shadow, ring, availIdx, usedIdx, seen,
                owner, at, req, chain, served, made>>
queueVars == <<desc, freeHead, numFree, shadow, ring, availIdx, usedIdx, seen>>
taskVars == <<owner, at, req, chain, served, made>>

Descs == 0..(Size - 1)
NoReq == [type |-> "none", sector |-> 0, count |-> 0]
NoChain == [head |-> 0, tail |-> 0, pushed |-> 0]
NoBuf == <<NoTask, "none">>

Init ==
  /\ stage = "discover" /\ status = {}
  /\ desc = [i \in Descs |-> [buf |-> NoBuf, write |-> FALSE, more |-> FALSE, next |-> (i + 1) % Size]]
  /\ freeHead = 0 /\ numFree = Size
  /\ shadow = 0 /\ ring = [i \in Descs |-> 0] /\ availIdx = 0 /\ usedIdx = 0 /\ seen = 0
  /\ owner = NoTask /\ at = [t \in Tasks |-> "idle"] /\ req = [t \in Tasks |-> NoReq]
  /\ chain = [t \in Tasks |-> NoChain] /\ served = [t \in Tasks |-> 0] /\ made = 0

-----------------------------------------------------------------------------
(* virtio_device_create.  Every failure but that of kmalloc returns null,  *)
(* which IS_ERR takes for a device ("null"); an unmappable BAR is freed as *)
(* if it were memory, which panics.                                        *)
Discover ==
  /\ stage = "discover" /\ stage' \in {"absent", "null", "panic", "reset"}
  /\ UNCHANGED status
Reset ==
  /\ stage = "reset" /\ stage' = "features"
  /\ status' = {"ACKNOWLEDGE", "DRIVER", "FEATURES_OK"}
Features ==      \* the device may take FEATURES_OK back, or have too few queues
  /\ stage = "features"
  /\ \/ stage' = "queues" /\ UNCHANGED status
     \/ \E s \in {status, status \ {"FEATURES_OK"}} : stage' = "null" /\ status' = s \cup {"FAILED"}
Queues ==        \* the queue may have no size, or there is no memory for it
  /\ stage = "queues"
  /\ \/ stage' = "config" /\ status' = status \cup {"DRIVER_OK"}
     \/ stage' = "null" /\ status' = status \cup {"FAILED"}
Config ==        \* virtio_blk_device_init: the capacity, and the device file
  /\ stage = "config" /\ stage' \in {"live", "absent"} /\ UNCHANGED status

Create == /\ Discover \/ Reset \/ Features \/ Queues \/ Config
          /\ UNCHANGED queueVars /\ UNCHANGED taskVars

-----------------------------------------------------------------------------
Least(a, b) == IF a <= b THEN a ELSE b
Goto(t, there) == at' = [at EXCEPT ![t] = there]
Put(t) == req' = [req EXCEPT ![t] = NoReq] /\ served' = [served EXCEPT ![t] = 0]

(* virtio_blk_do_io: beyond the end nothing is read, and a request that    *)
(* reaches beyond it is cut.  A device taken from null is used here.       *)
do_io(t, type, sector, count) ==
  /\ stage \in {"live", "null"} /\ at[t] = "idle" /\ made < MaxRequests /\ made' = made + 1
  /\ IF stage = "null" THEN stage' = "panic" /\ UNCHANGED <<at, req>>
     ELSE /\ UNCHANGED stage
          /\ IF sector >= Capacity THEN UNCHANGED <<at, req>>
             ELSE /\ Goto(t, "wait")
                  /\ req' = [req EXCEPT ![t] = [type |-> type, sector |-> sector,
                                                count |-> Least(count, Capacity - sector)]]
  /\ UNCHANGED <<status, owner, chain, served>> /\ UNCHANGED queueVars

(* unblock_request; with O_NONBLOCK the call returns -EAGAIN instead.      *)
Wait(t) ==
  /\ at[t] = "wait"
  /\ \/ numFree >= 3 /\ Goto(t, "lock") /\ UNCHANGED <<req, served>>
     \/ numFree < 3 /\ Goto(t, "idle") /\ Put(t)
  /\ UNCHANGED <<stage, status, owner, chain, made>> /\ UNCHANGED queueVars

(* mutex_lock and virtq_desc_chain_init, which does not fail here: the     *)
(* lock is kept until the descriptors are back.                            *)
Lock(t) ==
  /\ at[t] = "lock" /\ owner = NoTask /\ numFree >= 3
  /\ Goto(t, "push") /\ owner' = t /\ chain' = [chain EXCEPT ![t] = NoChain]
  /\ UNCHANGED <<stage, status, req, served, made>> /\ UNCHANGED queueVars

Parts == <<"header", "data", "footer">>
Writable(t, part) == part = "footer" \/ (part = "data" /\ req[t].type = "in")

(* virtq_desc_chain_push_buf                                               *)
push_buf(t) ==
  /\ at[t] = "push" /\ numFree > 0
  /\ LET n == chain[t].pushed + 1
         head == freeHead
         filled == [desc EXCEPT ![head] = [@ EXCEPT !.buf = <<t, Parts[n]>>, !.more = FALSE,
                                                    !.write = Writable(t, Parts[n])]]
     IN /\ desc' = IF n = 1 THEN filled
                   ELSE [filled EXCEPT ![chain[t].tail] = [@ EXCEPT !.next = head, !.more = TRUE]]
        /\ freeHead' = desc[head].next
        /\ chain' = [chain EXCEPT ![t] = [head |-> IF n = 1 THEN head ELSE @.head,
                                          tail |-> head, pushed |-> n]]
        /\ Goto(t, IF n = 3 THEN "ring" ELSE "push")
  /\ numFree' = numFree - 1
  /\ UNCHANGED <<stage, status, shadow, ring, availIdx, usedIdx, seen, owner, req, served, made>>

(* virtq_desc_chain_submit: the ring entry, then the index                 *)
Fill(t) ==
  /\ at[t] = "ring" /\ Goto(t, "publish")
  /\ ring' = [ring EXCEPT ![shadow % Size] = chain[t].head]
  /\ shadow' = (shadow + 1) % Modulus
  /\ UNCHANGED <<stage, status, desc, freeHead, numFree, availIdx, usedIdx, seen,
                 owner, req, chain, served, made>>
Publish(t) ==
  /\ at[t] = "publish" /\ Goto(t, "blocked")
  /\ availIdx' = shadow
  /\ UNCHANGED <<stage, status, desc, freeHead, numFree, shadow, ring, usedIdx, seen,
                 owner, req, chain, served, made>>

(* Mutant: it is enough that the device has not got behind.                *)
virtq_is_ready_always == usedIdx \in {shadow, (shadow + Modulus - 1) % Modulus}

virtq_is_ready == usedIdx = shadow

(* The descriptors go back to the free list, and the lock is given up.     *)
Reclaim(t) ==
  /\ at[t] = "blocked" /\ virtq_is_ready /\ Goto(t, "done")
  /\ desc' = [desc EXCEPT ![chain[t].tail].next = freeHead]
  /\ freeHead' = chain[t].head /\ numFree' = numFree + chain[t].pushed
  /\ chain' = [chain EXCEPT ![t] = NoChain] /\ owner' = NoTask
  /\ UNCHANGED <<stage, status, shadow, ring, availIdx, usedIdx, seen, req, served, made>>

(* The status in the footer becomes the result; the stack frame is gone.   *)
Answer(t) ==
  /\ at[t] = "done" /\ Goto(t, "idle") /\ Put(t)
  /\ UNCHANGED <<stage, status, owner, chain, made>> /\ UNCHANGED queueVars

-----------------------------------------------------------------------------
(* The device (external): it follows the chain at the next available entry *)
(* and writes the answer into the footer at its end.                       *)
Links(i) == LET link[n \in 1..Size] == IF n = 1 THEN i ELSE desc[link[n - 1]].next IN link
ChainAt(i) ==
  LET links == Links(i)
      ends == {n \in 1..Size : n = Size \/ ~desc[links[n]].more}
      end == CHOOSE n \in ends : \A m \in ends : n <= m
  IN [n \in 1..end |-> desc[links[n]]]
Serve ==
  /\ seen # availIdx
  /\ LET c == ChainAt(ring[seen % Size])
         to == c[Len(c)].buf[1]
     IN served' = [served EXCEPT ![to] = @ + 1]
  /\ seen' = (seen + 1) % Modulus /\ usedIdx' = (usedIdx + 1) % Modulus
  /\ UNCHANGED <<stage, status, desc, freeHead, numFree, shadow, ring, availIdx,
                 owner, at, req, chain, made>>

Step(t) == Wait(t) \/ Lock(t) \/ push_buf(t) \/ Fill(t) \/ Publish(t) \/ Reclaim(t) \/ Answer(t)
Next == \/ Create \/ Serve
        \/ \E t \in Tasks : \/ Step(t)
                            \/ \E type \in {"in", "out"}, s \in 0..Capacity, n \in {1, 2} : do_io(t, type, s, n)

Spec == Init /\ [][Next]_virtioVars

-----------------------------------------------------------------------------
(* The first n descriptors of a list                                       *)
Walk(i, n) == {Links(i)[k] : k \in 1..n}

(* Each request reaches the device as one whole chain of its own buffers,  *)
(* in the direction it asked for and within the disk; a task goes on only  *)
(* once the device has answered it, and answered once: nothing on the ring *)
(* points to a stack that was left.  The free list holds the descriptors   *)
(* that are in no chain, all of them and no others, and only a device that *)
(* took the features and was not given up on is used.                      *)
DiskRequestsExact ==
  /\ seen # availIdx =>
       LET c == ChainAt(ring[seen % Size]) IN
       \E t \in Tasks :
         /\ at[t] = "blocked" /\ [i \in DOMAIN c |-> c[i].buf] = [i \in 1..3 |-> <<t, Parts[i]>>]
         /\ \A i \in 1..3 : c[i].write = Writable(t, Parts[i])
         /\ req[t].sector + req[t].count <= Capacity
  /\ \A t \in Tasks : at[t] = "done" => served[t] = 1
  /\ LET free == Walk(freeHead, numFree) IN
       IF owner = NoTask THEN free = Descs
       ELSE free = Descs \ Walk(chain[owner].head, chain[owner].pushed)
  /\ stage = "live" => {"FEATURES_OK", "DRIVER_OK"} \subseteq status /\ "FAILED" \notin status
=============================================================================
