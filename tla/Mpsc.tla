-------------------------------- MODULE Mpsc --------------------------------
(***************************************************************************)
(* The lock-free queue of kernel/containers/mpsc.h, one step per atomic    *)
(* access.  A producer reserves room in "size", then a slot through        *)
(* "head", then stores; a consumer empties the slot at "tail", advances    *)
(* "tail" in one or two accesses, and only then gives the room back.       *)
(*                                                                         *)
(* Values are the tickets 1, 2, ... in the order in which they reserve     *)
(* their slots, so that order and loss can be told from the value alone.   *)
(***************************************************************************)
EXTENDS Naturals, Sequences

CONSTANTS
  Producers,
  Consumers,
  Capacity,     \* mpsc->capacity: num_cpus in every queue of the kernel
  Modulus,      \* 2^w, w the width of head, a size_t
  MaxTickets    \* bound: elements enqueued in a behaviour

VARIABLES
  size, head, tail,
  slots,        \* 0 is an empty slot
  ppc, mine,    \* a producer's step, and the slot and ticket it has reserved
  cpc, got,     \* a consumer's step, and the element it has taken
  issued,       \* history: tickets reserved so far
  delivered     \* history: tickets taken, in order

vars == <<size, head, tail, slots, ppc, mine, cpc, got, issued, delivered>>

Slots == 0..(Capacity - 1)

TypeOK ==
  /\ size \in Nat
  /\ head \in 0..(Modulus - 1)
  /\ tail \in 0..Capacity
  /\ slots \in [Slots -> 0..MaxTickets]
  /\ ppc \in [Producers -> {"idle", "reserved", "store", "full"}]
  /\ mine \in [Producers -> [slot : Slots, ticket : 0..MaxTickets]]
  /\ cpc \in [Consumers -> {"idle", "advance", "wrap", "release"}]
  /\ got \in [Consumers -> 0..MaxTickets]
  /\ issued \in 0..MaxTickets

(* mpsc_create.                                                            *)
Init ==
  /\ size = 0 /\ head = 0 /\ tail = 0
  /\ slots = [i \in Slots |-> 0]
  /\ ppc = [p \in Producers |-> "idle"]
  /\ mine = [p \in Producers |-> [slot |-> 0, ticket |-> 0]]
  /\ cpc = [c \in Consumers |-> "idle"]
  /\ got = [c \in Consumers |-> 0]
  /\ issued = 0
  /\ delivered = <<>>

GotoP(p, l) == ppc' = [ppc EXCEPT ![p] = l]
GotoC(c, l) == cpc' = [cpc EXCEPT ![c] = l]

-----------------------------------------------------------------------------
(* mpsc_enqueue: the fetch-and-add on size.                                *)
Enqueue(p) ==
  /\ ppc[p] = "idle"
  /\ size' = size + 1
  /\ GotoP(p, IF size >= Capacity THEN "full" ELSE "reserved")
  /\ UNCHANGED <<head, tail, slots, mine, cpc, got, issued, delivered>>

(* It returns false.                                                       *)
EnqueueFull(p) ==
  /\ ppc[p] = "full"
  /\ size' = size - 1
  /\ GotoP(p, "idle")
  /\ UNCHANGED <<head, tail, slots, mine, cpc, got, issued, delivered>>

(* The fetch-and-add on head, which wraps around at its width.             *)
EnqueueSlot(p) ==
  /\ ppc[p] = "reserved"
  /\ issued < MaxTickets
  /\ head' = (head + 1) % Modulus
  /\ issued' = issued + 1
  /\ mine' = [mine EXCEPT ![p] = [slot |-> head % Capacity, ticket |-> issued + 1]]
  /\ GotoP(p, "store")
  /\ UNCHANGED <<size, tail, slots, cpc, got, delivered>>

EnqueueStore(p) ==
  /\ ppc[p] = "store"
  /\ slots[mine[p].slot] = 0                  \* ASSERTed: see SlotIsFree
  /\ slots' = [slots EXCEPT ![mine[p].slot] = mine[p].ticket]
  /\ GotoP(p, "idle")
  /\ UNCHANGED <<size, head, tail, mine, cpc, got, issued, delivered>>

(* mpsc_dequeue: the exchange on the slot at tail.  An empty slot returns  *)
(* NULL: nothing changes.                                                  *)
Dequeue(c) ==
  /\ cpc[c] = "idle"
  /\ tail < Capacity                          \* false only for a second consumer
  /\ slots[tail] # 0
  /\ got' = [got EXCEPT ![c] = slots[tail]]
  /\ slots' = [slots EXCEPT ![tail] = 0]
  /\ delivered' = Append(delivered, slots[tail])
  /\ GotoC(c, "advance")
  /\ UNCHANGED <<size, head, tail, ppc, mine, issued>>

(* Mutant: tail is left where it is.                                       *)
DequeueWithoutAdvance(c) ==
  /\ cpc[c] = "advance"
  /\ GotoC(c, "release")
  /\ UNCHANGED <<size, head, tail, slots, ppc, mine, got, issued, delivered>>

(* The increment of tail, and the comparison of its result.                *)
DequeueAdvance(c) ==
  /\ cpc[c] = "advance"
  /\ tail' = tail + 1
  /\ GotoC(c, IF tail + 1 >= Capacity THEN "wrap" ELSE "release")
  /\ UNCHANGED <<size, head, slots, ppc, mine, got, issued, delivered>>

DequeueWrap(c) ==
  /\ cpc[c] = "wrap"
  /\ tail' = 0
  /\ GotoC(c, "release")
  /\ UNCHANGED <<size, head, slots, ppc, mine, got, issued, delivered>>

DequeueRelease(c) ==
  /\ cpc[c] = "release"
  /\ size > 0                                 \* ASSERTed
  /\ size' = size - 1
  /\ got' = [got EXCEPT ![c] = 0]
  /\ GotoC(c, "idle")
  /\ UNCHANGED <<head, tail, slots, ppc, mine, issued, delivered>>

ProducerStep(p) == Enqueue(p) \/ EnqueueFull(p) \/ EnqueueSlot(p) \/ EnqueueStore(p)
ConsumerStep(c) == Dequeue(c) \/ DequeueAdvance(c) \/ DequeueWrap(c) \/ DequeueRelease(c)

Next ==
  \/ \E p \in Producers : ProducerStep(p)
  \/ \E c \in Consumers : ConsumerStep(c)

Spec == Init /\ [][Next]_vars

(* A CPU with interrupts off finishes what it has begun, and polls its     *)
(* queue for ever (cpu_process_messages from interrupts and cpu_pause).    *)
Fairness ==
  /\ \A p \in Producers : WF_vars(EnqueueSlot(p)) /\ WF_vars(EnqueueStore(p))
  /\ \A c \in Consumers : WF_vars(ConsumerStep(c))
FairSpec == Spec /\ Fairness

-----------------------------------------------------------------------------
(* The assertion of mpsc_enqueue: the slot a producer has reserved has     *)
(* been emptied, though consumer and producers never agree on anything but *)
(* the size.                                                               *)
SlotIsFree == \A p \in Producers : ppc[p] = "store" => slots[mine[p].slot] = 0

(* Elements are delivered in the order in which they reserved their slots, *)
(* each once, also when a later producer stores before an earlier one.     *)
InOrder == delivered = [i \in 1..Len(delivered) |-> i]

(* Both promises of the queue, together.                                   *)
QueueExact == SlotIsFree /\ InOrder

(* Nothing stays in the queue: what has been issued is delivered.          *)
Delivered == \A n \in 1..MaxTickets : issued >= n ~> Len(delivered) >= n
=============================================================================
