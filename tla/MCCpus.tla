------------------------------- MODULE MCCpus -------------------------------
(***************************************************************************)
(* CPUs waiting for each other: a behaviour is about the messages of Ipi,  *)
(* or about the inside of one of the queues they are passed through.       *)
(***************************************************************************)
EXTENDS Ipi

CONSTANTS Producers, Consumers, Capacity, Modulus, MaxTickets

VARIABLES which, size, head, tail, slots, ppc, slotOf, cpc, got, issued, delivered

Queue == INSTANCE Mpsc WITH mine <- slotOf

queueVars ==
  <<size, head, tail, slots, ppc, slotOf, cpc, got, issued, delivered>>

MCInit == which \in {"ipi", "mpsc"} /\ Init /\ Queue!Init

MCNext ==
  \/ which = "ipi" /\ Next /\ UNCHANGED which /\ UNCHANGED queueVars
  \/ which = "mpsc" /\ Queue!Next /\ UNCHANGED which /\ UNCHANGED vars

MCSpec ==
  /\ MCInit /\ [][MCNext]_<<which, vars, queueVars>>
  /\ which = "ipi" => Fairness
  /\ which = "mpsc" => Queue!Fairness

(* CPUs do not wait for each other for ever: flush_tlb_range returns, halt *)
(* stops all of them, and what has been enqueued is delivered.             *)
CpusFinish == FlushReturns /\ AllHalt /\ Queue!Delivered
=============================================================================
