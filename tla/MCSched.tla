------------------------------- MODULE MCSched ------------------------------
(* Instances of the scheduler: one CPU (no SMP), and two.                  *)
EXTENDS Sched
=============================================================================
