------------------------------ MODULE Signals -------------------------------
(***************************************************************************)
(* Signals: sending, blocking and waiting for them (kernel/task.c,         *)
(* syscall/signal.c), their delivery at the end of a system call           *)
(* (syscall/syscall.c) or of a timer interrupt (sched.c), handlers on the  *)
(* user's stack, and the C library's calls (userland/lib/signal.c).        *)
(*                                                                         *)
(* The tasks are threads of one process and share the actions.  `call' is  *)
(* the system call a task is in; `frames' are the contexts on its stack,   *)
(* the innermost last.  A signal is its number: the lowest is delivered    *)
(* first.                                                                  *)
(***************************************************************************)
EXTENDS Naturals, Sequences, FiniteSets, SequencesExt, FiniteSetsExt

CONSTANTS Tasks,
          Term, Ign, Cont, Stop,   \* the signals, by default disposition
          Unblockable,             \* SIGKILL and SIGSTOP
          Actions,                 \* what a program may ask of sigaction
          Masks, SuspendMasks,     \* what it may give sigprocmask and sigsuspend
          MaxSent, MaxCalls        \* bounds: signals sent, calls made

VARIABLES pending, blocked, call, frames, alive, action, wanted, sent, calls

sigVars == <<pending, blocked, call, frames, alive, action, wanted, sent, calls>>

Signals == Term \cup Ign \cup Cont \cup Stop
SIG_DFL == [handler |-> "default", mask |-> {}, flags |-> {}]

InUser == [kind |-> "none", saved |-> {}, ret |-> "none"]

Init == /\ pending = [t \in Tasks |-> {}] /\ blocked = [t \in Tasks |-> {}]
        /\ call = [t \in Tasks |-> InUser] /\ frames = [t \in Tasks |-> <<>>]
        /\ alive = TRUE
        /\ action = [s \in Signals |-> SIG_DFL]
        /\ wanted = [t \in Tasks |-> {}]
        /\ sent = 0 /\ calls = 0

User(t) == alive /\ call[t].kind = "none"
Calls(t, kind) == /\ User(t) /\ frames[t] = <<>> /\ calls < MaxCalls /\ calls' = calls + 1
                  /\ call' = [call EXCEPT ![t] = [InUser EXCEPT !.kind = kind]]
Returning(t, ret) == call' = [call EXCEPT ![t] = [kind |-> "return", saved |-> {}, ret |-> ret]]

-----------------------------------------------------------------------------
(* do_send_signal: an opposite signal that is pending is taken back, and   *)
(* an ignored one is not made pending.                                     *)
Cleared(s) == {s} \cup (IF s \in Cont THEN Stop ELSE IF s \in Stop THEN Cont ELSE {})
Ignored(s) == \/ action[s].handler = "ignore"
              \/ action[s].handler = "default" /\ s \in Ign
do_send_signal(p, s) == (p \ Cleared(s)) \cup (IF Ignored(s) THEN {} ELSE {s})

(* task_send_signal: to one thread, or to the group                        *)
task_send_signal(targets, s) ==
  /\ alive /\ sent < MaxSent /\ sent' = sent + 1
  /\ pending' = [t \in Tasks |-> IF t \in targets THEN do_send_signal(pending[t], s) ELSE pending[t]]
  /\ UNCHANGED <<blocked, call, frames, alive, action, wanted, calls>>

(* The C library always adds SA_RESTORER.                                  *)
sigaction(t, s, a) ==
  /\ User(t) /\ frames[t] = <<>> /\ s \notin Unblockable /\ calls < MaxCalls
  /\ action' = [action EXCEPT ![s] = a]
  /\ Returning(t, "ok") /\ calls' = calls + 1
  /\ UNCHANGED <<pending, blocked, frames, alive, wanted, sent>>

(* SIG_BLOCK, SIG_UNBLOCK and SIG_SETMASK                                  *)
NewMask(how, old, set) ==
  CASE how = "block" -> old \cup (set \ Unblockable)
    [] how = "unblock" -> old \ (set \ Unblockable)
    [] how = "set" -> set \ Unblockable
sigprocmask(t, how, set) ==
  /\ User(t) /\ frames[t] = <<>> /\ calls < MaxCalls
  /\ blocked' = [blocked EXCEPT ![t] = NewMask(how, @, set)]
  /\ wanted' = [wanted EXCEPT ![t] = NewMask(how, @, set)]
  /\ Returning(t, "ok") /\ calls' = calls + 1
  /\ UNCHANGED <<pending, frames, alive, action, sent>>

(* A call that may block and is restarted, and sys_pause                   *)
Blocks(t, kind) == Calls(t, kind) /\ UNCHANGED <<pending, blocked, frames, alive, action, wanted, sent>>

(* sys_sigsuspend takes the mask as it is, and puts the old one back       *)
(* before the signal that woke it is looked for.                           *)
sigsuspend(t, mask) ==
  /\ User(t) /\ frames[t] = <<>> /\ calls < MaxCalls /\ calls' = calls + 1
  /\ call' = [call EXCEPT ![t] = [kind |-> "suspend", saved |-> blocked[t], ret |-> "none"]]
  /\ blocked' = [blocked EXCEPT ![t] = mask]
  /\ UNCHANGED <<pending, frames, alive, action, wanted, sent>>

Deliverable(t) == pending[t] \ blocked[t]

(* unblock_tasks finds a signal, or what a read waits for.                 *)
Wake(t) ==
  /\ alive /\ call[t].kind \in {"read", "pause", "suspend"}
  /\ \/ /\ Deliverable(t) # {}
        /\ Returning(t, IF call[t].kind = "read" THEN "restart" ELSE "interrupted")
     \/ call[t].kind = "read" /\ Returning(t, "ok")
  /\ blocked' = [blocked EXCEPT ![t] = IF call[t].kind = "suspend" THEN call[t].saved ELSE @]
  /\ UNCHANGED <<pending, frames, alive, action, wanted, sent, calls>>

-----------------------------------------------------------------------------
(* task_pop_signal: the lowest deliverable signals are dropped while they  *)
(* are ignored; 0 is none.                                                 *)
Acts(t) == {s \in Deliverable(t) : ~Ignored(s) /\ ~(action[s].handler = "default" /\ s \in Cont)}
Popped(t) == IF Acts(t) = {} THEN 0 ELSE Min(Acts(t))
Dropped(t) == {s \in Deliverable(t) : Popped(t) = 0 \/ s <= Popped(t)}

(* Mutant: the mask saved on the stack is that of the handler.             *)
FrameOfHandler(t, s) ==
  [mask |-> (blocked[t] \cup action[s].mask \cup {s}) \ Unblockable, sig |-> s,
   nodefer |-> "NODEFER" \in action[s].flags]

(* The context under a handler; nodefer is history.                        *)
Frame(t, s) ==
  [mask |-> blocked[t], sig |-> s, nodefer |-> "NODEFER" \in action[s].flags]

(* task_handle_signal: the mask while the handler runs                     *)
HandlerMask(t, s) ==
  (blocked[t] \cup action[s].mask \cup (IF "NODEFER" \in action[s].flags THEN {} ELSE {s}))
     \ Unblockable

(* A handler is entered, or the process ends.  (The default action of a    *)
(* stop signal, UNIMPLEMENTED in the code, is taken for an end.)           *)
Deliver(t) ==
  /\ LET s == Popped(t) IN
       IF s # 0 /\ action[s].handler = "default"
       THEN alive' = FALSE /\ UNCHANGED <<pending, blocked, frames, action>>
       ELSE /\ pending' = [pending EXCEPT ![t] = @ \ Dropped(t)]
            /\ frames' = [frames EXCEPT ![t] = IF s = 0 THEN @ ELSE Append(@, Frame(t, s))]
            /\ blocked' = [blocked EXCEPT ![t] = IF s = 0 THEN @ ELSE HandlerMask(t, s)]
            /\ action' = IF s # 0 /\ "RESETHAND" \in action[s].flags
                         THEN [action EXCEPT ![s].handler = "default"] ELSE action
            /\ UNCHANGED alive
  /\ UNCHANGED <<wanted, sent, calls>>

(* syscall_handler: an interrupted call is made again after the handler of *)
(* an SA_RESTART signal; in every other case it returns EINTR.             *)
Return(t) ==
  /\ alive /\ call[t].kind = "return"
  /\ LET s == Popped(t)
         again == \/ call[t].ret = "again"
                  \/ call[t].ret = "restart" /\ s # 0 /\ "RESTART" \in action[s].flags
     IN call' = [call EXCEPT ![t] = [InUser EXCEPT !.kind = IF again THEN "again" ELSE "none"]]
  /\ Deliver(t)

(* The timer interrupts user code.                                         *)
Tick(t) == /\ alive /\ call[t].kind \in {"none", "again"} /\ Deliverable(t) # {}
           /\ Deliver(t) /\ UNCHANGED call

(* The handler ends: sys_sigreturn puts back the mask under it.            *)
sigreturn(t) ==
  /\ alive /\ call[t].kind \in {"none", "again"} /\ frames[t] # <<>>
  /\ blocked' = [blocked EXCEPT ![t] = frames[t][Len(frames[t])].mask]
  /\ frames' = [frames EXCEPT ![t] = Front(@)]
  /\ Returning(t, IF call[t].kind = "again" THEN "again" ELSE "ok")
  /\ UNCHANGED <<pending, alive, action, wanted, sent, calls>>

(* After the handlers the interrupted call is made again.                  *)
Again(t) == /\ alive /\ call[t].kind = "again" /\ frames[t] = <<>>
            /\ call' = [call EXCEPT ![t] = [InUser EXCEPT !.kind = "read"]]
            /\ UNCHANGED <<pending, blocked, frames, alive, action, wanted, sent, calls>>

Step(t) == Wake(t) \/ Return(t) \/ Tick(t) \/ sigreturn(t) \/ Again(t)
Request(t) == \/ \E s \in Signals, a \in Actions : sigaction(t, s, a)
              \/ \E how \in {"block", "unblock", "set"}, m \in Masks : sigprocmask(t, how, m)
              \/ \E m \in SuspendMasks : sigsuspend(t, m)
              \/ \E kind \in {"read", "pause"} : Blocks(t, kind)
Next == \/ \E s \in Signals : task_send_signal(Tasks, s) \/ \E t \in Tasks : task_send_signal({t}, s)
        \/ \E t \in Tasks : Step(t) \/ Request(t)

(* Each task's own steps, when it can take one                             *)
Fairness == \A t \in Tasks : WF_sigVars(Step(t))

Spec == Init /\ [][Next]_sigVars /\ Fairness

-----------------------------------------------------------------------------
(* Handlers nest like calls: none runs inside itself unless its action     *)
(* says SA_NODEFER, and when the outermost has returned the task blocks    *)
(* exactly the signals it asked sigprocmask to block, also after           *)
(* sigsuspend and a restarted call.                                        *)
HandlersNest ==
  \A t \in Tasks :
    /\ \A i, j \in DOMAIN frames[t] :
         i < j /\ frames[t][i].sig = frames[t][j].sig => frames[t][i].nodefer
    /\ alive /\ frames[t] = <<>> /\ call[t].kind # "suspend" => blocked[t] = wanted[t]
    /\ alive /\ frames[t] # <<>> => frames[t][1].mask = wanted[t]
    /\ blocked[t] \cap Unblockable = {} \/ call[t].kind = "suspend"

(* A signal that is pending and not blocked is acted upon: the process     *)
(* ends, or the signal is taken off, or it becomes blocked; whether the    *)
(* task computes, sleeps in a call or is inside another handler.           *)
SignalActs ==
  \A t \in Tasks, s \in Signals :
    (alive /\ s \in Deliverable(t)) ~> (~alive \/ s \notin Deliverable(t))
=============================================================================
