-------------------------------- MODULE Poll --------------------------------
(***************************************************************************)
(* Waiting for files and for time: poll, select and the clocks             *)
(* (kernel/syscall/select.c, kernel/syscall/time.c, kernel/time.c).  One   *)
(* task calls; files become ready and cease to be, the timer ticks, the    *)
(* wall clock is set and signals come between any two of its steps.        *)
(***************************************************************************)
EXTENDS Integers, Sequences, FiniteSets, FiniteSetsExt

CONSTANTS Fds, Closed,        \* descriptors; those that are not open
          Readiness,          \* what may be ready about a file
          PollSets, SelectSets, Timeouts, Settings,   \* arguments to try
          NANOS, CLK_TCK,
          MaxUptime, MaxCalls \* bounds: ticks, and calls made

VARIABLES uptime, now,        \* kernel/time.c
          ready,              \* what file_poll would find
          call,               \* the call in progress
          calls

pollVars == <<uptime, now, ready, call, calls>>

-----------------------------------------------------------------------------
(* struct timespec                                                         *)
T(sec, nsec) == [sec |-> sec, nsec |-> nsec]
Carry(t) == IF t.nsec >= NANOS THEN T(t.sec + 1, t.nsec - NANOS) ELSE t
timespec_add(a, b) == Carry(T(a.sec + b.sec, a.nsec + b.nsec))
Borrow(t) == IF t.nsec < 0 THEN T(t.sec - 1, t.nsec + NANOS) ELSE t
timespec_saturating_sub(a, b) ==
  LET d == Borrow(T(a.sec - b.sec, a.nsec - b.nsec)) IN IF d.sec < 0 THEN T(0, 0) ELSE d
AtLeast(a, b) == a.sec > b.sec \/ (a.sec = b.sec /\ a.nsec >= b.nsec)    \* timespec_compare >= 0

time_now(clock) ==
  IF clock = "REALTIME" THEN now
  ELSE LET sec == uptime \div CLK_TCK
       IN T(sec, ((uptime - sec * CLK_TCK) * NANOS) \div CLK_TCK)

Never == T(-1, 0)             \* no time limit
Nobody == [kind |-> "none"]
Init == /\ uptime = 0 /\ now = T(0, 0) /\ ready = [f \in Fds |-> {}] /\ call = Nobody /\ calls = 0

-----------------------------------------------------------------------------
time_tick == /\ uptime < MaxUptime /\ uptime' = uptime + 1
             /\ now' = Carry(T(now.sec, now.nsec + NANOS \div CLK_TCK))
             /\ UNCHANGED <<ready, call, calls>>
time_set == /\ call.kind = "sleep" /\ now' \in Settings     \* only a sleep looks at this clock
            /\ UNCHANGED <<uptime, ready, call, calls>>
Waiting == call.kind # "none" /\ call.phase \in {"check", "blocked"}
Change == /\ call.kind \in {"poll", "select"} /\ Waiting     \* nobody else looks at the files
          /\ \E f \in Fds \ Closed, r \in Readiness : ready' = [ready EXCEPT ![f] = r]
          /\ UNCHANGED <<uptime, now, call, calls>>

(* What every call keeps.  `began', `saw' and `limit' are history: when it *)
(* began, what was ready when it was last looked at, the time it asked for.*)
Call(kind, entries, asked, clock, timed, deadline, limit) ==
  [kind |-> kind, phase |-> "check", entries |-> entries, asked |-> asked, clock |-> clock,
   absolute |-> FALSE, timed |-> timed, deadline |-> deadline, limit |-> limit, began |-> uptime,
   saw |-> [f \in Fds |-> {}], remain |-> limit, ret |-> 0, answer |-> asked]
Calls == call = Nobody /\ calls < MaxCalls /\ calls' = calls + 1 /\ UNCHANGED <<uptime, now, ready>>

(* poll: a descriptor that is not open counts as an event, a negative one  *)
(* as nothing.                                                             *)
Entry(fd, events) == [fd |-> fd, events |-> events, revents |-> IF fd \in Closed THEN {"NVAL"} ELSE {}]
Opened(e) == e.fd >= 0 /\ e.fd \notin Closed
NumEvents(entries) == Cardinality({i \in DOMAIN entries : entries[i].revents # {}})
Deadline(timeout) == timespec_add(time_now("MONOTONIC"), timeout)
InTime(timeout) == timeout = Never \/ AtLeast(T(MaxUptime \div CLK_TCK, 0), Deadline(timeout))
Started(kind, entries, asked, timeout) ==
  IF timeout = Never THEN Call(kind, entries, asked, "MONOTONIC", FALSE, T(0, 0), T(0, 0))
  ELSE Call(kind, entries, asked, "MONOTONIC", TRUE, Deadline(timeout), timeout)

Nothing == [read |-> {}, write |-> {}, except |-> {}]
sys_poll(fds, timeout) ==
  /\ Calls /\ InTime(timeout)
  /\ call' = Started("poll", [i \in DOMAIN fds |-> Entry(fds[i][1], fds[i][2] \cup {"ERR", "HUP"})],
                     Nothing, timeout)

READ_SET == {"IN", "ERR", "HUP", "NVAL"}
WRITE_SET == {"OUT", "ERR", "NVAL"}
EXCEPT_SET == {"PRI", "NVAL"}
SelectEvents(sets, fd) == (IF fd \in sets.read THEN READ_SET ELSE {}) \cup
                          (IF fd \in sets.write THEN WRITE_SET ELSE {}) \cup
                          (IF fd \in sets.except THEN EXCEPT_SET ELSE {})
ENOMEM == -12
EINTR == -4
EBADF == -9
Done(c, ret) == [c EXCEPT !.phase = "done", !.ret = ret]

(* The entries of the array, by descriptor.  With none in the sets kmalloc *)
(* is asked for nothing, and gives nothing, unless nfds is zero.           *)
sys_select(sets, timeout) ==
  /\ Calls /\ InTime(timeout)
  /\ LET fds == sets.read \cup sets.write \cup sets.except
         c == Started("select", [fd \in fds |-> Entry(fd, SelectEvents(sets, fd))], sets, timeout)
     IN call' \in (IF fds = {} THEN {Done(c, ENOMEM), c} ELSE {c})

clock_nanosleep(clock, absolute, request) ==
  /\ Calls /\ InTime(request)
  /\ call' = [Call("sleep", <<>>, Nothing, clock, TRUE,
                   IF absolute THEN request ELSE timespec_add(time_now(clock), request), request)
                EXCEPT !.absolute = absolute]

-----------------------------------------------------------------------------
Polled(entries) ==
  [i \in DOMAIN entries |->
     IF Opened(entries[i]) THEN [entries[i] EXCEPT !.revents = ready[entries[i].fd] \cap entries[i].events]
     ELSE entries[i]]

Expired(c) == c.timed /\ AtLeast(time_now(c.clock), c.deadline)

(* Mutant: the time is looked at first.                                    *)
UnblockedTimeFirst(c) ==
  LET polled == IF Expired(c) THEN c.entries ELSE Polled(c.entries)
  IN [c EXCEPT !.entries = polled, !.saw = ready,
               !.phase = IF NumEvents(polled) > 0 \/ Expired(c) THEN "woken" ELSE "blocked"]

(* unblock_poll, unblock_sleep: the files are looked at before the time.   *)
Unblocked(c) ==
  LET polled == Polled(c.entries)
  IN [c EXCEPT !.entries = polled, !.saw = ready,
               !.phase = IF NumEvents(polled) > 0 \/ Expired(c) THEN "woken" ELSE "blocked"]

Others == UNCHANGED <<uptime, now, ready, calls>>
unblock == Waiting /\ call' = Unblocked(call) /\ Others

(* FD_CLR of what did not happen; NVAL fails the whole select.             *)
Kept(c, set, events) == {f \in set : \E i \in DOMAIN c.entries :
                           c.entries[i].fd = f /\ c.entries[i].revents \cap events # {}}
Answer(c) == [read |-> Kept(c, c.asked.read, READ_SET), write |-> Kept(c, c.asked.write, WRITE_SET),
              except |-> Kept(c, c.asked.except, EXCEPT_SET)]
Bits(sets) == Cardinality(sets.read) + Cardinality(sets.write) + Cardinality(sets.except)
Bad(c) == \E i \in DOMAIN c.entries : "NVAL" \in c.entries[i].revents

Interrupt == /\ call.kind # "none" /\ call.phase = "blocked"
             /\ call' = Done(call, EINTR) /\ Others

(* The time that remains is computed when the task runs again.             *)
Finish ==
  /\ call.kind # "none" /\ call.phase = "woken"
  /\ LET c == [call EXCEPT !.remain = IF call.timed
                 THEN timespec_saturating_sub(call.deadline, time_now(call.clock)) ELSE @]
     IN call' = CASE c.kind = "poll" -> Done(c, NumEvents(c.entries))
                  [] c.kind = "sleep" -> Done(c, 0)
                  [] c.kind = "select" /\ Bad(c) -> Done(c, EBADF)
                  [] c.kind = "select" /\ ~Bad(c) -> Done([c EXCEPT !.answer = Answer(c)], Bits(Answer(c)))
  /\ Others
Return == call.kind # "none" /\ call.phase = "done" /\ call' = Nobody /\ Others

Next == \/ time_tick \/ time_set \/ Change \/ unblock \/ Interrupt \/ Finish \/ Return
        \/ \E t \in Timeouts : \/ \E p \in PollSets : sys_poll(p, t)
                               \/ \E s \in SelectSets : sys_select(s, t)
        \/ \E t \in Timeouts \ {Never}, clock \in {"MONOTONIC", "REALTIME"}, a \in BOOLEAN :
             clock_nanosleep(clock, a, t)

Spec == Init /\ [][Next]_pollVars

(* The scheduler looks at every blocked task, and the timer goes on.       *)
Fairness == WF_pollVars(time_tick) /\ WF_pollVars(unblock \/ Finish \/ Return)

-----------------------------------------------------------------------------
Total(t) == t.sec * NANOS + t.nsec
Elapsed(c) == (uptime - c.began) * (NANOS \div CLK_TCK)
Asked(c, fd) == UNION {c.entries[i].events : i \in {j \in DOMAIN c.entries : c.entries[j].fd = fd}}

(* Nobody returns too early or with the wrong answer: a call that found    *)
(* nothing has waited its time and there was nothing to find when it was   *)
(* woken; what it reports was there, is counted right and was asked for;   *)
(* the time that remains and the time that went by make up what was asked. *)
(* (A relative sleep on the wall clock follows the clock when it is set.)  *)
WaitsExact ==
  call.kind # "none" /\ call.phase = "woken" =>
    LET c == call
        missed == \E f \in Fds \ Closed : c.saw[f] \cap Asked(c, f) # {}
        found == {i \in DOMAIN c.entries : c.entries[i].revents # {}}
    IN /\ missed <=> (\E i \in found : c.entries[i].revents # {"NVAL"})
       /\ found = {} => c.timed /\ (c.clock = "MONOTONIC" /\ ~c.absolute => Elapsed(c) >= Total(c.limit))
       /\ \A i \in found : c.entries[i].revents \subseteq c.entries[i].events \cup {"NVAL"}
       /\ c.timed /\ c.clock = "MONOTONIC" /\ ~c.absolute =>
            Total(timespec_saturating_sub(c.deadline, time_now(c.clock)))
              = Max({0, Total(c.limit) - Elapsed(c)})
       /\ c.kind = "select" /\ ~Bad(c) =>
            /\ Answer(c).read = {f \in c.asked.read : c.saw[f] \cap READ_SET # {}}
            /\ Answer(c).write = {f \in c.asked.write : c.saw[f] \cap WRITE_SET # {}}
            /\ Answer(c).except = {f \in c.asked.except : c.saw[f] \cap EXCEPT_SET # {}}

SomethingReady == \E f \in Fds \ Closed : ready[f] \cap Asked(call, f) # {}

(* A call with a time limit on the monotonic clock returns, and one that   *)
(* waits for what stays there returns.                                     *)
WaitsReturn ==
  /\ (call.kind # "none" /\ call.timed /\ call.clock = "MONOTONIC") ~> (call.kind = "none")
  /\ (Waiting /\ SomethingReady) ~> (~Waiting \/ ~SomethingReady)
=============================================================================
