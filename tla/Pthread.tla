------------------------------- MODULE Pthread ------------------------------
(***************************************************************************)
(* Threads of the C library (userland/lib/pthread.c): creation, detaching, *)
(* the end of a thread and waiting for it.  The life of a thread's memory, *)
(* which is its stack, its thread-local storage and its struct pthread, is *)
(* decided by two threads through the word pth->state.                     *)
(*                                                                         *)
(* The program detaches or joins a thread once, and not both unless the    *)
(* detach failed.                                                          *)
(***************************************************************************)
EXTENDS Naturals, FiniteSets

CONSTANTS Threads    \* the threads that the main thread creates

VARIABLES state,     \* pth->state, or "none" before pthread_create
          retval,    \* pth->retval
          at,        \* where the thread is
          memory,    \* its allocation: none, owned, freed, twice
          main       \* what the main thread does with the thread

pthreadVars == <<state, retval, at, memory, main>>

Init == /\ state = [t \in Threads |-> "none"] /\ retval = [t \in Threads |-> "none"]
        /\ at = [t \in Threads |-> "none"] /\ memory = [t \in Threads |-> "none"]
        /\ main = [t \in Threads |-> "create"]

Freed(t) == memory' = [memory EXCEPT ![t] = IF @ = "owned" THEN "freed" ELSE "twice"]
Main(t, from, to) == main[t] = from /\ main' = [main EXCEPT ![t] = to]

(* pthread_create: the memory is given back if the kernel cannot clone.    *)
pthread_create(t) ==
  \/ /\ main[t] = "create" /\ \E next \in {"detach", "join", "either"} : main' = [main EXCEPT ![t] = next]
     /\ \E s \in {"joinable", "detached"} :
          /\ state' = [state EXCEPT ![t] = s]
          /\ s = "detached" => main'[t] = "detach"
     /\ at' = [at EXCEPT ![t] = "running"] /\ memory' = [memory EXCEPT ![t] = "owned"]
     /\ UNCHANGED retval
  \/ Main(t, "create", "failed") /\ UNCHANGED <<state, retval, at, memory>>

pthread_detach(t) ==
  /\ main[t] \in {"detach", "either"}
  /\ IF state[t] = "joinable"
     THEN /\ state' = [state EXCEPT ![t] = "detached"]
          /\ main' = [main EXCEPT ![t] = "done"]
     ELSE main' = [main EXCEPT ![t] = IF @ = "either" THEN "join" ELSE "einval"] /\ UNCHANGED state
  /\ UNCHANGED <<retval, at, memory>>

(* Mutant: the state is exchanged before the value is stored.              *)
StoreValueLate(t) == UNCHANGED retval

StoreValue(t) == retval' = [retval EXCEPT ![t] = "value"]

(* pthread_exit: the value, then the state, then what the old state asks   *)
(* for.                                                                    *)
ExitStores(t) == /\ at[t] = "running" /\ at' = [at EXCEPT ![t] = "storing"]
                 /\ StoreValue(t) /\ UNCHANGED <<state, memory, main>>
ExitExchanges(t) ==
  /\ at[t] = "storing"
  /\ at' = [at EXCEPT ![t] = IF state[t] = "detached" THEN "freeing" ELSE "leaving"]
  /\ state' = [state EXCEPT ![t] = "exited"]
  /\ UNCHANGED <<retval, memory, main>>
ExitFrees(t) == /\ at[t] = "freeing" /\ at' = [at EXCEPT ![t] = "leaving"]
                /\ Freed(t) /\ UNCHANGED <<state, retval, main>>
ExitLeaves(t) == /\ at[t] = "leaving" /\ at' = [at EXCEPT ![t] = "gone"]
                 /\ UNCHANGED <<state, retval, memory, main>>

(* pthread_join: yields until the thread has exited.                       *)
JoinSees(t) == /\ main[t] \in {"join", "either"} /\ state[t] = "exited"
               /\ main' = [main EXCEPT ![t] = "joining"]
               /\ UNCHANGED <<state, retval, at, memory>>
JoinFrees(t) == /\ Main(t, "joining", IF retval[t] = "value" THEN "joined" ELSE "novalue")
                /\ Freed(t) /\ UNCHANGED <<state, retval, at>>

ThreadStep(t) == ExitStores(t) \/ ExitExchanges(t) \/ ExitFrees(t) \/ ExitLeaves(t)
Next == \E t \in Threads : \/ ThreadStep(t) \/ pthread_create(t) \/ pthread_detach(t)
                           \/ JoinSees(t) \/ JoinFrees(t)

Spec == Init /\ [][Next]_pthreadVars

-----------------------------------------------------------------------------
(* Whoever of a thread and its creator comes second gives back its memory, *)
(* and nobody else does; who joins a thread finds the value it left.       *)
(* (A detach that loses the race with the end of its thread fails, and the *)
(* memory then waits for a join.)                                          *)
HandedOver ==
  \A t \in Threads :
    /\ memory[t] # "twice" /\ main[t] # "novalue"
    /\ main[t] = "joined" => memory[t] = "freed"
    /\ main[t] = "done" /\ at[t] = "gone" => memory[t] = "freed"
=============================================================================
