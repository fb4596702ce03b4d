----------------------------- MODULE UnixSocket -----------------------------
(***************************************************************************)
(* Unix domain sockets (unix_socket.c, syscall/socket.c): clients connect  *)
(* to one listening socket, the processes of a server accept, and the two  *)
(* ends of a connection exchange bytes, shut down and close.  There is one *)
(* struct unix_socket for both ends, the client's; which end a file is     *)
(* tells connector_file.                                                   *)
(*                                                                         *)
(* What is done under the lock of a socket is one step; connect holds the  *)
(* locks of both.  The flags and the functions that end a sleep use none.  *)
(* Bytes are numbered, for each direction, in the order of the writes.     *)
(***************************************************************************)
EXTENDS Naturals, Sequences, FiniteSets, SequencesExt, RingBuf

CONSTANTS
  Clients,        \* each with a socket of its own
  Servers,        \* processes that accept
  Forked,         \* those of them that are born by fork
  NonBlocking,    \* files with O_NONBLOCK: of a client, "listener", "accepted"
  Nobody,
  Backlogs,       \* bound: what listen is called with
  MaxCount,       \* bound: bytes asked for in a call
  MaxCalls        \* bound: calls of each process to read and write

Procs == Clients \cup Servers
Directions == {"to_connector", "to_acceptor"}

VARIABLES
  backlog,       \* of the listener; 0: it does not listen yet
  numPending,    \* its num_pending
  pending,       \* its queue, linked through next
  state,         \* of the client's socket
  bufs,          \* its two ring buffers
  isOpen,        \* is_open_for_writing_to_*
  sock,          \* the socket a process has a file for, or Nobody
  op, at, count, \* the call a process is in, where in it, its argument
  calls,         \* calls made
  sent, got      \* history: bytes written in a direction, and which were read

listenVars == <<backlog, numPending, pending>>
dataVars == <<bufs, isOpen, sent, got>>
vars == <<listenVars, state, dataVars, sock, op, at, count, calls>>

TypeOK ==
  /\ backlog \in Backlogs \cup {0} /\ numPending \in Nat /\ pending \in Seq(Clients)
  /\ state \in [Clients -> {"opened", "pending", "connected"}]
  /\ isOpen \in [Clients -> [Directions -> BOOLEAN]]
  /\ sock \in [Procs -> Clients \cup {Nobody}]
  /\ op \in [Procs -> {"none", "connect", "accept", "read", "write"}]
  /\ at \in [Procs -> {"unborn", "idle", "closed", "test", "block", "sleep", "ready", "popped",
                       "accepted", "checked", "empty"}]
  /\ count \in [Procs -> 0..MaxCount]

(* unix_socket_create, in each client and in the server.                   *)
Init ==
  /\ backlog = 0 /\ numPending = 0 /\ pending = <<>>
  /\ state = [c \in Clients |-> "opened"]
  /\ bufs = [c \in Clients |-> [d \in Directions |-> Fresh]]
  /\ isOpen = [c \in Clients |-> [d \in Directions |-> TRUE]]
  /\ sock = [p \in Procs |-> IF p \in Clients THEN p ELSE Nobody]
  /\ op = [p \in Procs |-> "none"]
  /\ at = [p \in Procs |-> IF p \in Forked THEN "unborn" ELSE "idle"]
  /\ count = [p \in Procs |-> 0]
  /\ calls = [p \in Procs |-> 0]
  /\ sent = [c \in Clients |-> [d \in Directions |-> 0]]
  /\ got = [c \in Clients |-> [d \in Directions |-> <<>>]]

-----------------------------------------------------------------------------
Goto(p, place) == at' = [at EXCEPT ![p] = place]

(* The call of file_block: a file that is not to block is tested first.    *)
GotoBlock(p, file) == Goto(p, IF file \in NonBlocking THEN "test" ELSE "block")
FileOf(p) == IF p \in Clients THEN p ELSE "accepted"

Return(p) ==
  /\ op' = [op EXCEPT ![p] = "none"]
  /\ count' = [count EXCEPT ![p] = 0]
  /\ Goto(p, "idle")

(* is_connector, buf_to_read, buf_to_write, is_open_for_reading.           *)
Incoming(p) == IF p \in Clients THEN "to_connector" ELSE "to_acceptor"
Outgoing(p) == IF p \in Clients THEN "to_acceptor" ELSE "to_connector"
InBuf(p) == bufs[sock[p]][Incoming(p)]
OutBuf(p) == bufs[sock[p]][Outgoing(p)]
OpenForReading(p) == isOpen[sock[p]][Incoming(p)]
OpenForWriting(p) == isOpen[sock[p]][Outgoing(p)]
IsConnected(p) == sock[p] # Nobody /\ state[sock[p]] = "connected"

(* sys_bind and sys_listen.                                                *)
Listen(b) ==
  /\ backlog' = b
  /\ UNCHANGED <<numPending, pending, state, dataVars, sock, op, at, count, calls>>

(* Mutant: the state of the socket is not looked at.                       *)
ConnectAnyState(c) ==
  /\ op[c] = "none" /\ at[c] = "idle"
  /\ state[c] # "connected" /\ numPending < backlog
  /\ numPending' = numPending + 1
  /\ pending' = Append(pending, c)
  /\ state' = [state EXCEPT ![c] = "pending"]
  /\ op' = [op EXCEPT ![c] = "connect"] /\ GotoBlock(c, c)
  /\ UNCHANGED <<backlog, dataVars, sock, count, calls>>

(* unix_socket_connect, up to the wait.  A refused connect changes nothing.*)
Connect(c) ==
  /\ op[c] = "none" /\ at[c] = "idle"
  /\ state[c] = "opened" /\ numPending < backlog
  /\ numPending' = numPending + 1
  /\ pending' = Append(pending, c)
  /\ state' = [state EXCEPT ![c] = "pending"]
  /\ op' = [op EXCEPT ![c] = "connect"] /\ GotoBlock(c, c)
  /\ UNCHANGED <<backlog, dataVars, sock, count, calls>>

(* accept, by a process of the server that has no connection yet.          *)
CallAccept(s) ==
  /\ op[s] = "none" /\ at[s] = "idle"
  /\ s \in Servers /\ sock[s] = Nobody /\ backlog # 0
  /\ op' = [op EXCEPT ![s] = "accept"] /\ GotoBlock(s, "listener")
  /\ UNCHANGED <<listenVars, state, dataVars, sock, count, calls>>

CallData(p, what, n) ==
  /\ op[p] = "none" /\ at[p] = "idle" /\ calls[p] < MaxCalls
  /\ IsConnected(p)
  /\ calls' = [calls EXCEPT ![p] = @ + 1]
  /\ count' = [count EXCEPT ![p] = n]
  /\ op' = [op EXCEPT ![p] = what] /\ GotoBlock(p, FileOf(p))
  /\ UNCHANGED <<listenVars, state, dataVars, sock>>

-----------------------------------------------------------------------------
(* is_connectable, is_acceptable, is_readable, is_writable: the last is    *)
(* not the same for the two ends.                                          *)
Connectable(p) == op[p] = "connect" /\ IsConnected(p)
Acceptable(p) == op[p] = "accept" /\ numPending > 0
Readable(p) == op[p] = "read" /\ (~OpenForReading(p) \/ ~IsEmpty(InBuf(p)))
Writable(p) ==
  /\ op[p] = "write"
  /\ IF p \in Clients THEN OpenForWriting(p) /\ ~IsFull(OutBuf(p))
     ELSE ~OpenForWriting(p) \/ ~IsFull(OutBuf(p))
Ready(p) == Connectable(p) \/ Acceptable(p) \/ Readable(p) \/ Writable(p)

(* file_block and sched_block, as in Fifo.                                 *)
FileBlock(p) ==
  /\ at[p] = "test"
  /\ IF ~Ready(p) THEN Return(p)
     ELSE Goto(p, "block") /\ UNCHANGED <<op, count>>
  /\ UNCHANGED <<listenVars, state, dataVars, sock, calls>>

SchedBlock(p) ==
  /\ at[p] = "block"
  /\ Goto(p, IF Ready(p) THEN "ready" ELSE "sleep")
  /\ UNCHANGED <<listenVars, state, dataVars, sock, op, count, calls>>

Wake(p) ==
  /\ at[p] = "sleep" /\ Ready(p)
  /\ Goto(p, "ready")
  /\ UNCHANGED <<listenVars, state, dataVars, sock, op, count, calls>>

Interrupt(p) ==
  /\ at[p] = "sleep" /\ Return(p)
  /\ UNCHANGED <<listenVars, state, dataVars, sock, calls>>

Again(p, file) == GotoBlock(p, file) /\ UNCHANGED <<op, count>>

Connected(c) ==
  /\ at[c] = "ready" /\ op[c] = "connect" /\ Return(c)
  /\ UNCHANGED <<listenVars, state, dataVars, sock, calls>>

(* unix_socket_accept: the first of the queue, if it is still there,       *)
AcceptPop(s) ==
  /\ at[s] = "ready" /\ op[s] = "accept"
  /\ IF pending = <<>> THEN Again(s, "listener") /\ UNCHANGED <<listenVars, sock>>
     ELSE /\ sock' = [sock EXCEPT ![s] = Head(pending)]
          /\ pending' = Tail(pending) /\ numPending' = numPending - 1
          /\ Goto(s, "popped") /\ UNCHANGED <<backlog, op, count>>
  /\ UNCHANGED <<state, dataVars, calls>>

(* becomes connected, under its own lock,                                  *)
AcceptConnect(s) ==
  /\ at[s] = "popped"
  /\ state' = [state EXCEPT ![sock[s]] = "connected"]
  /\ Goto(s, "accepted")
  /\ UNCHANGED <<listenVars, dataVars, sock, op, count, calls>>

(* and sys_accept4 opens the server's file, unless memory is short, and    *)
(* gives it a descriptor, or closes it if there are no more.               *)
HangUp(c) == isOpen' = [isOpen EXCEPT ![c] = [d \in Directions |-> FALSE]]

AcceptOpen(s) ==
  /\ at[s] = "accepted" /\ Return(s)
  /\ \/ UNCHANGED <<sock, isOpen>>
     \/ sock' = [sock EXCEPT ![s] = Nobody] /\ (UNCHANGED isOpen \/ HangUp(sock[s]))
  /\ UNCHANGED <<listenVars, state, bufs, sent, got, calls>>

(* fork, in the server: s is born with t's file, if there is one.          *)
Fork(t, s) ==
  /\ op[t] = "none" /\ at[t] = "idle" /\ at[s] = "unborn"
  /\ sock' = [sock EXCEPT ![s] = sock[t]] /\ Goto(s, "idle")
  /\ UNCHANGED <<listenVars, state, dataVars, op, count, calls>>

-----------------------------------------------------------------------------
(* unix_socket_pread, after the sleep.                                     *)
Read(p) ==
  /\ at[p] = "ready" /\ op[p] = "read"
  /\ IF IsEmpty(InBuf(p)) THEN Goto(p, "empty") /\ UNCHANGED <<bufs, got, op, count>>
     ELSE LET c == sock[p]
              d == Incoming(p)
          IN /\ got' = [got EXCEPT ![c][d] = @ \o Bytes(InBuf(p), count[p])]
             /\ bufs' = [bufs EXCEPT ![c][d] = AfterRead(@, count[p])]
             /\ Return(p)
  /\ UNCHANGED <<listenVars, state, isOpen, sent, sock, calls>>

ReadEnd(p) ==
  /\ at[p] = "empty"
  /\ IF OpenForReading(p) THEN Again(p, FileOf(p)) ELSE Return(p)
  /\ UNCHANGED <<listenVars, state, dataVars, sock, calls>>

(* unix_socket_pwrite: only the server's end is told of a broken pipe,     *)
WriteCheck(p) ==
  /\ at[p] = "ready" /\ op[p] = "write"
  /\ IF p \in Servers /\ ~OpenForWriting(p) THEN Return(p)
     ELSE Goto(p, "checked") /\ UNCHANGED <<op, count>>
  /\ UNCHANGED <<listenVars, state, dataVars, sock, calls>>

(* and both write what there is room for.                                  *)
Write(p) ==
  /\ at[p] = "checked"
  /\ IF IsFull(OutBuf(p)) THEN Again(p, FileOf(p)) /\ UNCHANGED <<bufs, sent>>
     ELSE LET c == sock[p]
              d == Outgoing(p)
              bytes == [i \in 1..count[p] |-> sent[c][d] + i]
          IN /\ bufs' = [bufs EXCEPT ![c][d] = AfterWrite(@, bytes)]
             /\ sent' = [sent EXCEPT ![c][d] = @ + WriteCount(OutBuf(p), count[p])]
             /\ Return(p)
  /\ UNCHANGED <<listenVars, state, isOpen, got, sock, calls>>

(* unix_socket_shutdown.  The flags are cleared one after the other, with  *)
(* no lock: SHUT_RDWR is the same as two calls.                            *)
Shutdown(p, d) ==
  /\ op[p] = "none" /\ at[p] = "idle" /\ sock[p] # Nobody
  /\ isOpen' = [isOpen EXCEPT ![sock[p]][d] = FALSE]
  /\ UNCHANGED <<listenVars, state, bufs, sent, got, sock, op, at, count, calls>>

(* file_close, and unix_socket_close for the last reference to the file.   *)
Shares(p) ==
  \E q \in Servers \ {p} : p \in Servers /\ sock[q] = sock[p] /\ at[q] # "closed"

Close(p) ==
  /\ op[p] = "none" /\ at[p] = "idle" /\ sock[p] # Nobody
  /\ IF Shares(p) THEN UNCHANGED isOpen ELSE HangUp(sock[p])
  /\ Goto(p, "closed")
  /\ UNCHANGED <<listenVars, state, bufs, sent, got, sock, op, count, calls>>

-----------------------------------------------------------------------------
InCall(p) ==
  \/ FileBlock(p) \/ SchedBlock(p) \/ Wake(p)
  \/ p \in Clients /\ Connected(p)
  \/ p \in Servers /\ (AcceptPop(p) \/ AcceptConnect(p) \/ AcceptOpen(p))
  \/ Read(p) \/ ReadEnd(p) \/ WriteCheck(p) \/ Write(p)

Next ==
  \/ \E b \in Backlogs : Listen(b)
  \/ \E p \in Procs :
       \/ InCall(p) \/ Interrupt(p) \/ Close(p)
       \/ p \in Clients /\ Connect(p)
       \/ CallAccept(p)
       \/ p \in Servers /\ \E s \in Servers : Fork(p, s)
       \/ \E what \in {"read", "write"}, n \in 1..MaxCount : CallData(p, what, n)
       \/ \E d \in Directions : Shutdown(p, d)

(* As in Fifo.                                                             *)
Fairness == \A p \in Procs : WF_vars(InCall(p))

Spec == Init /\ [][Next]_vars /\ Fairness

-----------------------------------------------------------------------------
(* A client that is waiting to be accepted is at one place: in the queue,  *)
(* once, or with one process of the server, which finds it in the state it *)
(* asserts.  num_pending, which nobody locks to read, is the queue's       *)
(* length.                                                                 *)
PendingOnce ==
  /\ numPending = Len(pending)
  /\ \A c \in Clients :
       LET queued == {i \in 1..Len(pending) : pending[i] = c}
           popped == {s \in Servers : at[s] = "popped" /\ sock[s] = c}
       IN Cardinality(queued) + Cardinality(popped) = (IF state[c] = "pending" THEN 1 ELSE 0)

(* In each direction bytes are read in the order of their writes, and what *)
(* has been written and not read is what the buffer holds.                 *)
BytesInOrder ==
  \A c \in Clients, d \in Directions :
    got[c][d] \o Bytes(bufs[c][d], Length(bufs[c][d])) = [i \in 1..sent[c][d] |-> i]

(* A read comes back once the direction has been shut down from either     *)
(* end.                                                                    *)
HangupSeen ==
  \A p \in Procs : op[p] = "read" /\ ~OpenForReading(p) ~> op[p] = "none"

=============================================================================
