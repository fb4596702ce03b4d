----------------------------- MODULE MCStreams -----------------------------
(***************************************************************************)
(* What processes exchange bytes through: a behaviour is about a pipe or a *)
(* named FIFO, or about Unix domain sockets.                               *)
(***************************************************************************)
EXTENDS Fifo

CONSTANTS Clients, Servers, Forked, Nobody, Backlogs

VARIABLES which, backlog, numPending, pending, state, bufs, isOpen, sock,
          sockOp, sockAt, sockCount, sockCalls, sockSent, sockGot

Sockets == INSTANCE UnixSocket WITH
  op <- sockOp, at <- sockAt, count <- sockCount,
  calls <- sockCalls, sent <- sockSent, got <- sockGot

sockVars == <<backlog, numPending, pending, state, bufs, isOpen, sock,
              sockOp, sockAt, sockCount, sockCalls, sockSent, sockGot>>

MCInit ==
  /\ which \in {"fifo", "socket"} /\ Init /\ Sockets!Init
  /\ which = "socket" => ~named

MCNext ==
  \/ which = "fifo" /\ Next /\ UNCHANGED which /\ UNCHANGED sockVars
  \/ which = "socket" /\ Sockets!Next /\ UNCHANGED which /\ UNCHANGED vars

MCSpec ==
  /\ MCInit /\ [][MCNext]_<<which, vars, sockVars>>
  /\ Fairness /\ Sockets!Fairness     \* the other one is in no call

(* Connections wait once in the listener's queue, and bytes come out of a  *)
(* socket once and in order.                                               *)
SocketsExact == Sockets!PendingOnce /\ Sockets!BytesInOrder

(* A call on a pipe does not wait for ever when the other end has closed,  *)
(* nor a read from a socket whose connection was hung up.                  *)
HangupsSeen == LonelyReturns /\ Sockets!HangupSeen
=============================================================================
