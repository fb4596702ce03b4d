-------------------------------- MODULE Fifo --------------------------------
(***************************************************************************)
(* A pipe or a named FIFO (fs/fifo.c) between processes that read, write,  *)
(* wait, are interrupted and close.  The two ends of a pipe exist from the *)
(* start, each an open file its processes share; every process opens a     *)
(* named FIFO for itself, and waits for the other side.                    *)
(*                                                                         *)
(* What is done under fifo->lock is one step.  The functions that end a    *)
(* sleep look at the indices and counts without it, at any time.  Bytes    *)
(* are numbered in the order in which they are written.                    *)
(***************************************************************************)
EXTENDS Naturals, Sequences, FiniteSets, RingBuf

CONSTANTS
  Readers, Writers,   \* processes
  NonBlocking,        \* those that open a named FIFO with O_NONBLOCK
  MaxCount,           \* bound: bytes asked for in a call
  MaxCalls            \* bound: calls of each process

Procs == Readers \cup Writers

VARIABLES
  named,       \* inode->dev # 0
  ring,        \* fifo->buf
  numReaders, numWriters,
  op,          \* the call a process is in, or "none"
  at,          \* where in it
  count,       \* its argument
  calls,       \* calls made
  sent, got,   \* history: how many bytes were written, and which were read
  result       \* of the last call

fileVars == <<named, numReaders, numWriters>>
vars == <<fileVars, ring, op, at, count, calls, sent, got, result>>

Open(p) == at[p] \in {"idle", "test", "block", "sleep", "ready"}
Asleep == {"test", "block", "sleep", "ready"}

TypeOK ==
  /\ named \in BOOLEAN
  /\ ring \in [read : Slots, write : Slots, slots : [Slots -> Nat]]
  /\ numReaders \in 0..Cardinality(Readers) /\ numWriters \in 0..Cardinality(Writers)
  /\ op \in [Procs -> {"none", "open", "read", "write"}]
  /\ at \in [Procs -> {"new", "idle", "closed", "failed"} \cup Asleep]
  /\ count \in [Procs -> 0..MaxCount]
  /\ sent \in Nat /\ got \in Seq(Nat)
  /\ result \in [Procs -> {"nothing", "ended", "broken"}]

(* sys_pipe2 has opened both ends of a pipe.                               *)
Init ==
  /\ named \in BOOLEAN
  /\ ring = Fresh
  /\ numReaders = (IF named THEN 0 ELSE 1) /\ numWriters = (IF named THEN 0 ELSE 1)
  /\ op = [p \in Procs |-> "none"]
  /\ at = [p \in Procs |-> IF named THEN "new" ELSE "idle"]
  /\ count = [p \in Procs |-> 0]
  /\ calls = [p \in Procs |-> 0]
  /\ sent = 0 /\ got = <<>>
  /\ result = [p \in Procs |-> "nothing"]

-----------------------------------------------------------------------------
Goto(p, place) == at' = [at EXCEPT ![p] = place]

(* The call of file_block: a file that is not to block is tested first.    *)
GotoBlock(p) == Goto(p, IF named /\ p \in NonBlocking THEN "test" ELSE "block")

Return(p, what) ==
  /\ op' = [op EXCEPT ![p] = "none"]
  /\ count' = [count EXCEPT ![p] = 0]
  /\ Goto(p, "idle")
  /\ result' = [result EXCEPT ![p] = what]

(* fifo_open, up to the wait for the other side.                           *)
CallOpen(p) ==
  /\ named /\ at[p] = "new"
  /\ numReaders' = numReaders + (IF p \in Readers THEN 1 ELSE 0)
  /\ numWriters' = numWriters + (IF p \in Writers THEN 1 ELSE 0)
  /\ op' = [op EXCEPT ![p] = "open"] /\ GotoBlock(p)
  /\ UNCHANGED <<named, ring, count, calls, sent, got, result>>

(* read and write as system calls.                                         *)
Call(p, n) ==
  /\ at[p] = "idle" /\ calls[p] < MaxCalls
  /\ calls' = [calls EXCEPT ![p] = @ + 1]
  /\ count' = [count EXCEPT ![p] = n]
  /\ op' = [op EXCEPT ![p] = IF p \in Readers THEN "read" ELSE "write"]
  /\ GotoBlock(p)
  /\ UNCHANGED <<fileVars, ring, sent, got, result>>

(* Mutant: the end of the stream does not wake a reader.                   *)
ReadReadyData(p) == op[p] = "read" /\ ~IsEmpty(ring)

(* unblock_open, unblock_read, unblock_write.                              *)
OpenReady(p) ==
  op[p] = "open" /\ (IF p \in Readers THEN numWriters > 0 ELSE numReaders > 0)
ReadReady(p) == op[p] = "read" /\ (numWriters = 0 \/ ~IsEmpty(ring))
WriteReady(p) == op[p] = "write" /\ (numReaders = 0 \/ ~IsFull(ring))
Ready(p) == OpenReady(p) \/ ReadReady(p) \/ WriteReady(p)

(* An error ends the call.  An open that fails gives the file back without *)
(* fifo_close: the process stays counted.                                  *)
Fail(p) ==
  IF op[p] = "open"
    THEN op' = [op EXCEPT ![p] = "none"] /\ Goto(p, "failed") /\ UNCHANGED <<count, result>>
    ELSE Return(p, "nothing")

(* file_block fails when a file that is not to block is not ready,         *)
FileBlock(p) ==
  /\ at[p] = "test"
  /\ IF ~Ready(p) THEN Fail(p)
     ELSE Goto(p, "block") /\ UNCHANGED <<op, count, result>>
  /\ UNCHANGED <<fileVars, ring, calls, sent, got>>

(* and sched_block tests, again or for the first time.                     *)
SchedBlock(p) ==
  /\ at[p] = "block"
  /\ Goto(p, IF Ready(p) THEN "ready" ELSE "sleep")
  /\ UNCHANGED <<fileVars, ring, op, count, calls, sent, got, result>>

Wake(p) ==
  /\ at[p] = "sleep" /\ Ready(p)
  /\ Goto(p, "ready")
  /\ UNCHANGED <<fileVars, ring, op, count, calls, sent, got, result>>

Interrupt(p) ==
  /\ at[p] = "sleep" /\ Fail(p)
  /\ UNCHANGED <<fileVars, ring, calls, sent, got>>

Opened(p) ==
  /\ at[p] = "ready" /\ op[p] = "open"
  /\ Return(p, "nothing")
  /\ UNCHANGED <<fileVars, ring, calls, sent, got>>

Again(p) == GotoBlock(p) /\ UNCHANGED <<ring, op, count, sent, got, result>>

(* Mutant: the end is looked for before what is left to read.              *)
ReadEndFirst(p) ==
  /\ at[p] = "ready" /\ op[p] = "read"
  /\ IF numWriters = 0 THEN Return(p, "ended") /\ UNCHANGED <<ring, sent, got>>
     ELSE IF IsEmpty(ring) THEN Again(p)
     ELSE /\ got' = got \o Bytes(ring, count[p])
          /\ ring' = AfterRead(ring, count[p])
          /\ Return(p, "nothing") /\ UNCHANGED sent
  /\ UNCHANGED <<fileVars, calls>>

(* fifo_pread, after the sleep.                                            *)
Read(p) ==
  /\ at[p] = "ready" /\ op[p] = "read"
  /\ IF ~IsEmpty(ring)
       THEN /\ got' = got \o Bytes(ring, count[p])
            /\ ring' = AfterRead(ring, count[p])
            /\ Return(p, "nothing") /\ UNCHANGED sent
     ELSE IF numWriters = 0 THEN Return(p, "ended") /\ UNCHANGED <<ring, sent, got>>
     ELSE Again(p)
  /\ UNCHANGED <<fileVars, calls>>

(* fifo_pwrite, after the sleep.                                           *)
Write(p) ==
  /\ at[p] = "ready" /\ op[p] = "write"
  /\ IF numReaders = 0 THEN Return(p, "broken") /\ UNCHANGED <<ring, sent, got>>
     ELSE IF IsFull(ring) THEN Again(p)
     ELSE /\ ring' = AfterWrite(ring, [i \in 1..count[p] |-> sent + i])
          /\ sent' = sent + WriteCount(ring, count[p])
          /\ Return(p, "nothing") /\ UNCHANGED got
  /\ UNCHANGED <<fileVars, calls>>

(* file_close: fifo_close is called for the last reference to the file,    *)
(* which all the processes at one end of a pipe share.                     *)
LastOf(p, side) ==
  p \in side /\ (named \/ \A q \in side \ {p} : at[q] = "closed")

Close(p) ==
  /\ at[p] = "idle" /\ Goto(p, "closed")
  /\ numReaders' = numReaders - (IF LastOf(p, Readers) THEN 1 ELSE 0)
  /\ numWriters' = numWriters - (IF LastOf(p, Writers) THEN 1 ELSE 0)
  /\ UNCHANGED <<named, ring, op, count, calls, sent, got, result>>

-----------------------------------------------------------------------------
InCall(p) ==
  FileBlock(p) \/ SchedBlock(p) \/ Wake(p) \/ Opened(p) \/ Read(p) \/ Write(p)

Next ==
  \E p \in Procs :
    \/ InCall(p) \/ Interrupt(p) \/ Close(p) \/ CallOpen(p)
    \/ \E n \in 1..MaxCount : Call(p, n)

(* A process that can run runs, and the scheduler looks at those that      *)
(* sleep again and again.                                                  *)
Fairness == \A p \in Procs : WF_vars(InCall(p))

Spec == Init /\ [][Next]_vars /\ Fairness

-----------------------------------------------------------------------------
(* Pipes and FIFOs are streams: nothing lost, doubled or out of order, the *)
(* end only after the last byte and the last writer.                       *)
Pipe == INSTANCE Stream WITH
  Room <- Capacity - 1,
  Processes <- Procs,
  sent <- [i \in 1..sent |-> i],
  received <- got,
  readers <- {p \in Readers : Open(p)},
  writers <- {p \in Writers : Open(p)},
  told <- result
ImplementsStream == Pipe!Spec

(* When everybody at the other end has closed, a call does not wait for    *)
(* ever.                                                                   *)
Returns(p, others) ==
  (op[p] \in {"read", "write"} /\ \A q \in others : at[q] = "closed") ~> (op[p] = "none")
LonelyReturns ==
  /\ \A r \in Readers : Returns(r, Writers)
  /\ \A w \in Writers : Returns(w, Readers)
=============================================================================
