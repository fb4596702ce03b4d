------------------------------ MODULE RingBuf ------------------------------
(***************************************************************************)
(* The ring buffer of containers/ring_buf.h.  It is empty when the indices *)
(* are equal, so that one slot is never used.  Reading and writing test    *)
(* for that after each byte: the caller must have tested before the first. *)
(***************************************************************************)
EXTENDS Naturals, Sequences, SequencesExt

CONSTANT Capacity

Slots == 0..(Capacity - 1)
Never == 0                      \* what a slot holds that was never written

RingBuf(r, w, s) == [read |-> r, write |-> w, slots |-> s]
Fresh == RingBuf(0, 0, [i \in Slots |-> Never])

IsEmpty(b) == b.write = b.read
IsFull(b) == (b.write + 1) % Capacity = b.read
Length(b) == (b.write + Capacity - b.read) % Capacity
AtMost(n, limit) == IF n < limit THEN n ELSE limit

(* How many bytes ring_buf_read takes: an empty buffer is read all around. *)
ReadCount(b, n) == AtMost(n, IF IsEmpty(b) THEN Capacity ELSE Length(b))
Bytes(b, n) ==
  [i \in 1..ReadCount(b, n) |-> b.slots[(b.read + i - 1) % Capacity]]
AfterRead(b, n) == [b EXCEPT !.read = (b.read + ReadCount(b, n)) % Capacity]

(* How many bytes ring_buf_write stores: a full buffer is overwritten.     *)
WriteCount(b, n) ==
  AtMost(n, IF IsFull(b) THEN Capacity ELSE Capacity - 1 - Length(b))

(* The slots are filled in their order, beginning at write_index.          *)
AfterWrite(b, bytes) ==
  LET n == WriteCount(b, Len(bytes))
      place(i) == ((i + Capacity - b.write) % Capacity) + 1   \* of slot i in bytes
  IN RingBuf(b.read, (b.write + n) % Capacity,
             [i \in Slots |-> IF place(i) <= n THEN bytes[place(i)] ELSE b.slots[i]])

(* ring_buf_write_evicting_oldest: a byte that meets the oldest one takes   *)
(* its place.                                                              *)
PutEvicting(b, byte) ==
  LET next == (b.write + 1) % Capacity
  IN RingBuf(IF next = b.read THEN (b.read + 1) % Capacity ELSE b.read, next,
             [b.slots EXCEPT ![b.write] = byte])

AfterEvictingWrite(b, bytes) == FoldLeft(PutEvicting, b, bytes)

Cleared(b) == RingBuf(0, 0, b.slots)
=============================================================================
