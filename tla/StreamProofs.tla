---------------------------- MODULE StreamProofs ----------------------------
(***************************************************************************)
(* A pipe or FIFO is a Stream: the ring buffer of containers/ring_buf.h    *)
(* holds the bytes between the last one read and the last one written, and *)
(* a count of readers or writers that is 0 means that nobody is left, for  *)
(* any number of processes and any capacity.  The two buffers of a Unix    *)
(* socket hold what is on the way in each direction, and a connection that *)
(* is not accepted yet is at one place.                                    *)
(***************************************************************************)
EXTENDS MCStreams, FiniteSetTheorems, TLAPS

(* The ring holds, from the read index on, the bytes after g up to s.      *)
RingType(b) == b \in [read : Slots, write : Slots, slots : [Slots -> Nat]]
Carries(b, g, s) ==
  /\ Length(b) = s - g
  /\ \A i \in 1..(s - g) : b.slots[(b.read + i - 1) % Capacity] = g + i

(* Who is counted at an end, an open that failed included; the processes   *)
(* at an end of a pipe are counted once.                                   *)
Inside(side, where) == {p \in side : where[p] \notin {"new", "closed"}}
EndCounted(isNamed, side, where, num) ==
  /\ num \in Nat
  /\ isNamed => IsFiniteSet(Inside(side, where)) /\ num = Cardinality(Inside(side, where))
  /\ ~isNamed => (Inside(side, where) # {} => num = 1)

Places == {"new", "idle", "closed", "failed"} \cup Asleep

Types ==
  /\ named \in BOOLEAN /\ RingType(ring) /\ sent \in Nat /\ got \in Seq(Nat)
  /\ op \in [Procs -> {"none", "open", "read", "write"}]
  /\ at \in [Procs -> Places]
  /\ count \in [Procs -> Nat]
  /\ result \in [Procs -> {"nothing", "ended", "broken"}]

Carried == Carries(ring, Len(got), sent) /\ got = [i \in 1..Len(got) |-> i]

Called ==
  \A p \in Procs : /\ op[p] = "read" => p \in Readers /\ count[p] > 0
                   /\ op[p] = "write" => p \in Writers /\ count[p] > 0

Ends == /\ EndCounted(named, Readers, at, numReaders)
        /\ EndCounted(named, Writers, at, numWriters)

FifoInv == Types /\ Carried /\ Called /\ Ends
-----------------------------------------------------------------------------
(* Indices go around at most once.                                         *)
LEMMA Around ==
  ASSUME NEW c \in Nat \ {0}, NEW x \in 0..(2 * c - 1)
  PROVE  x % c = IF x < c THEN x ELSE x - c
OBVIOUS

(* How far the slot i after the read index is from the write index.        *)
LEMMA Distance ==
  ASSUME NEW c \in Nat \ {0}, NEW r \in 0..(c - 1), NEW n \in 0..(c - 1), NEW i \in 1..c
  PROVE  /\ (r + i - 1) % c \in 0..(c - 1)
         /\ (((r + i - 1) % c) + c - ((r + n) % c)) % c = IF i > n THEN i - 1 - n ELSE c + i - 1 - n
<1> DEFINE j == (r + i - 1) % c
           w == (r + n) % c
<1>1. j = (IF r + i - 1 < c THEN r + i - 1 ELSE r + i - 1 - c) /\ j \in 0..(c - 1)
  <2> DEFINE x == r + i - 1
  <2>1. x \in 0..(2 * c - 1)
    OBVIOUS
  <2> HIDE DEF x
  <2>2. x % c = IF x < c THEN x ELSE x - c
    BY <2>1, Around
  <2>3. j = x % c
    BY DEF x
  <2> QED
    BY <2>1, <2>2, <2>3 DEF x
<1>2. w = (IF r + n < c THEN r + n ELSE r + n - c) /\ w \in 0..(c - 1)
  <2> DEFINE x == r + n
  <2>1. x \in 0..(2 * c - 1)
    OBVIOUS
  <2> HIDE DEF x
  <2>2. x % c = IF x < c THEN x ELSE x - c
    BY <2>1, Around
  <2>3. w = x % c
    BY DEF x
  <2> QED
    BY <2>1, <2>2, <2>3 DEF x
<1> HIDE DEF j, w
<1> DEFINE x == j + c - w
<1>3. x \in 0..(2 * c - 1)
  BY <1>1, <1>2
<1>4. (IF x < c THEN x ELSE x - c) = IF i > n THEN i - 1 - n ELSE c + i - 1 - n
  BY <1>1, <1>2
<1> HIDE DEF x
<1>5. x % c = IF x < c THEN x ELSE x - c
  BY <1>3, Around
<1>6. x % c = IF i > n THEN i - 1 - n ELSE c + i - 1 - n
  BY <1>4, <1>5
<1> QED
  BY <1>1, <1>6 DEF j, w, x

(* Where the write index is.                                               *)
LEMMA RingIndices ==
  ASSUME Capacity \in Nat \ {0}, NEW b, RingType(b)
  PROVE  /\ b.read \in 0..(Capacity - 1) /\ b.write \in 0..(Capacity - 1)
         /\ b.slots \in [Slots -> Nat]
         /\ Length(b) \in 0..(Capacity - 1)
         /\ b.write = (b.read + Length(b)) % Capacity
         /\ IsEmpty(b) <=> Length(b) = 0
         /\ IsFull(b) <=> Length(b) = Capacity - 1
<1> DEFINE r == b.read
           w == b.write
           n == Length(b)
           c == Capacity
<1>1. r \in 0..(c - 1) /\ w \in 0..(c - 1) /\ b.slots \in [Slots -> Nat]
  BY DEF RingType, Slots
<1>2. n = (w + c - r) % c
  BY DEF Length
<1> HIDE DEF r, w, n, c
<1>3. c \in Nat \ {0}
  BY DEF c
<1> DEFINE x == w + c - r
           y == w + 1
           z == r + n
<1>4. x \in 0..(2 * c - 1) /\ y \in 0..(2 * c - 1)
  BY <1>1, <1>3
<1> HIDE DEF x, y, z
<1>5. /\ x % c = IF x < c THEN x ELSE x - c
      /\ y % c = IF y < c THEN y ELSE y - c
  BY <1>3, <1>4, Around
<1>6. n = (IF w < r THEN w + c - r ELSE w - r) /\ n \in 0..(c - 1)
  <2>1. n = x % c
    BY <1>2 DEF x
  <2> QED
    BY <1>1, <1>3, <1>5, <2>1 DEF x
<1>7. z \in 0..(2 * c - 1)
  BY <1>1, <1>3, <1>6 DEF z
<1>8. w = z % c
  <2>1. z % c = IF z < c THEN z ELSE z - c
    BY <1>3, <1>7, Around
  <2> QED
    BY <1>1, <1>3, <1>6, <2>1 DEF z
<1>9. w = r <=> n = 0
  BY <1>1, <1>3, <1>6
<1>10. y % c = r <=> n = c - 1
  BY <1>1, <1>3, <1>5, <1>6 DEF y
<1> QED
  BY <1>1, <1>6, <1>8, <1>9, <1>10 DEF r, w, n, c, y, z, IsEmpty, IsFull

(* Going k and then i - 1 slots on is going k + i - 1 slots on.            *)
LEMMA Further ==
  ASSUME NEW c \in Nat \ {0}, NEW r \in 0..(c - 1), NEW k \in 0..(c - 1), NEW i \in 1..(c - k)
  PROVE  (((r + k) % c) + i - 1) % c = (r + (k + i) - 1) % c
<1> DEFINE x == r + k
           q == x % c
           y == q + i - 1
           z == r + (k + i) - 1
<1>1. x \in 0..(2 * c - 1) /\ z \in 0..(2 * c - 1)
  OBVIOUS
<1>2. x = r + k /\ z = r + (k + i) - 1
  OBVIOUS
<1> HIDE DEF x, z
<1>3. q = (IF x < c THEN x ELSE x - c) /\ z % c = (IF z < c THEN z ELSE z - c)
  BY <1>1, Around
<1>4. y = q + i - 1
  OBVIOUS
<1> HIDE DEF q, y
<1>5. y \in 0..(2 * c - 1)
  BY <1>1, <1>2, <1>3, <1>4
<1>6. y % c = (IF y < c THEN y ELSE y - c)
  BY <1>5, Around
<1>7. y % c = z % c
  BY <1>1, <1>2, <1>3, <1>4, <1>6
<1> QED
  BY <1>7 DEF x, y, z, q

(* What is left between the indices when the read index moves on.          *)
LEMMA LengthAfterRead ==
  ASSUME NEW c \in Nat \ {0}, NEW r \in 0..(c - 1), NEW n \in 0..(c - 1), NEW k \in 0..n
  PROVE  (((r + n) % c) + c - ((r + k) % c)) % c = n - k
<1> DEFINE x == r + n
           y == r + k
           w == x % c
           q == y % c
           z == w + c - q
<1>1. x \in 0..(2 * c - 1) /\ y \in 0..(2 * c - 1) /\ x = r + n /\ y = r + k
  OBVIOUS
<1> HIDE DEF x, y
<1>2. w = (IF x < c THEN x ELSE x - c) /\ q = (IF y < c THEN y ELSE y - c) /\ z = w + c - q
  BY <1>1, Around
<1> HIDE DEF w, q, z
<1>3. z \in 0..(2 * c - 1) /\ n - k = (IF z < c THEN z ELSE z - c)
  BY <1>1, <1>2
<1>4. z % c = (IF z < c THEN z ELSE z - c)
  BY <1>3, Around
<1>5. z % c = n - k
  BY <1>3, <1>4
<1> QED
  BY <1>5 DEF x, y, w, q, z

(* The write index is n slots after the read index.                        *)
LEMMA LengthBetween ==
  ASSUME NEW c \in Nat \ {0}, NEW r \in 0..(c - 1), NEW n \in 0..(c - 1)
  PROVE  (((r + n) % c) + c - r) % c = n
<1> DEFINE x == r + n
           w == x % c
           z == w + c - r
<1>1. x \in 0..(2 * c - 1) /\ x = r + n
  OBVIOUS
<1> HIDE DEF x
<1>2. w = (IF x < c THEN x ELSE x - c) /\ z = w + c - r
  BY <1>1, Around
<1> HIDE DEF w, z
<1>3. z \in 0..(2 * c - 1) /\ n = (IF z < c THEN z ELSE z - c)
  BY <1>1, <1>2
<1>4. z % c = (IF z < c THEN z ELSE z - c)
  BY <1>3, Around
<1>5. z % c = n
  BY <1>3, <1>4
<1> QED
  BY <1>5 DEF x, w, z

(* What ring_buf_read of a buffer that carries the bytes g + 1 to s takes  *)
(* out, and what it leaves.                                                *)
Reads(b, g, s, n) ==
  /\ ReadCount(b, n) \in 1..(s - g)
  /\ Bytes(b, n) = [i \in 1..ReadCount(b, n) |-> g + i]
  /\ RingType(AfterRead(b, n)) /\ Carries(AfterRead(b, n), g + ReadCount(b, n), s)

(* ring_buf_read of a buffer that is not empty.                            *)
LEMMA RingRead ==
  ASSUME Capacity \in Nat \ {0}, NEW b, RingType(b), NEW g \in Nat, NEW s \in Nat,
         Carries(b, g, s), ~IsEmpty(b), NEW n \in Nat \ {0}
  PROVE  Reads(b, g, s, n)
<1> DEFINE c == Capacity
           r == b.read
           w == b.write
           m == Length(b)
           k == ReadCount(b, n)
           d == AfterRead(b, n)
<1>1. /\ r \in 0..(c - 1) /\ w \in 0..(c - 1) /\ b.slots \in [Slots -> Nat]
      /\ m \in 0..(c - 1) /\ w = (r + m) % c /\ m # 0
  BY RingIndices
<1>2. m = s - g /\ \A i \in 1..m : b.slots[(r + i - 1) % c] = g + i
  BY DEF Carries
<1>3. k = IF n < m THEN n ELSE m
  BY DEF ReadCount, AtMost
<1>4. /\ d.read = (r + k) % c /\ d.write = w /\ d.slots = b.slots
      /\ d = [read |-> (r + k) % c, write |-> w, slots |-> b.slots]
  BY DEF AfterRead, RingType
<1>5. Bytes(b, n) = [i \in 1..k |-> b.slots[(r + i - 1) % c]]
  BY DEF Bytes
<1>6. Length(d) = (d.write + c - d.read) % c
  BY DEF Length
<1>7. c \in Nat \ {0} /\ Slots = 0..(c - 1)
  BY DEF Slots
<1> HIDE DEF c, r, w, m, k, d
<1>8. k \in 1..m /\ k \in 0..(c - 1) /\ k \in Nat
  BY <1>1, <1>3, <1>7
<1>9. Bytes(b, n) = [i \in 1..k |-> g + i]
  <2>1. ASSUME NEW i \in 1..k PROVE b.slots[(r + i - 1) % c] = g + i
    BY <1>1, <1>2, <1>8
  <2> QED
    BY <1>5, <2>1
<1>10. RingType(d)
  <2>1. (r + k) % c \in 0..(c - 1)
    BY <1>1, <1>7, <1>8
  <2> QED
    BY <1>1, <1>4, <1>7, <2>1 DEF RingType
<1>11. Length(d) = m - k
  <2>1. k \in 0..m
    BY <1>1, <1>8
  <2>2. (((r + m) % c) + c - ((r + k) % c)) % c = m - k
    BY <1>1, <1>7, <2>1, LengthAfterRead
  <2> DEFINE v == (r + m) % c
             q == (r + k) % c
  <2>3. (v + c - q) % c = m - k
    BY <2>2
  <2>4. d.write = v /\ d.read = q
    BY <1>1, <1>4
  <2> HIDE DEF v, q
  <2> QED
    BY <1>6, <2>3, <2>4
<1>12. ASSUME NEW i \in 1..(m - k) PROVE d.slots[(d.read + i - 1) % c] = g + k + i
  <2>1. i \in 1..(c - k) /\ k + i \in 1..m /\ g + (k + i) = g + k + i
    BY <1>1, <1>7, <1>8
  <2>2. (((r + k) % c) + i - 1) % c = (r + (k + i) - 1) % c
    BY <1>1, <1>7, <1>8, <2>1, Further, ZenonT(40)
  <2>3. b.slots[(r + (k + i) - 1) % c] = g + (k + i)
    BY <1>2, <2>1
  <2> QED
    BY <1>4, <2>1, <2>2, <2>3
<1>13. m - k = s - (g + k)
  BY <1>2, <1>8
<1>14. Carries(d, g + k, s)
  BY <1>11, <1>12, <1>13 DEF Carries, c
<1> QED
  BY <1>2, <1>8, <1>9, <1>10, <1>14 DEF k, d, Reads

(* ring_buf_write to a buffer that is not full.                            *)
LEMMA RingWrite ==
  ASSUME Capacity \in Nat \ {0}, NEW b, RingType(b), NEW g \in Nat, NEW s \in Nat,
         Carries(b, g, s), ~IsFull(b), NEW n \in Nat \ {0},
         NEW bytes, bytes = [i \in 1..n |-> s + i]
  PROVE  /\ WriteCount(b, n) \in 1..(Capacity - 1 - (s - g))
         /\ RingType(AfterWrite(b, bytes)) /\ Carries(AfterWrite(b, bytes), g, s + WriteCount(b, n))
<1> DEFINE c == Capacity
           r == b.read
           w == b.write
           m == Length(b)
           k == WriteCount(b, n)
           d == AfterWrite(b, bytes)
           place(i) == ((i + c - w) % c) + 1
<1>1. /\ r \in 0..(c - 1) /\ w \in 0..(c - 1) /\ b.slots \in [Slots -> Nat]
      /\ m \in 0..(c - 1) /\ w = (r + m) % c /\ m # c - 1
  BY RingIndices
<1>2. m = s - g /\ \A i \in 1..m : b.slots[(r + i - 1) % c] = g + i
  BY DEF Carries
<1>3. k = IF n < c - 1 - m THEN n ELSE c - 1 - m
  BY DEF WriteCount, AtMost
<1>4. Len(bytes) = n /\ \A i \in 1..n : bytes[i] = s + i
  OBVIOUS
<1>5. /\ d.read = r /\ d.write = (w + k) % c
      /\ d.slots = [i \in Slots |-> IF place(i) <= k THEN bytes[place(i)] ELSE b.slots[i]]
      /\ d = [read |-> r, write |-> (w + k) % c, slots |-> d.slots]
  BY <1>4 DEF AfterWrite, RingBuf
<1>6. Length(d) = (d.write + c - d.read) % c
  BY DEF Length
<1>7. c \in Nat \ {0} /\ Slots = 0..(c - 1)
  BY DEF Slots
<1> HIDE DEF c, r, w, m, k, d
<1>8. k \in 1..(c - 1 - m) /\ k \in 1..n /\ k \in Nat /\ m + k \in 0..(c - 1)
  BY <1>1, <1>3, <1>7
<1>9. ASSUME NEW i \in 0..(c - 1) PROVE place(i) \in 1..c
  <2>1. i + c - w \in Nat
    BY <1>1, <1>7
  <2> QED
    BY <1>7, <2>1
<1>10. RingType(d)
  <2>1. (w + k) % c \in 0..(c - 1)
    <3> DEFINE x == w + k
    <3>1. x \in Nat
      BY <1>1, <1>8
    <3> HIDE DEF x
    <3>2. x % c \in 0..(c - 1)
      BY <1>7, <3>1
    <3> QED
      BY <3>2 DEF x
  <2>2. ASSUME NEW i \in Slots PROVE (IF place(i) <= k THEN bytes[place(i)] ELSE b.slots[i]) \in Nat
    <3>1. CASE place(i) <= k
      <4>1. place(i) \in 1..n
        BY <1>7, <1>8, <1>9, <3>1
      <4>2. bytes[place(i)] = s + place(i)
        BY <1>4, <4>1
      <4> QED
        BY <3>1, <4>1, <4>2
    <3>2. CASE ~(place(i) <= k)
      BY <1>1, <3>2
    <3> QED
      BY <3>1, <3>2
  <2>3. d.slots \in [Slots -> Nat]
    BY <1>5, <2>2
  <2> QED
    BY <1>1, <1>5, <1>7, <2>1, <2>3 DEF RingType
<1>11. (w + k) % c = (r + (m + k)) % c
  <2>1. k + 1 \in 1..(c - m) /\ m \in 0..(c - 1)
    BY <1>1, <1>7, <1>8
  <2>2. (((r + m) % c) + (k + 1) - 1) % c = (r + (m + (k + 1)) - 1) % c
    BY <1>1, <1>7, <2>1, Further
  <2>3. ((r + m) % c) + (k + 1) - 1 = w + k /\ r + (m + (k + 1)) - 1 = r + (m + k)
    BY <1>1, <1>7, <1>8
  <2> QED
    BY <2>2, <2>3
<1>12. Length(d) = m + k
  <2>1. (((r + (m + k)) % c) + c - r) % c = m + k
    BY <1>1, <1>7, <1>8, LengthBetween
  <2> QED
    BY <1>5, <1>6, <1>11, <2>1
<1>13. ASSUME NEW i \in 1..(m + k) PROVE d.slots[(r + i - 1) % c] = g + i
  <2> DEFINE j == (r + i - 1) % c
  <2>1. i \in 1..c
    BY <1>1, <1>7, <1>8
  <2>2. /\ j \in 0..(c - 1)
        /\ (j + c - ((r + m) % c)) % c = IF i > m THEN i - 1 - m ELSE c + i - 1 - m
    BY <1>1, <1>7, <2>1, Distance, ZenonT(40)
  <2> HIDE DEF j
  <2>3. place(j) = (IF i > m THEN i - 1 - m ELSE c + i - 1 - m) + 1
    <3> DEFINE v == (r + m) % c
    <3>1. (j + c - v) % c = (IF i > m THEN i - 1 - m ELSE c + i - 1 - m)
      BY <2>2
    <3>2. w = v
      BY <1>1
    <3> HIDE DEF v
    <3> QED
      BY <3>1, <3>2
  <2>4. d.slots[j] = IF place(j) <= k THEN bytes[place(j)] ELSE b.slots[j]
    BY <1>5, <1>7, <2>2
  <2>5. CASE i > m
    <3>1. place(j) = i - m /\ i - m \in 1..k /\ i - m \in 1..n
      <4> DEFINE x == place(j)
      <4>1. x = i - 1 - m + 1
        BY <2>3, <2>5
      <4> HIDE DEF x
      <4>2. x = i - m /\ i - m \in 1..k /\ i - m \in 1..n
        BY <1>1, <1>7, <1>8, <2>5, <4>1
      <4> QED
        BY <4>2 DEF x
    <3>2. d.slots[j] = s + (i - m)
      BY <1>4, <2>4, <3>1
    <3>3. s + (i - m) = g + i
      BY <1>1, <1>2
    <3> QED
      BY <3>2, <3>3 DEF j
  <2>6. CASE ~(i > m)
    <3>1. ~(place(j) <= k) /\ i \in 1..m
      BY <1>1, <1>7, <1>8, <2>3, <2>6
    <3>2. b.slots[j] = g + i
      BY <1>2, <3>1 DEF j
    <3> QED
      BY <2>4, <3>1, <3>2 DEF j
  <2> QED
    BY <2>5, <2>6
<1>14. m + k = s + k - g
  BY <1>2, <1>8
<1>15. Carries(d, g, s + k)
  <2>1. d.read = r
    BY <1>5
  <2>2. Length(d) = s + k - g
    BY <1>12, <1>14
  <2>3. ASSUME NEW i \in 1..(s + k - g) PROVE d.slots[(d.read + i - 1) % Capacity] = g + i
    BY <1>13, <1>14, <2>1 DEF c
  <2> QED
    BY <1>8, <2>2, <2>3 DEF Carries
<1> QED
  BY <1>2, <1>8, <1>10, <1>15 DEF k, d, c
-----------------------------------------------------------------------------
(* What a step is to the Stream: a step of it, or nothing.                 *)
Bytes1To(n) == [i \in 1..n |-> i]
OpenAt(side, where) == {p \in side : where[p] \in {"idle", "test", "block", "sleep", "ready"}}
StreamStep ==
  [Pipe!Next]_<<[i \in 1..sent |-> i], got, {p \in Readers : Open(p)},
                {p \in Writers : Open(p)}, result>>

(* Sequences of consecutive numbers.                                       *)
LEMMA Consecutive ==
  ASSUME NEW m \in Nat, NEW n \in Nat
  PROVE  /\ Bytes1To(m) \in Seq(Nat) /\ Len(Bytes1To(m)) = m
         /\ m <= n => SubSeq(Bytes1To(n), 1, m) = Bytes1To(m)
         /\ Bytes1To(m) \o [i \in 1..n |-> m + i] = Bytes1To(m + n)
         /\ Bytes1To(0) = <<>>
<1>1. Bytes1To(m) \in Seq(Nat) /\ Len(Bytes1To(m)) = m
  BY DEF Bytes1To
<1>2. m <= n => SubSeq(Bytes1To(n), 1, m) = Bytes1To(m)
  BY DEF Bytes1To
<1>3. Bytes1To(m) \o [i \in 1..n |-> m + i] = Bytes1To(m + n)
  BY DEF Bytes1To
<1>4. Bytes1To(0) = <<>>
  BY DEF Bytes1To
<1> QED
  BY <1>1, <1>2, <1>3, <1>4

(* Moving inside a call leaves the counts right.                           *)
LEMMA SameEnd ==
  ASSUME NEW isNamed, NEW side, NEW where, NEW num, EndCounted(isNamed, side, where, num), NEW after,
         \A p \in side : after[p] \in {"new", "closed"} <=> where[p] \in {"new", "closed"}
  PROVE  EndCounted(isNamed, side, after, num)
<1>1. Inside(side, after) = Inside(side, where)
  BY DEF Inside
<1> QED
  BY <1>1 DEF EndCounted

(* A count of 0 means that nobody is there.                                *)
LEMMA NobodyLeft ==
  ASSUME NEW isNamed \in BOOLEAN, NEW side, NEW where, EndCounted(isNamed, side, where, 0)
  PROVE  OpenAt(side, where) = {}
<1>1. Inside(side, where) = {}
  <2>1. CASE isNamed
    BY <2>1, FS_EmptySet DEF EndCounted
  <2>2. CASE ~isNamed
    BY <2>2 DEF EndCounted
  <2> QED
    BY <2>1, <2>2
<1>2. OpenAt(side, where) \subseteq Inside(side, where)
  BY DEF OpenAt, Inside
<1> QED
  BY <1>1, <1>2

(* The ends as the Stream sees them.                                       *)
LEMMA Mapped ==
  /\ {p \in Readers : Open(p)} = OpenAt(Readers, at)
  /\ {p \in Writers : Open(p)} = OpenAt(Writers, at)
  /\ ({p \in Readers : Open(p)})' = OpenAt(Readers, at')
  /\ ({p \in Writers : Open(p)})' = OpenAt(Writers, at')
  /\ [i \in 1..sent |-> i] = Bytes1To(sent) /\ ([i \in 1..sent |-> i])' = Bytes1To(sent')
BY DEF Open, OpenAt, Bytes1To

(* sys_pipe2, or nobody has opened the FIFO: an empty stream.              *)
LEMMA InitFifoInv ==
  ASSUME Capacity \in Nat \ {0}, Init
  PROVE  FifoInv /\ Pipe!Init
<1>1. RingType(ring) /\ Length(ring) = 0 /\ got = <<>> /\ sent = 0
  <2>1. 0 \in Slots /\ ring.read = 0 /\ ring.write = 0 /\ (0 + Capacity - 0) % Capacity = 0
    BY DEF Init, Fresh, RingBuf, Slots
  <2> QED
    BY <2>1 DEF Init, RingType, Fresh, RingBuf, Never, Length
<1>2. Types
  BY <1>1 DEF Init, Types, Places
<1>3. Carried
  <2>1. Len(got) = 0 /\ got = [i \in 1..Len(got) |-> i]
    BY <1>1
  <2>2. 0 - 0 = 0 /\ 1..0 = {}
    OBVIOUS
  <2>3. Carries(ring, 0, 0)
    BY <1>1, <2>2 DEF Carries
  <2> QED
    BY <1>1, <2>1, <2>3 DEF Carried
<1>4. Called
  BY DEF Init, Called
<1>5. ASSUME NEW side, side \subseteq Procs PROVE EndCounted(named, side, at, IF named THEN 0 ELSE 1)
  <2>1. CASE named
    <3>1. Inside(side, at) = {}
      BY <1>5, <2>1 DEF Init, Inside
    <3> QED
      BY <2>1, <3>1, FS_EmptySet DEF EndCounted
  <2>2. CASE ~named
    BY <2>2 DEF EndCounted
  <2> QED
    BY <2>1, <2>2
<1>6. Ends
  BY <1>5 DEF Init, Ends, Procs
<1>7. Pipe!Init
  <2>1. [i \in 1..sent |-> i] = <<>>
    BY <1>1, Consecutive, Mapped
  <2> QED
    BY <2>1 DEF Init, Pipe!Init, Procs
<1> QED
  BY <1>2, <1>3, <1>4, <1>6, <1>7 DEF FifoInv

(* The steps of a call until it does something.                            *)
Waits(p, to) ==
  /\ at[p] \in {"idle", "test", "block", "sleep", "ready"} /\ to \in Asleep
  /\ at' = [at EXCEPT ![p] = to]
  /\ \/ UNCHANGED <<op, count>>
     \/ \E n \in Nat \ {0} :
          /\ count' = [count EXCEPT ![p] = n]
          /\ op' = [op EXCEPT ![p] = IF p \in Readers THEN "read" ELSE "write"]
  /\ UNCHANGED <<named, numReaders, numWriters, ring, sent, got, result>>

(* Such a move is none of the stream.                                      *)
LEMMA StepWaits ==
  ASSUME FifoInv, NEW p \in Procs, NEW to, Waits(p, to)
  PROVE  FifoInv' /\ StreamStep
<1>1. \A q \in Procs : /\ at'[q] \in {"new", "closed"} <=> at[q] \in {"new", "closed"}
                       /\ at'[q] \in {"idle", "test", "block", "sleep", "ready"}
                            <=> at[q] \in {"idle", "test", "block", "sleep", "ready"}
  BY DEF Waits, Asleep, FifoInv, Types
<1>2. Types'
  BY DEF Waits, FifoInv, Types, Places, Asleep
<1>3. Carried'
  BY DEF Waits, FifoInv, Carried
<1>4. Called'
  BY DEF Waits, FifoInv, Called, Types, Procs
<1>5. Ends'
  <2>1. EndCounted(named, Readers, at', numReaders)
    BY <1>1, SameEnd DEF FifoInv, Ends, Procs
  <2>2. EndCounted(named, Writers, at', numWriters)
    BY <1>1, SameEnd DEF FifoInv, Ends, Procs
  <2> QED
    BY <2>1, <2>2 DEF Ends, Waits
<1>6. OpenAt(Readers, at') = OpenAt(Readers, at) /\ OpenAt(Writers, at') = OpenAt(Writers, at)
  BY <1>1 DEF OpenAt, Procs
<1>7. StreamStep
  BY <1>6, Mapped DEF StreamStep, Waits
<1> QED
  BY <1>2, <1>3, <1>4, <1>5, <1>7 DEF FifoInv

(* The end of a call that has moved bytes, or none.                        *)
LEMMA StepReturn ==
  ASSUME FifoInv, NEW p \in Procs, at[p] \in Asleep, NEW what \in {"nothing", "ended", "broken"},
         Return(p, what), UNCHANGED <<named, numReaders, numWriters>>,
         RingType(ring'), sent' \in Nat, got' \in Seq(Nat), Carried'
  PROVE  /\ FifoInv' /\ result' = [result EXCEPT ![p] = what]
         /\ OpenAt(Readers, at') = OpenAt(Readers, at) /\ OpenAt(Writers, at') = OpenAt(Writers, at)
<1>1. \A q \in Procs : /\ at'[q] \in {"new", "closed"} <=> at[q] \in {"new", "closed"}
                       /\ at'[q] \in {"idle", "test", "block", "sleep", "ready"}
                            <=> at[q] \in {"idle", "test", "block", "sleep", "ready"}
  BY DEF Return, Goto, Asleep, FifoInv, Types
<1>2. Types'
  BY DEF Return, Goto, FifoInv, Types, Places
<1>3. Called'
  BY DEF Return, FifoInv, Called, Types
<1>4. Ends'
  <2>1. EndCounted(named, Readers, at', numReaders)
    BY <1>1, SameEnd DEF FifoInv, Ends, Procs
  <2>2. EndCounted(named, Writers, at', numWriters)
    BY <1>1, SameEnd DEF FifoInv, Ends, Procs
  <2> QED
    BY <2>1, <2>2 DEF Ends
<1>5. OpenAt(Readers, at') = OpenAt(Readers, at) /\ OpenAt(Writers, at') = OpenAt(Writers, at)
  BY <1>1 DEF OpenAt, Procs
<1> QED
  BY <1>2, <1>3, <1>4, <1>5 DEF FifoInv, Return

(* A call that returns without having moved a byte.                        *)
LEMMA StepNothing ==
  ASSUME FifoInv, NEW p \in Procs, at[p] \in Asleep, Return(p, "nothing"),
         UNCHANGED <<named, numReaders, numWriters, ring, sent, got>>
  PROVE  FifoInv' /\ StreamStep
<1>1. RingType(ring') /\ sent' \in Nat /\ got' \in Seq(Nat) /\ Carried'
  BY DEF FifoInv, Types, Carried
<1>2. /\ FifoInv' /\ result' = [result EXCEPT ![p] = "nothing"]
      /\ OpenAt(Readers, at') = OpenAt(Readers, at) /\ OpenAt(Writers, at') = OpenAt(Writers, at)
  BY <1>1, StepReturn
<1>3. Pipe!Fail(p) /\ UNCHANGED <<[i \in 1..sent |-> i], got, {q \in Readers : Open(q)},
                                  {q \in Writers : Open(q)}>>
  BY <1>2, Mapped DEF Pipe!Fail
<1>4. Pipe!Next
  BY <1>3 DEF Pipe!Next
<1> QED
  BY <1>2, <1>4 DEF StreamStep

(* fifo_pread after the sleep.                                             *)
LEMMA StepRead ==
  ASSUME Capacity \in Nat \ {0}, FifoInv, NEW p \in Procs, Read(p)
  PROVE  FifoInv' /\ StreamStep
<1> DEFINE g == Len(got)
<1>1. /\ at[p] = "ready" /\ at[p] \in Asleep /\ p \in Readers /\ count[p] \in Nat \ {0} /\ op[p] = "read"
      /\ UNCHANGED <<named, numReaders, numWriters, calls>>
  BY DEF Read, fileVars, FifoInv, Called, Types, Asleep
<1>2. /\ g \in Nat /\ sent \in Nat /\ RingType(ring) /\ Carries(ring, g, sent) /\ got = Bytes1To(g)
      /\ got \in Seq(Nat)
  BY DEF FifoInv, Types, Carried, Bytes1To
<1>3. p \in OpenAt(Readers, at)
  BY <1>1 DEF OpenAt
<1>4. CASE ~IsEmpty(ring)
  <2> DEFINE k == ReadCount(ring, count[p])
  <2>1. /\ got' = got \o Bytes(ring, count[p]) /\ ring' = AfterRead(ring, count[p])
        /\ Return(p, "nothing") /\ UNCHANGED sent
    BY <1>4 DEF Read
  <2>2. /\ k \in 1..(sent - g) /\ Bytes(ring, count[p]) = [i \in 1..k |-> g + i]
        /\ RingType(ring') /\ Carries(ring', g + k, sent)
    <3> DEFINE n == count[p]
               d == AfterRead(ring, n)
    <3>1. n \in Nat \ {0} /\ ring' = d
      BY <1>1, <2>1
    <3> HIDE DEF g, n
    <3>2. /\ ReadCount(ring, n) \in 1..(sent - g)
          /\ Bytes(ring, n) = [i \in 1..ReadCount(ring, n) |-> g + i]
          /\ RingType(AfterRead(ring, n)) /\ Carries(AfterRead(ring, n), g + ReadCount(ring, n), sent)
      <4>1. Reads(ring, g, sent, n)
        BY <1>2, <1>4, <3>1, RingRead
      <4> QED
        BY <4>1 DEF Reads
    <3>3. RingType(d) /\ Carries(d, g + ReadCount(ring, n), sent)
      BY <3>2
    <3> HIDE DEF d
    <3>4. RingType(ring') /\ Carries(ring', g + ReadCount(ring, n), sent)
      BY <3>1, <3>3
    <3> QED
      BY <3>2, <3>4 DEF n
  <2> HIDE DEF g, k
  <2>3. g \in Nat /\ k \in Nat \ {0} /\ g + k \in Nat /\ g + k <= sent
    BY <1>2, <2>2
  <2>4. got' = Bytes1To(g + k)
    <3>1. got' = Bytes1To(g) \o [i \in 1..k |-> g + i]
      BY <1>2, <2>1, <2>2
    <3>2. k \in Nat
      BY <2>3
    <3>3. Bytes1To(g) \o [i \in 1..k |-> g + i] = Bytes1To(g + k)
      BY <2>3, <3>2, Consecutive
    <3> QED
      BY <3>1, <3>3
  <2>5. got' \in Seq(Nat) /\ Len(got') = g + k /\ got' = SubSeq(Bytes1To(sent), 1, g + k)
    BY <1>2, <2>3, <2>4, Consecutive
  <2>6. Carried'
    BY <2>1, <2>2, <2>4, <2>5 DEF Carried, Bytes1To
  <2>7. /\ FifoInv' /\ result' = [result EXCEPT ![p] = "nothing"]
        /\ OpenAt(Readers, at') = OpenAt(Readers, at) /\ OpenAt(Writers, at') = OpenAt(Writers, at)
    BY <1>1, <1>2, <2>1, <2>2, <2>5, <2>6, StepReturn
  <2>8. Len(got) = g /\ Len([i \in 1..sent |-> i]) = sent
    <3>1. Len(Bytes1To(sent)) = sent
      BY <1>2, Consecutive
    <3> QED
      BY <3>1 DEF g, Bytes1To
  <2>9. Pipe!Receive(p)
    <3>1. p \in {q \in Readers : Open(q)}
      BY <1>3, Mapped
    <3>2. Len(got') > Len(got) /\ Len(got') <= Len([i \in 1..sent |-> i])
      <4> DEFINE held == Len([i \in 1..sent |-> i])
                 now == Len(got')
      <4>1. now = g + k /\ held = sent /\ Len(got) = g
        BY <2>5, <2>8
      <4> HIDE DEF held, now
      <4>2. now > Len(got) /\ now <= held
        BY <1>2, <2>3, <4>1
      <4> QED
        BY <4>2 DEF held, now
    <3>3. got' = SubSeq([i \in 1..sent |-> i], 1, Len(got'))
      BY <2>5 DEF Bytes1To
    <3> QED
      BY <2>7, <3>1, <3>2, <3>3 DEF Pipe!Receive
  <2>10. UNCHANGED <<[i \in 1..sent |-> i], {q \in Readers : Open(q)}, {q \in Writers : Open(q)}>>
    BY <2>1, <2>7, Mapped
  <2>11. Pipe!Next
    BY <2>9, <2>10 DEF Pipe!Next
  <2> QED
    BY <2>7, <2>11 DEF StreamStep
<1>5. CASE IsEmpty(ring) /\ numWriters = 0
  <2>1. Return(p, "ended") /\ UNCHANGED <<ring, sent, got>>
    BY <1>5 DEF Read
  <2>2. RingType(ring') /\ sent' \in Nat /\ got' \in Seq(Nat) /\ Carried'
    BY <2>1 DEF FifoInv, Types, Carried
  <2>3. /\ FifoInv' /\ result' = [result EXCEPT ![p] = "ended"]
        /\ OpenAt(Readers, at') = OpenAt(Readers, at) /\ OpenAt(Writers, at') = OpenAt(Writers, at)
    BY <1>1, <2>1, <2>2, StepReturn
  <2>4. OpenAt(Writers, at) = {}
    BY <1>5, NobodyLeft DEF FifoInv, Ends, Types
  <2>5. got = Bytes1To(sent)
    <3>1. Length(ring) = 0
      BY <1>2, <1>5, RingIndices
    <3>2. g = sent
      BY <1>2, <3>1 DEF Carries
    <3> QED
      BY <1>2, <3>2
  <2>6. Pipe!End(p)
    BY <1>3, <2>3, <2>4, <2>5, Mapped DEF Pipe!End
  <2>7. UNCHANGED <<[i \in 1..sent |-> i], got, {q \in Readers : Open(q)}, {q \in Writers : Open(q)}>>
    BY <2>1, <2>3, Mapped
  <2>8. Pipe!Next
    BY <2>6, <2>7 DEF Pipe!Next
  <2> QED
    BY <2>3, <2>8 DEF StreamStep
<1>6. CASE IsEmpty(ring) /\ numWriters # 0
  <2>1. Again(p)
    BY <1>6 DEF Read
  <2>2. PICK to \in {"test", "block"} : at' = [at EXCEPT ![p] = to]
    BY <2>1 DEF Again, GotoBlock, Goto
  <2>3. Waits(p, to)
    BY <1>1, <2>1, <2>2 DEF Again, Waits, Asleep
  <2> QED
    BY <2>3, StepWaits
<1> QED
  BY <1>4, <1>5, <1>6

(* fifo_pwrite after the sleep.                                            *)
LEMMA StepWrite ==
  ASSUME Capacity \in Nat \ {0}, FifoInv, NEW p \in Procs, Write(p)
  PROVE  FifoInv' /\ StreamStep
<1> DEFINE g == Len(got)
<1>1. /\ at[p] = "ready" /\ at[p] \in Asleep /\ p \in Writers /\ count[p] \in Nat \ {0} /\ op[p] = "write"
      /\ UNCHANGED <<named, numReaders, numWriters, calls>>
  BY DEF Write, fileVars, FifoInv, Called, Types, Asleep
<1>2. /\ g \in Nat /\ sent \in Nat /\ RingType(ring) /\ Carries(ring, g, sent) /\ got = Bytes1To(g)
      /\ got \in Seq(Nat)
  BY DEF FifoInv, Types, Carried, Bytes1To
<1>3. p \in OpenAt(Writers, at)
  BY <1>1 DEF OpenAt
<1>4. CASE numReaders # 0 /\ ~IsFull(ring)
  <2> DEFINE n == count[p]
             k == WriteCount(ring, n)
             bytes == [i \in 1..n |-> sent + i]
  <2>1. /\ ring' = AfterWrite(ring, bytes) /\ sent' = sent + k
        /\ Return(p, "nothing") /\ UNCHANGED got
    BY <1>4 DEF Write
  <2>2. /\ k \in 1..(Capacity - 1 - (sent - g))
        /\ RingType(ring') /\ Carries(ring', g, sent + k)
    BY <1>1, <1>2, <1>4, <2>1, RingWrite
  <2>3. Len(got) = g /\ Length(ring) = sent - g /\ Length(ring) \in 0..(Capacity - 1)
    BY <1>2, RingIndices DEF Carries
  <2> HIDE DEF g, k, n, bytes
  <2>4. k \in Nat \ {0} /\ sent + k \in Nat /\ sent + k <= g + (Capacity - 1)
    BY <1>2, <2>2, <2>3
  <2>5. Carried' /\ got' \in Seq(Nat)
    BY <1>2, <2>1, <2>2, <2>3 DEF Carried, Bytes1To
  <2>6. /\ FifoInv' /\ result' = [result EXCEPT ![p] = "nothing"]
        /\ OpenAt(Readers, at') = OpenAt(Readers, at) /\ OpenAt(Writers, at') = OpenAt(Writers, at)
    BY <1>1, <2>1, <2>2, <2>4, <2>5, StepReturn
  <2>7. /\ Len(Bytes1To(sent)) = sent /\ Len(Bytes1To(sent')) = sent'
        /\ SubSeq(Bytes1To(sent'), 1, sent) = Bytes1To(sent)
    <3> DEFINE to == sent'
    <3>1. sent \in Nat /\ to \in Nat /\ sent <= to
      BY <1>2, <2>1, <2>4
    <3> HIDE DEF to
    <3>2. Len(Bytes1To(sent)) = sent /\ Len(Bytes1To(to)) = to
      BY <3>1, Consecutive
    <3>3. SubSeq(Bytes1To(to), 1, sent) = Bytes1To(sent)
      BY <3>1, Consecutive
    <3> QED
      BY <3>2, <3>3 DEF to
  <2>8. sent' > sent /\ sent' <= Len(got) + (Capacity - 1)
    BY <1>2, <2>1, <2>3, <2>4
  <2>9. Pipe!Send(p)
    BY <1>3, <2>6, <2>7, <2>8, Mapped DEF Pipe!Send
  <2>10. UNCHANGED <<got, {q \in Readers : Open(q)}, {q \in Writers : Open(q)}>>
    BY <2>1, <2>6, Mapped
  <2>11. Pipe!Next
    BY <2>9, <2>10 DEF Pipe!Next
  <2> QED
    BY <2>6, <2>11 DEF StreamStep
<1>5. CASE numReaders = 0
  <2>1. Return(p, "broken") /\ UNCHANGED <<ring, sent, got>>
    BY <1>5 DEF Write
  <2>2. RingType(ring') /\ sent' \in Nat /\ got' \in Seq(Nat) /\ Carried'
    BY <2>1 DEF FifoInv, Types, Carried
  <2>3. /\ FifoInv' /\ result' = [result EXCEPT ![p] = "broken"]
        /\ OpenAt(Readers, at') = OpenAt(Readers, at) /\ OpenAt(Writers, at') = OpenAt(Writers, at)
    BY <1>1, <2>1, <2>2, StepReturn
  <2>4. OpenAt(Readers, at) = {}
    BY <1>5, NobodyLeft DEF FifoInv, Ends, Types
  <2>5. Pipe!Break(p)
    BY <1>3, <2>3, <2>4, Mapped DEF Pipe!Break
  <2>6. UNCHANGED <<[i \in 1..sent |-> i], got, {q \in Readers : Open(q)}, {q \in Writers : Open(q)}>>
    BY <2>1, <2>3, Mapped
  <2>7. Pipe!Next
    BY <2>5, <2>6 DEF Pipe!Next
  <2> QED
    BY <2>3, <2>7 DEF StreamStep
<1>6. CASE numReaders # 0 /\ IsFull(ring)
  <2>1. Again(p)
    BY <1>6 DEF Write
  <2>2. PICK to \in {"test", "block"} : at' = [at EXCEPT ![p] = to]
    BY <2>1 DEF Again, GotoBlock, Goto
  <2>3. Waits(p, to)
    BY <1>1, <2>1, <2>2 DEF Again, Waits, Asleep
  <2> QED
    BY <2>3, StepWaits
<1> QED
  BY <1>4, <1>5, <1>6

(* A process comes to an end or leaves it.                                 *)
LEMMA EndGains ==
  ASSUME NEW side, NEW where, NEW num, EndCounted(TRUE, side, where, num), NEW p \in side,
         where[p] = "new", NEW after, after[p] \notin {"new", "closed"},
         \A q \in side \ {p} : after[q] = where[q]
  PROVE  EndCounted(TRUE, side, after, num + 1)
<1>1. Inside(side, after) = Inside(side, where) \cup {p} /\ p \notin Inside(side, where)
  BY DEF Inside
<1>2. IsFiniteSet(Inside(side, where)) /\ num = Cardinality(Inside(side, where)) /\ num \in Nat
  BY DEF EndCounted
<1>3. /\ IsFiniteSet(Inside(side, where) \cup {p})
      /\ Cardinality(Inside(side, where) \cup {p}) = num + 1
  BY <1>1, <1>2, FS_AddElement
<1> QED
  BY <1>1, <1>2, <1>3 DEF EndCounted

(* The last of those that share an end of a pipe, or anyone at an end of a *)
(* named FIFO.                                                             *)
LEMMA EndLoses ==
  ASSUME NEW isNamed \in BOOLEAN, NEW side, NEW where, NEW num, EndCounted(isNamed, side, where, num),
         NEW p \in side, where[p] = "idle", NEW after, after[p] = "closed",
         \A q \in side \ {p} : after[q] = where[q],
         NEW last \in BOOLEAN, last = (isNamed \/ \A q \in side \ {p} : where[q] = "closed")
  PROVE  EndCounted(isNamed, side, after, num - (IF last THEN 1 ELSE 0))
<1>1. Inside(side, after) = Inside(side, where) \ {p} /\ p \in Inside(side, where)
  BY DEF Inside
<1>2. CASE isNamed
  <2>1. IsFiniteSet(Inside(side, where)) /\ num = Cardinality(Inside(side, where)) /\ num \in Nat
    BY <1>2 DEF EndCounted
  <2>2. /\ IsFiniteSet(Inside(side, after)) /\ Cardinality(Inside(side, after)) = num - 1
    BY <1>1, <2>1, FS_RemoveElement
  <2>3. num # 0
    BY <1>1, <2>1, FS_EmptySet
  <2>4. num - (IF last THEN 1 ELSE 0) = num - 1 /\ num - 1 \in Nat
    <3>1. last
      BY <1>2
    <3>2. (IF last THEN 1 ELSE 0) = 1
      BY <3>1
    <3>3. num - 1 \in Nat
      BY <2>1, <2>3
    <3> QED
      BY <3>2, <3>3
  <2> QED
    BY <1>2, <2>2, <2>4 DEF EndCounted
<1>3. CASE ~isNamed
  <2>1. num = 1
    BY <1>1, <1>3 DEF EndCounted
  <2>2. ASSUME last PROVE Inside(side, after) = {}
    BY <1>1, <1>3, <2>2 DEF Inside
  <2>3. num - (IF last THEN 1 ELSE 0) = IF last THEN 0 ELSE 1
    BY <2>1
  <2> QED
    BY <1>3, <2>2, <2>3 DEF EndCounted
<1> QED
  BY <1>2, <1>3

(* fifo_open up to its wait.                                               *)
LEMMA StepCallOpen ==
  ASSUME FifoInv, NEW p \in Procs, CallOpen(p)
  PROVE  FifoInv' /\ StreamStep
<1>1. /\ named /\ at[p] = "new" /\ op' = [op EXCEPT ![p] = "open"]
      /\ numReaders' = numReaders + (IF p \in Readers THEN 1 ELSE 0)
      /\ numWriters' = numWriters + (IF p \in Writers THEN 1 ELSE 0)
      /\ UNCHANGED <<named, ring, count, calls, sent, got, result>>
  BY DEF CallOpen
<1>2. PICK to \in {"test", "block"} : at' = [at EXCEPT ![p] = to]
  BY DEF CallOpen, GotoBlock, Goto
<1>3. at'[p] = to /\ \A q \in Procs \ {p} : at'[q] = at[q]
  BY <1>2 DEF FifoInv, Types
<1>4. Types'
  BY <1>1, <1>2 DEF FifoInv, Types, Places, Asleep
<1>5. Carried'
  BY <1>1 DEF FifoInv, Carried
<1>6. Called'
  BY <1>1 DEF FifoInv, Called, Types
<1>7. ASSUME NEW side, side \subseteq Procs, NEW num, EndCounted(named, side, at, num)
      PROVE  EndCounted(named, side, at', num + (IF p \in side THEN 1 ELSE 0))
  <2>1. named = TRUE
    BY <1>1 DEF FifoInv, Types
  <2>2. CASE p \in side
    <3>1. EndCounted(TRUE, side, at', num + 1)
      BY <1>1, <1>3, <1>7, <2>1, <2>2, EndGains
    <3> QED
      BY <2>1, <2>2, <3>1
  <2>3. CASE p \notin side
    <3>1. EndCounted(named, side, at', num)
      BY <1>3, <1>7, <2>3, SameEnd
    <3>2. num + 0 = num
      BY <1>7 DEF EndCounted
    <3> QED
      BY <2>3, <3>1, <3>2
  <2> QED
    BY <2>2, <2>3
<1>8. Ends'
  <2>1. EndCounted(named, Readers, at', numReaders')
    BY <1>1, <1>7 DEF FifoInv, Ends, Procs
  <2>2. EndCounted(named, Writers, at', numWriters')
    BY <1>1, <1>7 DEF FifoInv, Ends, Procs
  <2> QED
    BY <1>1, <2>1, <2>2 DEF Ends
<1>9. ASSUME NEW side, side \subseteq Procs
      PROVE  OpenAt(side, at') = OpenAt(side, at) \/ OpenAt(side, at') = OpenAt(side, at) \cup {p}
  <2>1. CASE p \in side
    BY <1>1, <1>3, <1>9, <2>1 DEF OpenAt
  <2>2. CASE p \notin side
    BY <1>1, <1>3, <1>9, <2>2 DEF OpenAt
  <2> QED
    BY <2>1, <2>2
<1>10. Pipe!Join(p)
  BY <1>9, Mapped DEF Pipe!Join, Procs
<1>11. UNCHANGED <<[i \in 1..sent |-> i], got, result>>
  BY <1>1
<1>12. Pipe!Next
  BY <1>10, <1>11 DEF Pipe!Next
<1> QED
  BY <1>4, <1>5, <1>6, <1>8, <1>12 DEF FifoInv, StreamStep

(* A process stops being at its end: it closes the file, or its open has   *)
(* failed and left it counted.                                             *)
LEMMA StepLeaves ==
  ASSUME FifoInv, NEW p \in Procs, NEW to \in {"closed", "failed"}, at' = [at EXCEPT ![p] = to],
         UNCHANGED <<sent, got, result>>
  PROVE  StreamStep
<1>1. at'[p] = to /\ \A q \in Procs \ {p} : at'[q] = at[q]
  BY DEF FifoInv, Types
<1>2. ASSUME NEW side, side \subseteq Procs PROVE OpenAt(side, at') = OpenAt(side, at) \ {p}
  BY <1>1, <1>2 DEF OpenAt
<1>3. Pipe!Leave(p)
  BY <1>2, Mapped DEF Pipe!Leave, Procs
<1>4. UNCHANGED <<[i \in 1..sent |-> i], got, result>>
  OBVIOUS
<1>5. Pipe!Next
  BY <1>3, <1>4 DEF Pipe!Next
<1> QED
  BY <1>5 DEF StreamStep

(* An error ends the call.                                                 *)
LEMMA StepFail ==
  ASSUME FifoInv, NEW p \in Procs, at[p] \in Asleep, Fail(p),
         UNCHANGED <<named, numReaders, numWriters, ring, sent, got>>
  PROVE  FifoInv' /\ StreamStep
<1>1. CASE op[p] # "open"
  <2>1. Return(p, "nothing")
    BY <1>1 DEF Fail
  <2> QED
    BY <2>1, StepNothing
<1>2. CASE op[p] = "open"
  <2>1. /\ op' = [op EXCEPT ![p] = "none"] /\ at' = [at EXCEPT ![p] = "failed"]
        /\ UNCHANGED <<count, result>>
    BY <1>2 DEF Fail, Goto
  <2>2. \A q \in Procs : at'[q] \in {"new", "closed"} <=> at[q] \in {"new", "closed"}
    BY <2>1 DEF Asleep, FifoInv, Types
  <2>3. Types'
    BY <2>1 DEF FifoInv, Types, Places
  <2>4. Carried'
    BY DEF FifoInv, Carried
  <2>5. Called'
    BY <2>1 DEF FifoInv, Called, Types
  <2>6. Ends'
    <3>1. EndCounted(named, Readers, at', numReaders)
      BY <2>2, SameEnd DEF FifoInv, Ends, Procs
    <3>2. EndCounted(named, Writers, at', numWriters)
      BY <2>2, SameEnd DEF FifoInv, Ends, Procs
    <3> QED
      BY <3>1, <3>2 DEF Ends
  <2>7. StreamStep
    BY <2>1, StepLeaves
  <2> QED
    BY <2>3, <2>4, <2>5, <2>6, <2>7 DEF FifoInv
<1> QED
  BY <1>1, <1>2

(* file_close.                                                             *)
LEMMA StepClose ==
  ASSUME FifoInv, NEW p \in Procs, Close(p)
  PROVE  FifoInv' /\ StreamStep
<1>1. /\ at[p] = "idle" /\ at' = [at EXCEPT ![p] = "closed"]
      /\ numReaders' = numReaders - (IF LastOf(p, Readers) THEN 1 ELSE 0)
      /\ numWriters' = numWriters - (IF LastOf(p, Writers) THEN 1 ELSE 0)
      /\ UNCHANGED <<named, ring, op, count, calls, sent, got, result>>
  BY DEF Close, Goto
<1>2. at'[p] = "closed" /\ \A q \in Procs \ {p} : at'[q] = at[q]
  BY <1>1 DEF FifoInv, Types
<1>3. Types'
  BY <1>1 DEF FifoInv, Types, Places
<1>4. Carried' /\ Called'
  BY <1>1 DEF FifoInv, Carried, Called
<1>5. ASSUME NEW side, side \subseteq Procs, NEW num, EndCounted(named, side, at, num)
      PROVE  EndCounted(named, side, at', num - (IF LastOf(p, side) THEN 1 ELSE 0))
  <2>1. named \in BOOLEAN
    BY DEF FifoInv, Types
  <2>2. CASE p \in side
    <3> DEFINE last == named \/ \A q \in side \ {p} : at[q] = "closed"
    <3>1. last \in BOOLEAN /\ (LastOf(p, side) <=> last)
      BY <2>2 DEF LastOf
    <3>2. EndCounted(named, side, at', num - (IF last THEN 1 ELSE 0))
      BY <1>1, <1>2, <1>5, <2>1, <2>2, <3>1, EndLoses
    <3> HIDE DEF last
    <3> QED
      BY <3>1, <3>2
  <2>3. CASE p \notin side
    <3>1. EndCounted(named, side, at', num)
      BY <1>2, <1>5, <2>3, SameEnd
    <3>2. num - 0 = num /\ ~LastOf(p, side)
      BY <1>5, <2>3 DEF EndCounted, LastOf
    <3> QED
      BY <3>1, <3>2
  <2> QED
    BY <2>2, <2>3
<1>6. Ends'
  <2>1. EndCounted(named, Readers, at', numReaders')
    BY <1>1, <1>5 DEF FifoInv, Ends, Procs
  <2>2. EndCounted(named, Writers, at', numWriters')
    BY <1>1, <1>5 DEF FifoInv, Ends, Procs
  <2> QED
    BY <1>1, <2>1, <2>2 DEF Ends
<1>7. StreamStep
  BY <1>1, StepLeaves
<1> QED
  BY <1>3, <1>4, <1>6, <1>7 DEF FifoInv

(* Every step keeps the invariant and is one of the Stream, or nothing.    *)
LEMMA NextFifo ==
  ASSUME Capacity \in Nat \ {0}, FifoInv, [Next]_vars
  PROVE  FifoInv' /\ StreamStep
<1>1. CASE UNCHANGED vars
  <2>1. FifoInv'
    BY <1>1 DEF vars, fileVars, FifoInv, Types, Carried, Called, Ends
  <2>2. StreamStep
    BY <1>1, Mapped DEF vars, StreamStep
  <2> QED
    BY <2>1, <2>2
<1>2. CASE Next
  <2>1. PICK p \in Procs : InCall(p) \/ Interrupt(p) \/ Close(p) \/ CallOpen(p)
                           \/ \E n \in 1..MaxCount : Call(p, n)
    BY <1>2 DEF Next
  <2>2. ASSUME NEW n \in 1..MaxCount, Call(p, n) PROVE FifoInv' /\ StreamStep
    <3>1. PICK to \in {"test", "block"} : at' = [at EXCEPT ![p] = to]
      BY <2>2 DEF Call, GotoBlock, Goto
    <3>2. n \in Nat \ {0}
      OBVIOUS
    <3>3. Waits(p, to)
      BY <2>2, <3>1, <3>2 DEF Call, Waits, Asleep, fileVars
    <3> QED
      BY <3>3, StepWaits
  <2>3. CASE FileBlock(p)
    <3>1. CASE Ready(p)
      <4>1. Waits(p, "block")
        BY <2>3, <3>1 DEF FileBlock, Goto, Waits, Asleep, fileVars
      <4> QED
        BY <4>1, StepWaits
    <3>2. CASE ~Ready(p)
      <4>1. at[p] \in Asleep /\ Fail(p) /\ UNCHANGED <<named, numReaders, numWriters, ring, sent, got>>
        BY <2>3, <3>2 DEF FileBlock, Asleep, fileVars
      <4> QED
        BY <4>1, StepFail
    <3> QED
      BY <3>1, <3>2
  <2>4. CASE SchedBlock(p)
    <3>1. PICK to \in {"ready", "sleep"} : at' = [at EXCEPT ![p] = to]
      BY <2>4 DEF SchedBlock, Goto
    <3>2. Waits(p, to)
      BY <2>4, <3>1 DEF SchedBlock, Waits, Asleep, fileVars
    <3> QED
      BY <3>2, StepWaits
  <2>5. CASE Wake(p)
    <3>1. Waits(p, "ready")
      BY <2>5 DEF Wake, Goto, Waits, Asleep, fileVars
    <3> QED
      BY <3>1, StepWaits
  <2>6. CASE Interrupt(p)
    <3>1. at[p] \in Asleep /\ Fail(p) /\ UNCHANGED <<named, numReaders, numWriters, ring, sent, got>>
      BY <2>6 DEF Interrupt, Asleep, fileVars
    <3> QED
      BY <3>1, StepFail
  <2>7. CASE Opened(p)
    <3>1. /\ at[p] \in Asleep /\ Return(p, "nothing")
          /\ UNCHANGED <<named, numReaders, numWriters, ring, sent, got>>
      BY <2>7 DEF Opened, Asleep, fileVars
    <3> QED
      BY <3>1, StepNothing
  <2> QED
    BY <2>1, <2>2, <2>3, <2>4, <2>5, <2>6, <2>7, StepRead, StepWrite, StepClose, StepCallOpen DEF InCall
<1> QED
  BY <1>1, <1>2

(* fs/fifo.c implements the Stream: bytes come out once and in order, at   *)
(* most Capacity - 1 are on the way, a reader is told of the end only when *)
(* everything was read and all writers have gone, and a writer of a broken *)
(* pipe only when all readers have.                                        *)
THEOREM FifoImplementsStream ==
  ASSUME Capacity \in Nat \ {0}
  PROVE  Spec => ImplementsStream
<1>1. Init => FifoInv /\ Pipe!Init
  BY InitFifoInv
<1>2. FifoInv /\ [Next]_vars => FifoInv' /\ StreamStep
  BY NextFifo
<1> QED
  BY <1>1, <1>2, PTL DEF Spec, ImplementsStream, Pipe!Spec, StreamStep
-----------------------------------------------------------------------------
(* One direction of a connection: what was written, what was read, and in  *)
(* the buffer the bytes between.                                           *)
Rings == [read : Slots, write : Slots, slots : [Slots -> Nat]]
Flow(b, s, g) ==
  /\ RingType(b) /\ s \in Nat /\ g \in Seq(Nat)
  /\ Carries(b, Len(g), s) /\ g = Bytes1To(Len(g))

Flows(bs, ss, gs) ==
  /\ bs \in [Clients -> [Sockets!Directions -> Rings]]
  /\ ss \in [Clients -> [Sockets!Directions -> Nat]]
  /\ gs \in [Clients -> [Sockets!Directions -> Seq(Nat)]]
  /\ \A c \in Clients, d \in Sockets!Directions : Flow(bs[c][d], ss[c][d], gs[c][d])

(* A client that waits is in the queue or was taken from it by one process *)
(* of the server.                                                          *)
Waiting(queue, num, states, where, whose) ==
  /\ queue \in Seq(Clients) /\ num = Len(queue)
  /\ \A i, j \in 1..Len(queue) : queue[i] = queue[j] => i = j
  /\ \A i \in 1..Len(queue) : states[queue[i]] = "pending"
  /\ \A s, t \in Servers :
       where[s] = "popped" /\ where[t] = "popped" /\ whose[s] = whose[t] => s = t
  /\ \A s \in Servers : where[s] = "popped" =>
       /\ whose[s] \in Clients /\ states[whose[s]] = "pending"
       /\ \A i \in 1..Len(queue) : queue[i] # whose[s]
  /\ \A c \in Clients : states[c] = "pending" =>
       \/ \E i \in 1..Len(queue) : queue[i] = c
       \/ \E s \in Servers : where[s] = "popped" /\ whose[s] = c

(* What a process is in the middle of: data is read and written for a      *)
(* connection only.                                                        *)
HasCall(where, what, n, whose) ==
  /\ where = "unborn" => what = "none"
  /\ where = "checked" => what = "write"
  /\ what \in {"read", "write"} => whose \in Clients /\ n \in Nat \ {0}

InCalls(where, what, n, whose) ==
  \A p \in Sockets!Procs : HasCall(where[p], what[p], n[p], whose[p])

SocketInv ==
  /\ Sockets!TypeOK
  /\ Flows(bufs, sockSent, sockGot)
  /\ Waiting(pending, numPending, state, sockAt, sock)
  /\ InCalls(sockAt, sockOp, sockCount, sock)
-----------------------------------------------------------------------------
(* The ring buffers of sockets are the ring buffers of FIFOs.              *)
LEMMA SameRing ==
  ASSUME NEW b, NEW n, NEW bytes
  PROVE  /\ Sockets!Fresh = Fresh
         /\ Sockets!IsEmpty(b) <=> IsEmpty(b)
         /\ Sockets!IsFull(b) <=> IsFull(b)
         /\ Sockets!Length(b) = Length(b)
         /\ Sockets!Bytes(b, n) = Bytes(b, n)
         /\ Sockets!AfterRead(b, n) = AfterRead(b, n)
         /\ Sockets!WriteCount(b, n) = WriteCount(b, n)
         /\ Sockets!AfterWrite(b, bytes) = AfterWrite(b, bytes)
<1>1. Sockets!Slots = Slots /\ Sockets!Never = Never
  BY DEF Sockets!Slots, Slots, Sockets!Never, Never
<1>2. Sockets!Fresh = Fresh
  BY <1>1 DEF Sockets!Fresh, Fresh, Sockets!RingBuf, RingBuf
<1>3. /\ Sockets!IsEmpty(b) <=> IsEmpty(b)
      /\ Sockets!IsFull(b) <=> IsFull(b)
      /\ Sockets!Length(b) = Length(b)
  BY DEF Sockets!IsEmpty, IsEmpty, Sockets!IsFull, IsFull, Sockets!Length, Length
<1>4. ASSUME NEW k PROVE Sockets!ReadCount(b, k) = ReadCount(b, k) /\ Sockets!WriteCount(b, k) = WriteCount(b, k)
  BY <1>3 DEF Sockets!ReadCount, ReadCount, Sockets!WriteCount, WriteCount, Sockets!AtMost, AtMost
<1>5. Sockets!Bytes(b, n) = Bytes(b, n) /\ Sockets!AfterRead(b, n) = AfterRead(b, n)
  BY <1>4 DEF Sockets!Bytes, Bytes, Sockets!AfterRead, AfterRead
<1>6. Sockets!AfterWrite(b, bytes) = AfterWrite(b, bytes)
  BY <1>1, <1>4 DEF Sockets!AfterWrite, AfterWrite, Sockets!RingBuf, RingBuf
<1> QED
  BY <1>2, <1>3, <1>4, <1>5, <1>6

(* ring_buf_read in one direction.                                         *)
LEMMA FlowRead ==
  ASSUME Capacity \in Nat \ {0}, NEW b, NEW s, NEW g, Flow(b, s, g), ~IsEmpty(b), NEW n \in Nat \ {0}
  PROVE  Flow(AfterRead(b, n), s, g \o Bytes(b, n))
<1> DEFINE k == ReadCount(b, n)
           m == Len(g)
           h == g \o Bytes(b, n)
<1>1. RingType(b) /\ s \in Nat /\ g \in Seq(Nat) /\ m \in Nat /\ Carries(b, m, s) /\ g = Bytes1To(m)
  BY DEF Flow
<1> HIDE DEF m, k
<1>2. /\ k \in 1..(s - m) /\ Bytes(b, n) = [i \in 1..k |-> m + i]
      /\ RingType(AfterRead(b, n)) /\ Carries(AfterRead(b, n), m + k, s)
  <2>1. Reads(b, m, s, n)
    BY <1>1, RingRead
  <2> QED
    BY <2>1, Zenon DEF k, Reads
<1>3. k \in Nat /\ m + k \in Nat
  BY <1>1, <1>2
<1>4. h = Bytes1To(m + k)
  <2>1. Bytes1To(m) \o [i \in 1..k |-> m + i] = Bytes1To(m + k)
    BY <1>1, <1>3, Consecutive, Zenon
  <2> QED
    BY <1>1, <1>2, <2>1, Zenon
<1>5. h \in Seq(Nat) /\ Len(h) = m + k
  BY <1>3, <1>4, Consecutive
<1> QED
  BY <1>1, <1>2, <1>4, <1>5 DEF Flow

(* ring_buf_write in one direction.                                        *)
LEMMA FlowWrite ==
  ASSUME Capacity \in Nat \ {0}, NEW b, NEW s, NEW g, Flow(b, s, g), ~IsFull(b), NEW n \in Nat \ {0},
         NEW bytes, bytes = [i \in 1..n |-> s + i]
  PROVE  Flow(AfterWrite(b, bytes), s + WriteCount(b, n), g)
<1> DEFINE k == WriteCount(b, n)
           m == Len(g)
<1>1. RingType(b) /\ s \in Nat /\ g \in Seq(Nat) /\ m \in Nat /\ Carries(b, m, s) /\ g = Bytes1To(m)
  BY DEF Flow
<1>2. /\ k \in 1..(Capacity - 1 - (s - m))
      /\ RingType(AfterWrite(b, bytes)) /\ Carries(AfterWrite(b, bytes), m, s + k)
  BY <1>1, RingWrite
<1> HIDE DEF k
<1>3. s + k \in Nat
  BY <1>1, <1>2
<1> QED
  BY <1>1, <1>2, <1>3 DEF Flow, k

(* What was read and what the buffer holds is what was written.            *)
LEMMA FlowExact ==
  ASSUME Capacity \in Nat \ {0}, NEW b, NEW s, NEW g, Flow(b, s, g)
  PROVE  g \o Bytes(b, Length(b)) = Bytes1To(s)
<1> DEFINE n == Length(b)
           m == Len(g)
           k == ReadCount(b, n)
<1>1. RingType(b) /\ s \in Nat /\ g \in Seq(Nat) /\ m \in Nat /\ Carries(b, m, s) /\ g = Bytes1To(m)
  BY DEF Flow
<1>2. n \in 0..(Capacity - 1) /\ n = s - m /\ (IsEmpty(b) <=> n = 0)
  BY <1>1, RingIndices DEF Carries
<1>3. Bytes(b, n) = [i \in 1..n |-> m + i]
  <2>1. CASE IsEmpty(b)
    <3>1. n = 0 /\ k = 0
      BY <1>2, <2>1 DEF ReadCount, AtMost
    <3>2. 1..k = {} /\ 1..n = {}
      BY <3>1
    <3> HIDE DEF n, k
    <3>3. Bytes(b, n) = [i \in 1..k |-> b.slots[(b.read + i - 1) % Capacity]]
      BY DEF Bytes, k
    <3> QED
      BY <3>2, <3>3
  <2>2. CASE ~IsEmpty(b)
    <3>1. n \in Nat \ {0}
      BY <1>2, <2>2
    <3>2. k = n
      BY <2>2, <3>1 DEF ReadCount, AtMost
    <3> HIDE DEF n, m, k
    <3>3. Reads(b, m, s, n)
      BY <1>1, <2>2, <3>1, RingRead
    <3> QED
      BY <3>2, <3>3, Zenon DEF k, Reads
  <2> QED
    BY <2>1, <2>2
<1> HIDE DEF n, m
<1>4. n \in Nat /\ m + n = s
  BY <1>1, <1>2
<1>5. Bytes1To(m) \o [i \in 1..n |-> m + i] = Bytes1To(m + n)
  BY <1>1, <1>4, Consecutive
<1> QED
  BY <1>1, <1>3, <1>4, <1>5 DEF n

(* A call changes one direction of one connection.                         *)
LEMMA FlowsAt ==
  ASSUME NEW bs, NEW ss, NEW gs, Flows(bs, ss, gs), NEW c \in Clients, NEW d \in Sockets!Directions,
         NEW b, NEW s, NEW g, Flow(b, s, g), NEW bs2, NEW ss2, NEW gs2,
         bs2 = [bs EXCEPT ![c][d] = b], ss2 = [ss EXCEPT ![c][d] = s], gs2 = [gs EXCEPT ![c][d] = g]
  PROVE  Flows(bs2, ss2, gs2)
<1>1. b \in Rings /\ s \in Nat /\ g \in Seq(Nat)
  BY DEF Flow, RingType, Rings
<1>2. bs2 \in [Clients -> [Sockets!Directions -> Rings]]
  BY <1>1 DEF Flows
<1>3. ss2 \in [Clients -> [Sockets!Directions -> Nat]]
  BY <1>1 DEF Flows
<1>4. gs2 \in [Clients -> [Sockets!Directions -> Seq(Nat)]]
  BY <1>1 DEF Flows
<1>5. ASSUME NEW e \in Clients, NEW f \in Sockets!Directions
      PROVE  Flow(bs2[e][f], ss2[e][f], gs2[e][f])
  <2>1. CASE e = c /\ f = d
    <3>1. bs2[e][f] = b
      BY <2>1 DEF Flows
    <3>2. ss2[e][f] = s
      BY <2>1 DEF Flows
    <3>3. gs2[e][f] = g
      BY <2>1 DEF Flows
    <3> QED
      BY <3>1, <3>2, <3>3
  <2>2. CASE ~(e = c /\ f = d)
    <3>1. bs2[e][f] = bs[e][f]
      BY <2>2 DEF Flows
    <3>2. ss2[e][f] = ss[e][f]
      BY <2>2 DEF Flows
    <3>3. gs2[e][f] = gs[e][f]
      BY <2>2 DEF Flows
    <3> QED
      BY <3>1, <3>2, <3>3 DEF Flows
  <2> QED
    BY <2>1, <2>2
<1> QED
  BY <1>2, <1>3, <1>4, <1>5 DEF Flows
(* The queue and who has taken from it are left alone.                     *)
LEMMA WaitingKept ==
  ASSUME NEW queue, NEW num, NEW states, NEW where, NEW whose, Waiting(queue, num, states, where, whose),
         NEW after, NEW whose2,
         \A s \in Servers : /\ after[s] = "popped" <=> where[s] = "popped"
                            /\ where[s] = "popped" => whose2[s] = whose[s]
  PROVE  Waiting(queue, num, states, after, whose2)
BY DEF Waiting

SockPlaces == {"unborn", "idle", "closed", "test", "block", "sleep", "ready", "popped",
               "accepted", "checked", "empty"}
SockOps == {"none", "connect", "accept", "read", "write"}

(* A process goes on in its call, begins one or comes back from it.        *)
LEMMA StepInside ==
  ASSUME SocketInv, NEW p \in Sockets!Procs, NEW to \in SockPlaces \ {"popped"}, sockAt[p] # "popped",
         NEW what \in SockOps, NEW n \in 0..MaxCount, HasCall(to, what, n, sock[p]),
         sockAt' = [sockAt EXCEPT ![p] = to], sockOp' = [sockOp EXCEPT ![p] = what],
         sockCount' = [sockCount EXCEPT ![p] = n],
         isOpen' \in [Clients -> [Sockets!Directions -> BOOLEAN]],
         UNCHANGED <<backlog, numPending, pending, state, bufs, sock, sockSent, sockGot>>
  PROVE  SocketInv'
<1>1. Sockets!TypeOK'
  BY DEF SocketInv, Sockets!TypeOK, SockPlaces, SockOps
<1>2. Flows(bufs, sockSent, sockGot)'
  BY DEF SocketInv
<1>3. ASSUME NEW q \in Sockets!Procs
      PROVE  /\ sockAt'[q] = IF q = p THEN to ELSE sockAt[q]
             /\ sockOp'[q] = IF q = p THEN what ELSE sockOp[q]
             /\ sockCount'[q] = IF q = p THEN n ELSE sockCount[q]
  BY DEF SocketInv, Sockets!TypeOK
<1>4. Waiting(pending, numPending, state, sockAt, sock)'
  <2>1. \A s \in Servers : sockAt'[s] = "popped" <=> sockAt[s] = "popped"
    BY <1>3 DEF Sockets!Procs
  <2>2. Waiting(pending, numPending, state, sockAt', sock)
    BY <2>1, WaitingKept DEF SocketInv
  <2> QED
    BY <2>2
<1>5. InCalls(sockAt, sockOp, sockCount, sock)'
  <2> SUFFICES ASSUME NEW q \in Sockets!Procs
               PROVE  HasCall(sockAt'[q], sockOp'[q], sockCount'[q], sock[q])
    BY DEF InCalls
  <2>1. CASE q = p
    BY <1>3, <2>1
  <2>2. CASE q # p
    BY <1>3, <2>2 DEF SocketInv, InCalls
  <2> QED
    BY <2>1, <2>2
<1> QED
  BY <1>1, <1>2, <1>4, <1>5 DEF SocketInv

(* It goes on in its call.                                                 *)
LEMMA StepMoves ==
  ASSUME SocketInv, NEW p \in Sockets!Procs, NEW to \in SockPlaces \ {"popped", "unborn"},
         sockAt[p] # "popped", to = "checked" => sockOp[p] = "write",
         sockAt' = [sockAt EXCEPT ![p] = to], UNCHANGED <<sockOp, sockCount>>,
         UNCHANGED <<backlog, numPending, pending, state, bufs, isOpen, sock, sockSent, sockGot>>
  PROVE  SocketInv'
<1>1. sockOp[p] \in SockOps /\ sockCount[p] \in 0..MaxCount
  BY DEF SocketInv, Sockets!TypeOK, SockOps
<1>2. /\ sockOp' = [sockOp EXCEPT ![p] = sockOp[p]]
      /\ sockCount' = [sockCount EXCEPT ![p] = sockCount[p]]
      /\ isOpen' \in [Clients -> [Sockets!Directions -> BOOLEAN]]
  BY DEF SocketInv, Sockets!TypeOK
<1>3. HasCall(to, sockOp[p], sockCount[p], sock[p])
  BY DEF SocketInv, InCalls, HasCall
<1> QED
  BY <1>1, <1>2, <1>3, StepInside

(* It sleeps, or tests first.                                              *)
LEMMA StepAgain ==
  ASSUME SocketInv, NEW p \in Sockets!Procs, sockAt[p] # "popped", NEW file, Sockets!Again(p, file),
         UNCHANGED <<backlog, numPending, pending, state, bufs, isOpen, sock, sockSent, sockGot>>
  PROVE  SocketInv'
<1>1. PICK to \in {"test", "block"} : sockAt' = [sockAt EXCEPT ![p] = to]
  BY DEF Sockets!Again, Sockets!GotoBlock, Sockets!Goto
<1>2. UNCHANGED <<sockOp, sockCount>>
  BY DEF Sockets!Again
<1>3. to \in SockPlaces \ {"popped", "unborn"} /\ to # "checked"
  BY DEF SockPlaces
<1> QED
  BY <1>1, <1>2, <1>3, StepMoves

(* It comes back from its call.                                            *)
LEMMA StepBack ==
  ASSUME MaxCount \in Nat, SocketInv, NEW p \in Sockets!Procs, sockAt[p] # "popped", Sockets!Return(p),
         UNCHANGED <<backlog, numPending, pending, state, bufs, isOpen, sock, sockSent, sockGot>>
  PROVE  SocketInv'
<1>1. /\ sockOp' = [sockOp EXCEPT ![p] = "none"] /\ sockCount' = [sockCount EXCEPT ![p] = 0]
      /\ sockAt' = [sockAt EXCEPT ![p] = "idle"]
  BY DEF Sockets!Return, Sockets!Goto
<1>2. "idle" \in SockPlaces \ {"popped"} /\ "none" \in SockOps
  BY DEF SockPlaces, SockOps
<1>3. 0 \in 0..MaxCount /\ isOpen' \in [Clients -> [Sockets!Directions -> BOOLEAN]]
  <2>2. 0 \in 0..MaxCount
    OBVIOUS
  <2> QED
    BY <2>2 DEF SocketInv, Sockets!TypeOK
<1>4. HasCall("idle", "none", 0, sock[p])
  BY DEF HasCall
<1> QED
  BY <1>1, <1>2, <1>3, <1>4, StepInside
(* unix_socket_connect, up to the wait: the client joins the queue.        *)
LEMMA StepConnect ==
  ASSUME SocketInv, NEW c \in Clients, Sockets!Connect(c)
  PROVE  SocketInv'
<1>1. /\ sockOp[c] = "none" /\ sockAt[c] = "idle" /\ state[c] = "opened"
      /\ numPending' = numPending + 1 /\ pending' = Append(pending, c)
      /\ state' = [state EXCEPT ![c] = "pending"] /\ sockOp' = [sockOp EXCEPT ![c] = "connect"]
      /\ UNCHANGED <<backlog, bufs, isOpen, sockSent, sockGot, sock, sockCount>>
  BY DEF Sockets!Connect, Sockets!dataVars
<1>2. PICK to \in {"test", "block"} : sockAt' = [sockAt EXCEPT ![c] = to]
  BY DEF Sockets!Connect, Sockets!GotoBlock, Sockets!Goto
<1>3. c \in Sockets!Procs
  BY DEF Sockets!Procs
<1>4. ASSUME NEW q \in Sockets!Procs
      PROVE  /\ sockAt'[q] = IF q = c THEN to ELSE sockAt[q]
             /\ sockOp'[q] = IF q = c THEN "connect" ELSE sockOp[q]
  BY <1>1, <1>2 DEF SocketInv, Sockets!TypeOK
<1>5. ASSUME NEW e \in Clients PROVE state'[e] = IF e = c THEN "pending" ELSE state[e]
  BY <1>1 DEF SocketInv, Sockets!TypeOK
<1>6. pending \in Seq(Clients) /\ numPending = Len(pending)
  BY DEF SocketInv, Waiting
<1>7. /\ pending' \in Seq(Clients) /\ Len(pending') = Len(pending) + 1
      /\ pending'[Len(pending) + 1] = c
      /\ \A i \in 1..Len(pending) : pending'[i] = pending[i] /\ pending[i] \in Clients
  BY <1>1, <1>6
<1>8. Sockets!TypeOK'
  <2>1. numPending' \in Nat
    BY <1>1 DEF SocketInv, Sockets!TypeOK
  <2>2. state' \in [Clients -> {"opened", "pending", "connected"}]
    BY <1>1 DEF SocketInv, Sockets!TypeOK
  <2>3. sockOp' \in [Sockets!Procs -> SockOps] /\ sockAt' \in [Sockets!Procs -> SockPlaces]
    BY <1>1, <1>2 DEF SocketInv, Sockets!TypeOK, SockOps, SockPlaces
  <2> QED
    BY <1>1, <1>7, <2>1, <2>2, <2>3 DEF SocketInv, Sockets!TypeOK, SockOps, SockPlaces
<1>9. Flows(bufs, sockSent, sockGot)'
  BY <1>1 DEF SocketInv
<1>10. ASSUME NEW s \in Servers
       PROVE  /\ sockAt'[s] = "popped" <=> sockAt[s] = "popped"
              /\ sockAt[s] = "popped" => sock[s] \in Clients /\ sock[s] # c
  <2>1. s \in Sockets!Procs
    BY DEF Sockets!Procs
  <2> QED
    BY <1>1, <1>4, <2>1 DEF SocketInv, Waiting
<1>11. \A i \in 1..Len(pending) : pending[i] # c
  BY <1>1 DEF SocketInv, Waiting
<1>12. ASSUME NEW i \in 1..Len(pending') PROVE i \in 1..Len(pending) \/ i = Len(pending) + 1
  BY <1>6, <1>7
<1>13. Len(pending) \in Nat
  BY <1>6
<1>14. Waiting(pending, numPending, state, sockAt, sock)'
  <2>1. \A i, j \in 1..Len(pending') : pending'[i] = pending'[j] => i = j
    BY <1>7, <1>11, <1>12 DEF SocketInv, Waiting
  <2>2. \A i \in 1..Len(pending') : state'[pending'[i]] = "pending"
    BY <1>5, <1>7, <1>12 DEF SocketInv, Waiting
  <2>3. \A s, t \in Servers :
          sockAt'[s] = "popped" /\ sockAt'[t] = "popped" /\ sock[s] = sock[t] => s = t
    BY <1>10 DEF SocketInv, Waiting
  <2>4. ASSUME NEW s \in Servers, sockAt'[s] = "popped"
        PROVE  /\ sock[s] \in Clients /\ state'[sock[s]] = "pending"
               /\ \A i \in 1..Len(pending') : pending'[i] # sock[s]
    BY <1>5, <1>7, <1>10, <1>12, <2>4 DEF SocketInv, Waiting
  <2>5. ASSUME NEW e \in Clients, state'[e] = "pending"
        PROVE  \/ \E i \in 1..Len(pending') : pending'[i] = e
               \/ \E s \in Servers : sockAt'[s] = "popped" /\ sock[s] = e
    <3>1. CASE e = c
      BY <1>7, <1>13, <3>1
    <3>2. CASE e # c
      <4>1. state[e] = "pending"
        BY <1>5, <2>5, <3>2
      <4>2. \/ \E i \in 1..Len(pending) : pending[i] = e
            \/ \E s \in Servers : sockAt[s] = "popped" /\ sock[s] = e
        BY <4>1 DEF SocketInv, Waiting
      <4> QED
        BY <1>7, <1>10, <1>13, <4>2
    <3> QED
      BY <3>1, <3>2
  <2> QED
    <3>1. pending' \in Seq(Clients) /\ numPending' = Len(pending') /\ sock' = sock
      BY <1>1, <1>6, <1>7
    <3> QED
      BY <2>1, <2>2, <2>3, <2>4, <2>5, <3>1, Zenon DEF Waiting
<1>15. InCalls(sockAt, sockOp, sockCount, sock)'
  <2> SUFFICES ASSUME NEW q \in Sockets!Procs
               PROVE  HasCall(sockAt'[q], sockOp'[q], sockCount[q], sock[q])
    BY <1>1 DEF InCalls
  <2>1. HasCall(sockAt[q], sockOp[q], sockCount[q], sock[q])
    BY DEF SocketInv, InCalls
  <2> QED
    BY <1>4, <2>1 DEF HasCall
<1> QED
  BY <1>8, <1>9, <1>14, <1>15 DEF SocketInv

(* unix_socket_accept takes the first client from the queue.               *)
LEMMA StepPop ==
  ASSUME SocketInv, NEW s \in Servers, sockAt[s] = "ready", sockOp[s] = "accept", pending # <<>>,
         sock' = [sock EXCEPT ![s] = Head(pending)], pending' = Tail(pending),
         numPending' = numPending - 1, sockAt' = [sockAt EXCEPT ![s] = "popped"],
         UNCHANGED <<backlog, state, bufs, isOpen, sockOp, sockCount, sockSent, sockGot>>
  PROVE  SocketInv'
<1> DEFINE c == Head(pending)
<1>1. s \in Sockets!Procs
  BY DEF Sockets!Procs
<1>2. pending \in Seq(Clients) /\ numPending = Len(pending)
  BY DEF SocketInv, Waiting
<1>3. /\ Len(pending) \in Nat \ {0} /\ pending' \in Seq(Clients) /\ Len(pending') = Len(pending) - 1
      /\ c \in Clients /\ c = pending[1]
      /\ \A i \in 1..Len(pending') : pending'[i] = pending[i + 1]
  BY <1>2
<1>4. ASSUME NEW q \in Sockets!Procs
      PROVE  /\ sockAt'[q] = IF q = s THEN "popped" ELSE sockAt[q]
             /\ sock'[q] = IF q = s THEN c ELSE sock[q]
  BY DEF SocketInv, Sockets!TypeOK
<1>5. \A i \in 1..Len(pending') : i + 1 \in 1..Len(pending) /\ i + 1 # 1
  BY <1>3
<1>6. 1 \in 1..Len(pending) /\ state[c] = "pending"
  BY <1>3 DEF SocketInv, Waiting
<1>7. Sockets!TypeOK'
  <2>1. numPending' \in Nat
    BY <1>2, <1>3
  <2>2. sock' \in [Sockets!Procs -> Clients \cup {Nobody}]
    BY <1>1, <1>3 DEF SocketInv, Sockets!TypeOK
  <2>3. sockAt' \in [Sockets!Procs -> SockPlaces]
    BY DEF SocketInv, Sockets!TypeOK, SockPlaces
  <2> QED
    BY <1>3, <2>1, <2>2, <2>3 DEF SocketInv, Sockets!TypeOK, SockPlaces
<1> HIDE DEF c
<1>8. ASSUME NEW t \in Servers, t # s
      PROVE  sockAt'[t] = sockAt[t] /\ sock'[t] = sock[t]
  BY <1>4, <1>8 DEF Sockets!Procs
<1>9. sockAt'[s] = "popped" /\ sock'[s] = c
  BY <1>1, <1>4
<1>10. Waiting(pending, numPending, state, sockAt, sock)'
  <2>1. ASSUME NEW i \in 1..Len(pending'), NEW j \in 1..Len(pending'), pending'[i] = pending'[j]
        PROVE  i = j
    <3>1. pending[i + 1] = pending[j + 1] /\ i + 1 \in 1..Len(pending) /\ j + 1 \in 1..Len(pending)
      BY <1>3, <1>5, <2>1
    <3>2. i + 1 = j + 1
      BY <3>1 DEF SocketInv, Waiting
    <3> QED
      BY <3>2
  <2>2. ASSUME NEW i \in 1..Len(pending') PROVE state[pending'[i]] = "pending"
    BY <1>3, <1>5 DEF SocketInv, Waiting
  <2>3. ASSUME NEW i \in 1..Len(pending') PROVE pending'[i] # c
    BY <1>3, <1>5, <1>6 DEF SocketInv, Waiting
  <2>4. ASSUME NEW t \in Servers, sockAt[t] = "popped" PROVE sock[t] # c
    BY <1>3, <1>6, <2>4 DEF SocketInv, Waiting
  <2>5. ASSUME NEW t \in Servers, NEW u \in Servers, sockAt'[t] = "popped", sockAt'[u] = "popped",
               sock'[t] = sock'[u]
        PROVE  t = u
    <3>1. CASE t # s /\ u # s
      BY <1>8, <2>5, <3>1 DEF SocketInv, Waiting
    <3>2. CASE t = s \/ u = s
      BY <1>8, <1>9, <2>4, <2>5, <3>2
    <3> QED
      BY <3>1, <3>2
  <2>6. ASSUME NEW t \in Servers, sockAt'[t] = "popped"
        PROVE  /\ sock'[t] \in Clients /\ state[sock'[t]] = "pending"
               /\ \A i \in 1..Len(pending') : pending'[i] # sock'[t]
    <3>1. CASE t = s
      BY <1>3, <1>6, <1>9, <2>3, <3>1
    <3>2. CASE t # s
      BY <1>3, <1>5, <1>8, <2>6, <3>2 DEF SocketInv, Waiting
    <3> QED
      BY <3>1, <3>2
  <2>7. ASSUME NEW e \in Clients, state[e] = "pending"
        PROVE  \/ \E i \in 1..Len(pending') : pending'[i] = e
               \/ \E t \in Servers : sockAt'[t] = "popped" /\ sock'[t] = e
    <3>1. CASE e = c
      BY <1>9, <3>1
    <3>2. CASE \E t \in Servers : sockAt[t] = "popped" /\ sock[t] = e
      <4>1. PICK t \in Servers : sockAt[t] = "popped" /\ sock[t] = e
        BY <3>2
      <4>2. t # s
        BY <4>1
      <4> QED
        BY <1>8, <4>1, <4>2
    <3>3. CASE e # c /\ \E i \in 1..Len(pending) : pending[i] = e
      <4>1. PICK i \in 1..Len(pending) : pending[i] = e
        BY <3>3
      <4>2. i - 1 \in 1..Len(pending') /\ (i - 1) + 1 = i
        BY <1>3, <3>3, <4>1
      <4>3. pending'[i - 1] = e
        BY <1>3, <4>1, <4>2
      <4> QED
        BY <4>2, <4>3
    <3> QED
      BY <2>7, <3>1, <3>2, <3>3 DEF SocketInv, Waiting
  <2>8. numPending' = Len(pending')
    BY <1>2, <1>3
  <2> QED
    BY <1>3, <2>1, <2>2, <2>5, <2>6, <2>7, <2>8 DEF Waiting
<1>11. Flows(bufs, sockSent, sockGot)'
  BY DEF SocketInv
<1>12. InCalls(sockAt, sockOp, sockCount, sock)'
  <2> SUFFICES ASSUME NEW q \in Sockets!Procs
               PROVE  HasCall(sockAt'[q], sockOp[q], sockCount[q], sock'[q])
    BY DEF InCalls
  <2>1. HasCall(sockAt[q], sockOp[q], sockCount[q], sock[q])
    BY DEF SocketInv, InCalls
  <2> QED
    BY <1>4, <2>1 DEF HasCall
<1> QED
  BY <1>7, <1>10, <1>11, <1>12 DEF SocketInv
(* It is connected, and waits no more.                                     *)
LEMMA StepAccepted ==
  ASSUME SocketInv, NEW s \in Servers, Sockets!AcceptConnect(s)
  PROVE  SocketInv'
<1> DEFINE c == sock[s]
<1>1. /\ sockAt[s] = "popped" /\ state' = [state EXCEPT ![c] = "connected"]
      /\ sockAt' = [sockAt EXCEPT ![s] = "accepted"]
      /\ UNCHANGED <<backlog, numPending, pending, bufs, isOpen, sockSent, sockGot, sock, sockOp, sockCount>>
  BY DEF Sockets!AcceptConnect, Sockets!Goto, Sockets!listenVars, Sockets!dataVars
<1>2. s \in Sockets!Procs
  BY DEF Sockets!Procs
<1>3. /\ c \in Clients /\ \A i \in 1..Len(pending) : pending[i] # c
      /\ \A t \in Servers : sockAt[t] = "popped" /\ sock[t] = c => t = s
  BY <1>1 DEF SocketInv, Waiting
<1> HIDE DEF c
<1>4. ASSUME NEW q \in Sockets!Procs PROVE sockAt'[q] = IF q = s THEN "accepted" ELSE sockAt[q]
  BY <1>1 DEF SocketInv, Sockets!TypeOK
<1>5. ASSUME NEW e \in Clients PROVE state'[e] = IF e = c THEN "connected" ELSE state[e]
  BY <1>1 DEF SocketInv, Sockets!TypeOK
<1>6. ASSUME NEW t \in Servers PROVE sockAt'[t] = "popped" <=> (sockAt[t] = "popped" /\ t # s)
  BY <1>4 DEF Sockets!Procs
<1>7. Sockets!TypeOK'
  <2>1. state' \in [Clients -> {"opened", "pending", "connected"}]
    BY <1>1 DEF SocketInv, Sockets!TypeOK
  <2>2. sockAt' \in [Sockets!Procs -> SockPlaces]
    BY <1>1 DEF SocketInv, Sockets!TypeOK, SockPlaces
  <2> QED
    BY <1>1, <2>1, <2>2 DEF SocketInv, Sockets!TypeOK, SockPlaces
<1>8. pending \in Seq(Clients) /\ numPending = Len(pending)
  BY DEF SocketInv, Waiting
<1>9. Waiting(pending, numPending, state, sockAt, sock)'
  <2>1. \A i, j \in 1..Len(pending) : pending[i] = pending[j] => i = j
    BY DEF SocketInv, Waiting
  <2>2. ASSUME NEW i \in 1..Len(pending) PROVE state'[pending[i]] = "pending"
    <3>1. pending[i] \in Clients /\ pending[i] # c /\ state[pending[i]] = "pending"
      BY <1>3, <1>8 DEF SocketInv, Waiting
    <3> QED
      BY <1>5, <3>1
  <2>3. \A t, u \in Servers :
          sockAt'[t] = "popped" /\ sockAt'[u] = "popped" /\ sock[t] = sock[u] => t = u
    BY <1>6 DEF SocketInv, Waiting
  <2>4. ASSUME NEW t \in Servers, sockAt'[t] = "popped"
        PROVE  /\ sock[t] \in Clients /\ state'[sock[t]] = "pending"
               /\ \A i \in 1..Len(pending) : pending[i] # sock[t]
    <3>1. sockAt[t] = "popped" /\ sock[t] # c
      BY <1>3, <1>6, <2>4
    <3>2. /\ sock[t] \in Clients /\ state[sock[t]] = "pending"
          /\ \A i \in 1..Len(pending) : pending[i] # sock[t]
      BY <3>1 DEF SocketInv, Waiting
    <3> QED
      BY <1>5, <3>1, <3>2
  <2>5. ASSUME NEW e \in Clients, state'[e] = "pending"
        PROVE  \/ \E i \in 1..Len(pending) : pending[i] = e
               \/ \E t \in Servers : sockAt'[t] = "popped" /\ sock[t] = e
    <3>1. e # c /\ state[e] = "pending"
      BY <1>5, <2>5
    <3>2. \/ \E i \in 1..Len(pending) : pending[i] = e
          \/ \E t \in Servers : sockAt[t] = "popped" /\ sock[t] = e
      BY <3>1 DEF SocketInv, Waiting
    <3>3. ASSUME NEW t \in Servers, sock[t] = e PROVE t # s
      BY <3>1, <3>3 DEF c
    <3> QED
      BY <1>6, <3>2, <3>3
  <2> QED
    BY <1>1, <1>8, <2>1, <2>2, <2>3, <2>4, <2>5 DEF Waiting
<1>10. Flows(bufs, sockSent, sockGot)'
  BY <1>1 DEF SocketInv
<1>11. InCalls(sockAt, sockOp, sockCount, sock)'
  <2> SUFFICES ASSUME NEW q \in Sockets!Procs
               PROVE  HasCall(sockAt'[q], sockOp[q], sockCount[q], sock[q])
    BY <1>1 DEF InCalls
  <2>1. HasCall(sockAt[q], sockOp[q], sockCount[q], sock[q])
    BY DEF SocketInv, InCalls
  <2> QED
    BY <1>4, <2>1 DEF HasCall
<1> QED
  BY <1>7, <1>9, <1>10, <1>11 DEF SocketInv

(* A process gets another file, or loses the one it has, while it is in no *)
(* call on it: the end of sys_accept4, and fork.                           *)
LEMMA StepFile ==
  ASSUME MaxCount \in Nat, SocketInv, NEW s \in Servers, sockAt[s] # "popped",
         NEW whose \in Clients \cup {Nobody}, sock' = [sock EXCEPT ![s] = whose],
         sockAt' = [sockAt EXCEPT ![s] = "idle"], sockOp' = [sockOp EXCEPT ![s] = "none"],
         NEW n \in 0..MaxCount, sockCount' = [sockCount EXCEPT ![s] = n],
         isOpen' \in [Clients -> [Sockets!Directions -> BOOLEAN]],
         UNCHANGED <<backlog, numPending, pending, state, bufs, sockSent, sockGot>>
  PROVE  SocketInv'
<1>1. s \in Sockets!Procs
  BY DEF Sockets!Procs
<1>2. ASSUME NEW q \in Sockets!Procs
      PROVE  /\ sockAt'[q] = IF q = s THEN "idle" ELSE sockAt[q]
             /\ sock'[q] = IF q = s THEN whose ELSE sock[q]
             /\ sockOp'[q] = IF q = s THEN "none" ELSE sockOp[q]
             /\ sockCount'[q] = IF q = s THEN n ELSE sockCount[q]
  BY DEF SocketInv, Sockets!TypeOK
<1>3. Sockets!TypeOK'
  <2>1. sock' \in [Sockets!Procs -> Clients \cup {Nobody}]
    BY DEF SocketInv, Sockets!TypeOK
  <2>2. sockAt' \in [Sockets!Procs -> SockPlaces] /\ sockOp' \in [Sockets!Procs -> SockOps]
    BY DEF SocketInv, Sockets!TypeOK, SockPlaces, SockOps
  <2>3. sockCount' \in [Sockets!Procs -> 0..MaxCount]
    BY DEF SocketInv, Sockets!TypeOK
  <2> QED
    BY <2>1, <2>2, <2>3 DEF SocketInv, Sockets!TypeOK, SockPlaces, SockOps
<1>4. Waiting(pending, numPending, state, sockAt, sock)'
  <2>1. ASSUME NEW t \in Servers
        PROVE  /\ sockAt'[t] = "popped" <=> sockAt[t] = "popped"
               /\ sockAt[t] = "popped" => sock'[t] = sock[t]
    <3>1. t \in Sockets!Procs
      BY DEF Sockets!Procs
    <3> QED
      BY <1>2, <3>1
  <2> DEFINE after == sockAt'
             whose2 == sock'
  <2>2. Waiting(pending, numPending, state, sockAt, sock)
    BY DEF SocketInv
  <2>3. \A t \in Servers : /\ after[t] = "popped" <=> sockAt[t] = "popped"
                           /\ sockAt[t] = "popped" => whose2[t] = sock[t]
    BY <2>1
  <2> HIDE DEF after, whose2
  <2>4. Waiting(pending, numPending, state, after, whose2)
    BY <2>2, <2>3, WaitingKept
  <2> QED
    BY <2>4 DEF after, whose2
<1>5. Flows(bufs, sockSent, sockGot)'
  BY DEF SocketInv
<1>6. InCalls(sockAt, sockOp, sockCount, sock)'
  <2> SUFFICES ASSUME NEW q \in Sockets!Procs
               PROVE  HasCall(sockAt'[q], sockOp'[q], sockCount'[q], sock'[q])
    BY DEF InCalls
  <2>1. HasCall(sockAt[q], sockOp[q], sockCount[q], sock[q])
    BY DEF SocketInv, InCalls
  <2> QED
    BY <1>2, <2>1 DEF HasCall
<1> QED
  BY <1>3, <1>4, <1>5, <1>6 DEF SocketInv

(* Flags of a connection are typed, cleared or not.                        *)
LEMMA HungUp ==
  ASSUME SocketInv, NEW c, Sockets!HangUp(c)
  PROVE  isOpen' \in [Clients -> [Sockets!Directions -> BOOLEAN]]
BY DEF SocketInv, Sockets!TypeOK, Sockets!HangUp

(* sys_accept4 gives the connection a file, or fails.                      *)
LEMMA StepAcceptOpen ==
  ASSUME MaxCount \in Nat, SocketInv, NEW s \in Servers, Sockets!AcceptOpen(s)
  PROVE  SocketInv'
<1>1. /\ sockAt[s] = "accepted" /\ Sockets!Return(s)
      /\ UNCHANGED <<backlog, numPending, pending, state, bufs, sockSent, sockGot>>
  BY DEF Sockets!AcceptOpen, Sockets!listenVars
<1>2. /\ sockOp' = [sockOp EXCEPT ![s] = "none"] /\ sockCount' = [sockCount EXCEPT ![s] = 0]
      /\ sockAt' = [sockAt EXCEPT ![s] = "idle"] /\ 0 \in 0..MaxCount
  BY <1>1 DEF Sockets!Return, Sockets!Goto
<1>3. s \in Sockets!Procs
  BY DEF Sockets!Procs
<1>4. isOpen' \in [Clients -> [Sockets!Directions -> BOOLEAN]]
  <2>1. CASE UNCHANGED isOpen
    BY <2>1 DEF SocketInv, Sockets!TypeOK
  <2> QED
    BY <2>1, HungUp DEF Sockets!AcceptOpen
<1>5. CASE UNCHANGED sock
  <2>1. sock' = [sock EXCEPT ![s] = sock[s]] /\ sock[s] \in Clients \cup {Nobody}
    BY <1>3, <1>5 DEF SocketInv, Sockets!TypeOK
  <2> QED
    BY <1>1, <1>2, <1>4, <2>1, StepFile
<1>6. CASE sock' = [sock EXCEPT ![s] = Nobody]
  <2>1. Nobody \in Clients \cup {Nobody}
    OBVIOUS
  <2> QED
    BY <1>1, <1>2, <1>4, <1>6, <2>1, StepFile
<1> QED
  BY <1>5, <1>6 DEF Sockets!AcceptOpen

(* fork in the server.                                                     *)
LEMMA StepFork ==
  ASSUME MaxCount \in Nat, SocketInv, NEW t \in Servers, NEW s \in Servers, Sockets!Fork(t, s)
  PROVE  SocketInv'
<1>1. /\ sockAt[s] = "unborn" /\ sock' = [sock EXCEPT ![s] = sock[t]]
      /\ sockAt' = [sockAt EXCEPT ![s] = "idle"]
      /\ UNCHANGED <<backlog, numPending, pending, state, bufs, isOpen, sockSent, sockGot, sockOp, sockCount>>
  BY DEF Sockets!Fork, Sockets!Goto, Sockets!listenVars, Sockets!dataVars
<1>2. s \in Sockets!Procs /\ t \in Sockets!Procs
  BY DEF Sockets!Procs
<1>3. sockOp[s] = "none" /\ sockCount[s] \in 0..MaxCount /\ sock[t] \in Clients \cup {Nobody}
  BY <1>1, <1>2 DEF SocketInv, Sockets!TypeOK, InCalls, HasCall
<1>4. /\ sockOp' = [sockOp EXCEPT ![s] = "none"] /\ sockCount' = [sockCount EXCEPT ![s] = sockCount[s]]
      /\ isOpen' \in [Clients -> [Sockets!Directions -> BOOLEAN]]
  BY <1>1, <1>2, <1>3 DEF SocketInv, Sockets!TypeOK
<1> QED
  BY <1>1, <1>3, <1>4, StepFile
(* Bytes have moved in one direction, and the process comes back.          *)
LEMMA StepMoved ==
  ASSUME MaxCount \in Nat, SocketInv, NEW p \in Sockets!Procs, sockAt[p] # "popped", Sockets!Return(p),
         Flows(bufs', sockSent', sockGot'),
         UNCHANGED <<backlog, numPending, pending, state, isOpen, sock>>
  PROVE  SocketInv'
<1>1. /\ sockOp' = [sockOp EXCEPT ![p] = "none"] /\ sockCount' = [sockCount EXCEPT ![p] = 0]
      /\ sockAt' = [sockAt EXCEPT ![p] = "idle"] /\ 0 \in 0..MaxCount
  BY DEF Sockets!Return, Sockets!Goto
<1>2. ASSUME NEW q \in Sockets!Procs
      PROVE  /\ sockAt'[q] = IF q = p THEN "idle" ELSE sockAt[q]
             /\ sockOp'[q] = IF q = p THEN "none" ELSE sockOp[q]
             /\ sockCount'[q] = IF q = p THEN 0 ELSE sockCount[q]
  BY <1>1 DEF SocketInv, Sockets!TypeOK
<1>3. Sockets!TypeOK'
  BY <1>1 DEF SocketInv, Sockets!TypeOK
<1>4. Waiting(pending, numPending, state, sockAt, sock)'
  <2>1. \A s \in Servers : sockAt'[s] = "popped" <=> sockAt[s] = "popped"
    BY <1>2 DEF Sockets!Procs
  <2>2. Waiting(pending, numPending, state, sockAt', sock)
    BY <2>1, WaitingKept DEF SocketInv
  <2> QED
    BY <2>2
<1>5. InCalls(sockAt, sockOp, sockCount, sock)'
  <2> SUFFICES ASSUME NEW q \in Sockets!Procs
               PROVE  HasCall(sockAt'[q], sockOp'[q], sockCount'[q], sock[q])
    BY DEF InCalls
  <2>1. HasCall(sockAt[q], sockOp[q], sockCount[q], sock[q])
    BY DEF SocketInv, InCalls
  <2> QED
    BY <1>2, <2>1 DEF HasCall
<1> QED
  BY <1>3, <1>4, <1>5 DEF SocketInv

(* unix_socket_pread, after the sleep.                                     *)
LEMMA StepSocketRead ==
  ASSUME Capacity \in Nat \ {0}, MaxCount \in Nat, SocketInv, NEW p \in Sockets!Procs, Sockets!Read(p)
  PROVE  SocketInv'
<1> DEFINE c == sock[p]
           d == Sockets!Incoming(p)
           n == sockCount[p]
           b == bufs[c][d]
<1>1. /\ sockAt[p] = "ready" /\ sockOp[p] = "read"
      /\ UNCHANGED <<backlog, numPending, pending, state, isOpen, sockSent, sock>>
  BY DEF Sockets!Read, Sockets!listenVars
<1>2. c \in Clients /\ n \in Nat \ {0} /\ d \in Sockets!Directions
  BY <1>1 DEF SocketInv, InCalls, HasCall, Sockets!Incoming, Sockets!Directions
<1>3. CASE IsEmpty(b)
  <2>1. Sockets!IsEmpty(Sockets!InBuf(p))
    BY <1>3, SameRing DEF Sockets!InBuf
  <2>2. sockAt' = [sockAt EXCEPT ![p] = "empty"] /\ UNCHANGED <<bufs, sockGot, sockOp, sockCount>>
    BY <2>1 DEF Sockets!Read, Sockets!Goto
  <2>3. "empty" \in SockPlaces \ {"popped", "unborn"} /\ "empty" # "checked"
    BY DEF SockPlaces
  <2> QED
    BY <1>1, <2>2, <2>3, StepMoves
<1>4. CASE ~IsEmpty(b)
  <2>1. ~Sockets!IsEmpty(Sockets!InBuf(p))
    BY <1>4, SameRing DEF Sockets!InBuf
  <2>2. /\ sockGot' = [sockGot EXCEPT ![c][d] = @ \o Sockets!Bytes(b, n)]
        /\ bufs' = [bufs EXCEPT ![c][d] = Sockets!AfterRead(@, n)]
        /\ Sockets!Return(p)
    BY <2>1 DEF Sockets!Read, Sockets!InBuf
  <2>3. Flow(b, sockSent[c][d], sockGot[c][d]) /\ Flows(bufs, sockSent, sockGot)
    BY <1>2 DEF SocketInv, Flows
  <2>4. Flow(AfterRead(b, n), sockSent[c][d], sockGot[c][d] \o Bytes(b, n))
    BY <1>2, <1>4, <2>3, FlowRead
  <2>5. Sockets!Bytes(b, n) = Bytes(b, n) /\ Sockets!AfterRead(b, n) = AfterRead(b, n)
    BY SameRing
  <2>6. sockGot' = [sockGot EXCEPT ![c][d] = sockGot[c][d] \o Bytes(b, n)]
    BY <2>2, <2>5
  <2>7. bufs' = [bufs EXCEPT ![c][d] = AfterRead(b, n)]
    BY <2>2, <2>5
  <2>8. sockSent' = [sockSent EXCEPT ![c][d] = sockSent[c][d]]
    BY <1>1, <1>2, <2>3 DEF Flows
  <2> HIDE DEF c, d, b, n
  <2>9. Flows(bufs', sockSent', sockGot')
    BY <1>2, <2>3, <2>4, <2>6, <2>7, <2>8, FlowsAt
  <2> QED
    BY <1>1, <2>2, <2>9, StepMoved
<1> QED
  BY <1>3, <1>4

(* unix_socket_pwrite, after the test.                                     *)
LEMMA StepSocketWrite ==
  ASSUME Capacity \in Nat \ {0}, MaxCount \in Nat, SocketInv, NEW p \in Sockets!Procs, Sockets!Write(p)
  PROVE  SocketInv'
<1> DEFINE c == sock[p]
           d == Sockets!Outgoing(p)
           n == sockCount[p]
           b == bufs[c][d]
<1>1. /\ sockAt[p] = "checked"
      /\ UNCHANGED <<backlog, numPending, pending, state, isOpen, sockGot, sock>>
  BY DEF Sockets!Write, Sockets!listenVars
<1>2. c \in Clients /\ n \in Nat \ {0} /\ d \in Sockets!Directions
  BY <1>1 DEF SocketInv, InCalls, HasCall, Sockets!Outgoing, Sockets!Directions
<1>3. CASE IsFull(b)
  <2>1. Sockets!IsFull(Sockets!OutBuf(p))
    BY <1>3, SameRing DEF Sockets!OutBuf
  <2>2. Sockets!Again(p, Sockets!FileOf(p)) /\ UNCHANGED <<bufs, sockSent>>
    BY <2>1 DEF Sockets!Write
  <2> QED
    BY <1>1, <2>2, StepAgain
<1>4. CASE ~IsFull(b)
  <2> DEFINE bytes == [i \in 1..n |-> sockSent[c][d] + i]
  <2>1. ~Sockets!IsFull(Sockets!OutBuf(p))
    BY <1>4, SameRing DEF Sockets!OutBuf
  <2>2. /\ bufs' = [bufs EXCEPT ![c][d] = Sockets!AfterWrite(@, bytes)]
        /\ sockSent' = [sockSent EXCEPT ![c][d] = @ + Sockets!WriteCount(b, n)]
        /\ Sockets!Return(p)
    BY <2>1 DEF Sockets!Write, Sockets!OutBuf
  <2>3. Flow(b, sockSent[c][d], sockGot[c][d]) /\ Flows(bufs, sockSent, sockGot)
    BY <1>2 DEF SocketInv, Flows
  <2>4. Flow(AfterWrite(b, bytes), sockSent[c][d] + WriteCount(b, n), sockGot[c][d])
    BY <1>2, <1>4, <2>3, FlowWrite
  <2>5. Sockets!AfterWrite(b, bytes) = AfterWrite(b, bytes) /\ Sockets!WriteCount(b, n) = WriteCount(b, n)
    BY SameRing
  <2>6. sockSent' = [sockSent EXCEPT ![c][d] = sockSent[c][d] + WriteCount(b, n)]
    BY <2>2, <2>5
  <2>7. bufs' = [bufs EXCEPT ![c][d] = AfterWrite(b, bytes)]
    BY <2>2, <2>5
  <2>8. sockGot' = [sockGot EXCEPT ![c][d] = sockGot[c][d]]
    BY <1>1, <1>2, <2>3 DEF Flows
  <2> HIDE DEF c, d, b, n, bytes
  <2>9. Flows(bufs', sockSent', sockGot')
    BY <1>2, <2>3, <2>4, <2>6, <2>7, <2>8, FlowsAt
  <2> QED
    BY <1>1, <2>2, <2>9, StepMoved
<1> QED
  BY <1>3, <1>4

(* A connection is hung up or shut down, and nothing else.                 *)
LEMMA StepShut ==
  ASSUME SocketInv, isOpen' \in [Clients -> [Sockets!Directions -> BOOLEAN]],
         backlog' \in Backlogs \cup {0},
         UNCHANGED <<numPending, pending, state, bufs, sock, sockOp, sockAt, sockCount, sockSent, sockGot>>
  PROVE  SocketInv'
<1>1. Sockets!TypeOK'
  BY DEF SocketInv, Sockets!TypeOK
<1> QED
  BY <1>1 DEF SocketInv
(* unix_socket_create: nothing was written, and nobody waits.              *)
LEMMA InitSocketInv ==
  ASSUME Capacity \in Nat \ {0}, MaxCount \in Nat, Sockets!Init
  PROVE  SocketInv
<1>1. Sockets!TypeOK
  BY DEF Sockets!Init, Sockets!TypeOK, Sockets!Procs
<1>2. Fresh = [read |-> 0, write |-> 0, slots |-> [i \in Slots |-> 0]] /\ 0 \in Slots
  BY DEF Fresh, RingBuf, Never, Slots
<1>3. Fresh \in Rings /\ Sockets!Fresh = Fresh
  BY <1>2, SameRing DEF Rings
<1>4. Flow(Fresh, 0, <<>>)
  <2>1. RingType(Fresh) /\ IsEmpty(Fresh)
    BY <1>2 DEF RingType, IsEmpty
  <2>2. Length(Fresh) = 0
    BY <2>1, RingIndices
  <2>3. Carries(Fresh, 0, 0)
    BY <2>2 DEF Carries
  <2>4. <<>> \in Seq(Nat) /\ Len(<<>>) = 0 /\ <<>> = Bytes1To(0)
    BY Consecutive
  <2> QED
    BY <2>1, <2>3, <2>4 DEF Flow
<1>5. Flows(bufs, sockSent, sockGot)
  <2>1. /\ bufs = [c \in Clients |-> [d \in Sockets!Directions |-> Fresh]]
        /\ sockSent = [c \in Clients |-> [d \in Sockets!Directions |-> 0]]
        /\ sockGot = [c \in Clients |-> [d \in Sockets!Directions |-> <<>>]]
    BY <1>3 DEF Sockets!Init
  <2>2. bufs \in [Clients -> [Sockets!Directions -> Rings]]
    BY <1>3, <2>1
  <2>3. /\ sockSent \in [Clients -> [Sockets!Directions -> Nat]]
        /\ sockGot \in [Clients -> [Sockets!Directions -> Seq(Nat)]]
    BY <2>1
  <2> QED
    BY <1>4, <2>1, <2>2, <2>3 DEF Flows
<1>6. Waiting(pending, numPending, state, sockAt, sock)
  <2>1. \A s \in Servers : sockAt[s] # "popped"
    BY DEF Sockets!Init, Sockets!Procs
  <2>2. pending = <<>> /\ numPending = 0 /\ \A c \in Clients : state[c] # "pending"
    BY DEF Sockets!Init
  <2> QED
    BY <2>1, <2>2 DEF Waiting
<1>7. InCalls(sockAt, sockOp, sockCount, sock)
  BY DEF Sockets!Init, InCalls, HasCall
<1> QED
  BY <1>1, <1>5, <1>6, <1>7 DEF SocketInv

(* Every step of a process keeps the invariant.                            *)
LEMMA NextSocket ==
  ASSUME Capacity \in Nat \ {0}, MaxCount \in Nat, SocketInv, [Sockets!Next]_Sockets!vars
  PROVE  SocketInv'
<1> USE DEF Sockets!listenVars, Sockets!dataVars
<1>1. CASE UNCHANGED Sockets!vars
  <2>1. /\ isOpen' \in [Clients -> [Sockets!Directions -> BOOLEAN]] /\ backlog' \in Backlogs \cup {0}
        /\ UNCHANGED <<numPending, pending, state, bufs, sock, sockOp, sockAt, sockCount, sockSent, sockGot>>
    BY <1>1 DEF Sockets!vars, SocketInv, Sockets!TypeOK
  <2> QED
    BY <2>1, StepShut
<1>2. ASSUME NEW b \in Backlogs, Sockets!Listen(b) PROVE SocketInv'
  <2>1. /\ isOpen' \in [Clients -> [Sockets!Directions -> BOOLEAN]] /\ backlog' \in Backlogs \cup {0}
        /\ UNCHANGED <<numPending, pending, state, bufs, sock, sockOp, sockAt, sockCount, sockSent, sockGot>>
    BY <1>2 DEF Sockets!Listen, SocketInv, Sockets!TypeOK
  <2> QED
    BY <2>1, StepShut
<1>3. ASSUME NEW p \in Sockets!Procs, Sockets!FileBlock(p) PROVE SocketInv'
  <2>1. sockAt[p] = "test" /\ "block" \in SockPlaces \ {"popped", "unborn"}
    BY <1>3 DEF Sockets!FileBlock, SockPlaces
  <2>2. CASE Sockets!Ready(p)
    BY <1>3, <2>1, <2>2, StepMoves DEF Sockets!FileBlock, Sockets!Goto
  <2>3. CASE ~Sockets!Ready(p)
    BY <1>3, <2>1, <2>3, StepBack DEF Sockets!FileBlock
  <2> QED
    BY <2>2, <2>3
<1>4. ASSUME NEW p \in Sockets!Procs, Sockets!SchedBlock(p) PROVE SocketInv'
  <2>1. PICK to \in {"ready", "sleep"} : sockAt' = [sockAt EXCEPT ![p] = to]
    BY <1>4 DEF Sockets!SchedBlock, Sockets!Goto
  <2>2. to \in SockPlaces \ {"popped", "unborn"} /\ to # "checked"
    BY DEF SockPlaces
  <2> QED
    BY <1>4, <2>1, <2>2, StepMoves DEF Sockets!SchedBlock
<1>5. ASSUME NEW p \in Sockets!Procs, Sockets!Wake(p) PROVE SocketInv'
  <2>1. "ready" \in SockPlaces \ {"popped", "unborn"}
    BY DEF SockPlaces
  <2> QED
    BY <1>5, <2>1, StepMoves DEF Sockets!Wake, Sockets!Goto
<1>6. ASSUME NEW p \in Sockets!Procs, Sockets!Interrupt(p) \/ Sockets!Connected(p) PROVE SocketInv'
  BY <1>6, StepBack DEF Sockets!Interrupt, Sockets!Connected
<1>7. ASSUME NEW s \in Servers, Sockets!AcceptPop(s) PROVE SocketInv'
  <2>1. s \in Sockets!Procs /\ sockAt[s] = "ready" /\ sockOp[s] = "accept"
    BY <1>7 DEF Sockets!AcceptPop, Sockets!Procs
  <2>2. CASE pending = <<>>
    BY <1>7, <2>1, <2>2, StepAgain DEF Sockets!AcceptPop
  <2>3. CASE pending # <<>>
    BY <1>7, <2>1, <2>3, StepPop DEF Sockets!AcceptPop, Sockets!Goto
  <2> QED
    BY <2>2, <2>3
<1>8. ASSUME NEW p \in Sockets!Procs, Sockets!ReadEnd(p) PROVE SocketInv'
  <2>1. sockAt[p] = "empty"
    BY <1>8 DEF Sockets!ReadEnd
  <2>2. CASE Sockets!OpenForReading(p)
    BY <1>8, <2>1, <2>2, StepAgain DEF Sockets!ReadEnd
  <2>3. CASE ~Sockets!OpenForReading(p)
    BY <1>8, <2>1, <2>3, StepBack DEF Sockets!ReadEnd
  <2> QED
    BY <2>2, <2>3
<1>9. ASSUME NEW p \in Sockets!Procs, Sockets!WriteCheck(p) PROVE SocketInv'
  <2>1. sockAt[p] = "ready" /\ sockOp[p] = "write" /\ "checked" \in SockPlaces \ {"popped", "unborn"}
    BY <1>9 DEF Sockets!WriteCheck, SockPlaces
  <2>2. CASE Sockets!Return(p)
    BY <1>9, <2>1, <2>2, StepBack DEF Sockets!WriteCheck
  <2>3. CASE Sockets!Goto(p, "checked") /\ UNCHANGED <<sockOp, sockCount>>
    BY <1>9, <2>1, <2>3, StepMoves DEF Sockets!WriteCheck, Sockets!Goto
  <2> QED
    BY <1>9, <2>2, <2>3 DEF Sockets!WriteCheck
<1>10. ASSUME NEW p \in Sockets!Procs, Sockets!Close(p) PROVE SocketInv'
  <2>1. /\ sockAt[p] = "idle" /\ sockOp[p] = "none" /\ sockAt' = [sockAt EXCEPT ![p] = "closed"]
        /\ UNCHANGED <<backlog, numPending, pending, state, bufs, sock, sockOp, sockCount, sockSent, sockGot>>
    BY <1>10 DEF Sockets!Close, Sockets!Goto
  <2>2. isOpen' \in [Clients -> [Sockets!Directions -> BOOLEAN]]
    <3>1. CASE UNCHANGED isOpen
      BY <3>1 DEF SocketInv, Sockets!TypeOK
    <3> QED
      BY <1>10, <3>1, HungUp DEF Sockets!Close
  <2>3. /\ sockOp' = [sockOp EXCEPT ![p] = "none"] /\ sockCount' = [sockCount EXCEPT ![p] = sockCount[p]]
        /\ sockCount[p] \in 0..MaxCount
    BY <2>1 DEF SocketInv, Sockets!TypeOK
  <2>4. "closed" \in SockPlaces \ {"popped"} /\ "none" \in SockOps
        /\ HasCall("closed", "none", sockCount[p], sock[p])
    BY DEF SockPlaces, SockOps, HasCall
  <2> QED
    BY <2>1, <2>2, <2>3, <2>4, StepInside
<1>11. ASSUME NEW p \in Sockets!Procs, Sockets!CallAccept(p) PROVE SocketInv'
  <2>1. PICK to \in {"test", "block"} : sockAt' = [sockAt EXCEPT ![p] = to]
    BY <1>11 DEF Sockets!CallAccept, Sockets!GotoBlock, Sockets!Goto
  <2>2. /\ sockAt[p] = "idle" /\ sockOp' = [sockOp EXCEPT ![p] = "accept"]
        /\ UNCHANGED <<backlog, numPending, pending, state, bufs, isOpen, sock, sockCount, sockSent, sockGot>>
    BY <1>11 DEF Sockets!CallAccept
  <2>3. /\ sockCount' = [sockCount EXCEPT ![p] = sockCount[p]] /\ sockCount[p] \in 0..MaxCount
        /\ isOpen' \in [Clients -> [Sockets!Directions -> BOOLEAN]]
    BY <2>2 DEF SocketInv, Sockets!TypeOK
  <2>4. to \in SockPlaces \ {"popped"} /\ "accept" \in SockOps
        /\ HasCall(to, "accept", sockCount[p], sock[p])
    BY DEF SockPlaces, SockOps, HasCall
  <2> QED
    BY <2>1, <2>2, <2>3, <2>4, StepInside
<1>12. ASSUME NEW p \in Sockets!Procs, NEW what \in {"read", "write"}, NEW n \in 1..MaxCount,
              Sockets!CallData(p, what, n)
       PROVE  SocketInv'
  <2>1. PICK to \in {"test", "block"} : sockAt' = [sockAt EXCEPT ![p] = to]
    BY <1>12 DEF Sockets!CallData, Sockets!GotoBlock, Sockets!Goto
  <2>2. /\ sockAt[p] = "idle" /\ sock[p] # Nobody /\ sockOp' = [sockOp EXCEPT ![p] = what]
        /\ sockCount' = [sockCount EXCEPT ![p] = n]
        /\ UNCHANGED <<backlog, numPending, pending, state, bufs, isOpen, sock, sockSent, sockGot>>
    BY <1>12 DEF Sockets!CallData, Sockets!IsConnected
  <2>3. isOpen' \in [Clients -> [Sockets!Directions -> BOOLEAN]] /\ sock[p] \in Clients
    BY <2>2 DEF SocketInv, Sockets!TypeOK
  <2>4. n \in 0..MaxCount /\ n \in Nat \ {0}
    OBVIOUS
  <2>5. to \in SockPlaces \ {"popped"} /\ what \in SockOps /\ HasCall(to, what, n, sock[p])
    BY <2>3, <2>4 DEF SockPlaces, SockOps, HasCall
  <2> QED
    BY <2>1, <2>2, <2>3, <2>4, <2>5, StepInside
<1>13. ASSUME NEW p \in Sockets!Procs, NEW d \in Sockets!Directions, Sockets!Shutdown(p, d)
       PROVE  SocketInv'
  <2>1. isOpen' \in [Clients -> [Sockets!Directions -> BOOLEAN]] /\ backlog' \in Backlogs \cup {0}
    BY <1>13 DEF Sockets!Shutdown, SocketInv, Sockets!TypeOK
  <2> QED
    BY <1>13, <2>1, StepShut DEF Sockets!Shutdown
<1>14. CASE Sockets!Next
  <2>1. CASE \E b \in Backlogs : Sockets!Listen(b)
    BY <1>2, <2>1
  <2>2. ASSUME NEW p \in Sockets!Procs, Sockets!InCall(p) PROVE SocketInv'
    BY <2>2, <1>3, <1>4, <1>5, <1>6, <1>7, <1>8, <1>9, StepAccepted, StepAcceptOpen, StepSocketRead,
       StepSocketWrite DEF Sockets!InCall
  <2>3. ASSUME NEW p \in Sockets!Procs,
               \/ Sockets!Interrupt(p) \/ Sockets!Close(p)
               \/ p \in Clients /\ Sockets!Connect(p)
               \/ Sockets!CallAccept(p)
               \/ p \in Servers /\ \E s \in Servers : Sockets!Fork(p, s)
               \/ \E what \in {"read", "write"}, n \in 1..MaxCount : Sockets!CallData(p, what, n)
               \/ \E d \in Sockets!Directions : Sockets!Shutdown(p, d)
        PROVE  SocketInv'
    BY <2>3, <1>6, <1>10, <1>11, <1>12, <1>13, StepConnect, StepFork
  <2> QED
    BY <1>14, <2>1, <2>2, <2>3 DEF Sockets!Next
<1> QED
  BY <1>1, <1>14

(* What the invariant says of the queue and of the bytes.                  *)
LEMMA SocketInvExact ==
  ASSUME Capacity \in Nat \ {0}, SocketInv
  PROVE  SocketsExact
<1>1. Sockets!BytesInOrder
  <2> SUFFICES ASSUME NEW c \in Clients, NEW d \in Sockets!Directions
               PROVE  sockGot[c][d] \o Sockets!Bytes(bufs[c][d], Sockets!Length(bufs[c][d]))
                        = [i \in 1..sockSent[c][d] |-> i]
    BY DEF Sockets!BytesInOrder
  <2> DEFINE b == bufs[c][d]
  <2>1. Flow(b, sockSent[c][d], sockGot[c][d])
    BY DEF SocketInv, Flows
  <2> HIDE DEF b
  <2>2. Sockets!Bytes(b, Sockets!Length(b)) = Bytes(b, Length(b))
    BY SameRing
  <2>3. sockGot[c][d] \o Bytes(b, Length(b)) = Bytes1To(sockSent[c][d])
    BY <2>1, FlowExact
  <2> QED
    BY <2>2, <2>3 DEF b, Bytes1To
<1>2. Sockets!PendingOnce
  <2>1. numPending = Len(pending)
    BY DEF SocketInv, Waiting
  <2>2. ASSUME NEW c \in Clients
        PROVE  Sockets!Cardinality({i \in 1..Len(pending) : pending[i] = c})
                 + Sockets!Cardinality({s \in Servers : sockAt[s] = "popped" /\ sock[s] = c})
                 = (IF state[c] = "pending" THEN 1 ELSE 0)
    <3> DEFINE queued == {i \in 1..Len(pending) : pending[i] = c}
               popped == {s \in Servers : sockAt[s] = "popped" /\ sock[s] = c}
    <3>1. /\ Sockets!Cardinality(queued) = Cardinality(queued)
          /\ Sockets!Cardinality(popped) = Cardinality(popped)
      BY DEF Sockets!Cardinality, Cardinality
    <3>2. CASE state[c] # "pending"
      <4>1. queued = {} /\ popped = {}
        BY <3>2 DEF SocketInv, Waiting
      <4>2. Cardinality({}) = 0
        BY FS_EmptySet
      <4> HIDE DEF queued, popped
      <4>3. Sockets!Cardinality(queued) = 0 /\ Sockets!Cardinality(popped) = 0
        BY <3>1, <4>1, <4>2
      <4>4. Sockets!Cardinality(queued) + Sockets!Cardinality(popped) = 0
        BY <4>3
      <4> QED
        BY <3>2, <4>4 DEF queued, popped
    <3>3. CASE state[c] = "pending" /\ \E i \in 1..Len(pending) : pending[i] = c
      <4>1. PICK i \in 1..Len(pending) : pending[i] = c
        BY <3>3
      <4>2. queued = {i} /\ popped = {}
        BY <4>1 DEF SocketInv, Waiting
      <4>3. Cardinality({i}) = 1 /\ Cardinality({}) = 0
        BY FS_EmptySet, FS_Singleton
      <4> HIDE DEF queued, popped
      <4>4. Sockets!Cardinality(queued) = 1 /\ Sockets!Cardinality(popped) = 0
        BY <3>1, <4>2, <4>3
      <4>5. Sockets!Cardinality(queued) + Sockets!Cardinality(popped) = 1
        BY <4>4
      <4> QED
        BY <3>3, <4>5 DEF queued, popped
    <3>4. CASE state[c] = "pending" /\ \E s \in Servers : sockAt[s] = "popped" /\ sock[s] = c
      <4>1. PICK s \in Servers : sockAt[s] = "popped" /\ sock[s] = c
        BY <3>4
      <4>2. queued = {} /\ popped = {s}
        BY <4>1 DEF SocketInv, Waiting
      <4>3. Cardinality({s}) = 1 /\ Cardinality({}) = 0
        BY FS_EmptySet, FS_Singleton
      <4> HIDE DEF queued, popped
      <4>4. Sockets!Cardinality(queued) = 0 /\ Sockets!Cardinality(popped) = 1
        BY <3>1, <4>2, <4>3
      <4>5. Sockets!Cardinality(queued) + Sockets!Cardinality(popped) = 1
        BY <4>4
      <4> QED
        BY <3>4, <4>5 DEF queued, popped
    <3> QED
      BY <3>2, <3>3, <3>4 DEF SocketInv, Waiting
  <2> QED
    BY <2>1, <2>2 DEF Sockets!PendingOnce
<1> QED
  BY <1>1, <1>2 DEF SocketsExact

(* unix_socket.c, for any clients, processes of the server, backlog and    *)
(* capacity: whoever has called connect and is not accepted is once in the *)
(* queue or in the hands of one accept, num_pending is the queue's length, *)
(* and bytes are read once, in the order of their writes, in each          *)
(* direction.                                                              *)
THEOREM SocketsAreExact ==
  ASSUME Capacity \in Nat \ {0}, MaxCount \in Nat
  PROVE  Sockets!Spec => []SocketsExact
<1>1. Sockets!Init => SocketInv
  BY InitSocketInv
<1>2. SocketInv /\ [Sockets!Next]_Sockets!vars => SocketInv'
  BY NextSocket
<1>3. SocketInv => SocketsExact
  BY SocketInvExact
<1> QED
  BY <1>1, <1>2, <1>3, PTL DEF Sockets!Spec
=============================================================================
