----------------------------- MODULE FileProofs -----------------------------
(***************************************************************************)
(* Files.  Copies from and to user memory are whole, whatever other        *)
(* threads do to the memory meanwhile.  A directory that changes is listed *)
(* with each name that stays once, but for as many as removals moved over  *)
(* the offset.  A description has as many references as descriptors name   *)
(* it, its file reads as its bytes, and what is written through it lies in *)
(* the file one after the other.                                           *)
(***************************************************************************)
EXTENDS MCFiles, FiniteSetTheorems, WellFoundedInduction, NaturalsInduction, TLAPS

(* Addresses and sizes are below Top, as far as a pointer reaches.         *)
CopyParameters ==
  /\ Top \in Nat /\ KERNEL \in Nat \ {0} /\ KERNEL <= Top
  /\ Ranges \subseteq (0..(Top - 1)) \X (0..(Top - 1))
  /\ Memories \subseteq [U!User -> Bytes]

Values == Bytes \cup {0, Sent, Stale}
CopyOps == {"from", "to", "clear", "strnlen", "strncpy"}

CopyTypes ==
  /\ mem \in [U!User -> Values] /\ kbuf \in [U!Kernel -> Values]
  /\ held \in [U!User -> SUBSET Values]
  /\ addr \in Nat /\ size \in Nat /\ moved \in Nat /\ ret \in Int
  /\ copyOp \in CopyOps \cup {"none"} /\ eip \in U!on_fault \cup {"idle", "done"}

(* Nobody has called.                                                      *)
NotCalled ==
  /\ eip = "idle" /\ copyOp = "none" /\ addr = 0 /\ size = 0 /\ moved = 0 /\ ret = 0
  /\ wrote = {} /\ \A k \in U!Kernel : kbuf[k] = Stale

(* The range is user memory, and so much of it was moved.  What is there   *)
(* was there during the call.                                              *)
Copying ==
  /\ eip \in U!on_fault /\ copyOp \in CopyOps
  /\ eip = U!Entry[copyOp]
  /\ moved < size /\ addr + size <= KERNEL /\ ret \in Nat
  /\ copyOp \in {"from", "to", "strncpy"} => size <= Top - KERNEL
  /\ \A a \in U!User : mem[a] \in held[a]
  /\ copyOp = "from" => \A k \in 0..(moved - 1) : kbuf[k] \in held[addr + k]
  /\ copyOp = "strncpy" => \A k \in 0..(moved - 1) : kbuf[k] \in held[addr + k] \ {0}
  /\ copyOp \in {"strnlen", "strncpy"} => \A k \in 0..(moved - 1) : held[addr + k] \ {0} # {}
  /\ wrote = IF copyOp \in {"to", "clear"}
             THEN {a \in U!User : addr <= a /\ a < addr + moved} ELSE {}
  /\ \A k \in U!Kernel : k >= moved => kbuf[k] = Stale

CopyInv == CopyTypes /\ (NotCalled \/ Copying \/ (eip = "done" /\ U!CopiesWhole))

(* is_user_range: the end does not wrap around.                            *)
LEMMA UserRange ==
  ASSUME CopyParameters, NEW a \in 0..(Top - 1), NEW n \in 0..(Top - 1), U!is_user_range(a, n)
  PROVE  0 < a /\ a + n <= KERNEL
<1> DEFINE e == (a + n) % Top
<1>1. 0 < a /\ a < KERNEL /\ a <= e /\ e <= KERNEL
  BY DEF U!is_user_range, U!is_user_address
<1>2. Top \in Nat \ {0} /\ KERNEL \in Nat /\ KERNEL <= Top
  BY DEF CopyParameters
<1>3. e = IF a + n < Top THEN a + n ELSE a + n - Top
  BY <1>2
<1> HIDE DEF e
<1> QED
  BY <1>1, <1>2, <1>3

(* The kernel's buffer.                                                    *)
LEMMA KernelSize ==
  ASSUME CopyParameters
  PROVE  U!Cardinality(U!Kernel) = Top - KERNEL
<1>1. Top \in Nat /\ KERNEL \in Nat /\ KERNEL <= Top
  BY DEF CopyParameters
<1>2. U!Cardinality(U!Kernel) = Cardinality(0..(Top - KERNEL - 1))
  BY DEF U!Cardinality, Cardinality, U!Kernel
<1>3. Cardinality(0..(Top - KERNEL - 1)) = IF 0 > Top - KERNEL - 1 THEN 0 ELSE (Top - KERNEL - 1) - 0 + 1
  BY <1>1, FS_Interval
<1> QED
  BY <1>1, <1>2, <1>3

(* What an access in progress has done is within its range.                *)
LEMMA CopyingWhole ==
  ASSUME CopyParameters, CopyInv
  PROVE  U!CopiesWhole
<1>1. CASE NotCalled
  BY <1>1 DEF NotCalled, U!CopiesWhole, CopyParameters, U!User, U!Kernel
<1>2. CASE Copying
  <2>1. addr + size <= KERNEL /\ moved < size /\ addr \in Nat /\ size \in Nat /\ moved \in Nat
    BY <1>2 DEF Copying, CopyInv, CopyTypes
  <2>2. wrote \subseteq {a \in U!User : addr <= a /\ a < addr + size}
    BY <1>2, <2>1 DEF Copying, U!User, CopyParameters
  <2>3. \A k \in U!Kernel : k >= size => kbuf[k] = Stale
    BY <1>2, <2>1 DEF Copying, U!Kernel, CopyParameters
  <2>4. eip # "done"
    BY <1>2 DEF Copying, U!on_fault
  <2> QED
    BY <2>1, <2>2, <2>3, <2>4 DEF U!CopiesWhole
<1> QED
  BY <1>1, <1>2 DEF CopyInv

(* What a copy that is over has to answer for.                             *)
LEMMA Answered ==
  ASSUME ret' # -14 => addr' + size' <= KERNEL,
         wrote' \subseteq {a \in U!User : addr' <= a /\ a < addr' + size'},
         \A k \in U!Kernel : k >= size' => kbuf'[k] = Stale,
         copyOp' \in CopyOps,
         ret' # -14 /\ copyOp' = "from" => \A k \in 0..(size' - 1) : kbuf'[k] \in held'[addr' + k],
         ret' # -14 /\ copyOp' \in {"to", "clear"} =>
           wrote' = {a \in U!User : addr' <= a /\ a < addr' + size'},
         ret' # -14 /\ copyOp' \in {"strnlen", "strncpy"} => ret' \in (U!Lengths)',
         ret' # -14 /\ copyOp' = "strncpy" =>
           \A k \in 0..(size' - 1) :
             IF k < ret' THEN kbuf'[k] \in held'[addr' + k] \ {0} ELSE kbuf'[k] = 0
  PROVE  U!CopiesWhole'
<1> USE DEF U!CopiesWhole, U!EFAULT
<1>1. CASE ret' = -14
  BY <1>1
<1>2. CASE ret' # -14 /\ copyOp' = "from"
  BY <1>2
<1>3. CASE ret' # -14 /\ copyOp' \in {"to", "clear"}
  BY <1>3
<1>4. CASE ret' # -14 /\ copyOp' = "strnlen"
  BY <1>4
<1>5. CASE ret' # -14 /\ copyOp' = "strncpy"
  BY <1>5
<1> QED
  BY <1>1, <1>2, <1>3, <1>4, <1>5 DEF CopyOps

(* The call.                                                               *)
LEMMA StepCopyCall ==
  ASSUME CopyParameters, CopyInv, NEW o \in DOMAIN U!Entry, NEW r \in Ranges, U!Call(o, r[1], r[2])
  PROVE  CopyInv'
<1> DEFINE a == r[1]
           n == r[2]
<1>1. a \in 0..(Top - 1) /\ n \in 0..(Top - 1)
  BY DEF CopyParameters
<1> HIDE DEF a, n
<1>2. U!Call(o, a, n)
  BY DEF a, n
<1>3. o \in CopyOps
  BY DEF U!Entry, CopyOps
<1>4. /\ copyOp' = o /\ addr' = a /\ size' = n /\ held' = [b \in U!User |-> {mem[b]}]
      /\ UNCHANGED <<mem, mapped, moved, kbuf, wrote>>
      /\ o \in {"from", "to", "strncpy"} => n <= Top - KERNEL
  BY <1>2, KernelSize DEF U!Call
<1>5. NotCalled
  BY <1>2 DEF U!Call, CopyInv, Copying, U!on_fault
<1>6. a \in Nat /\ n \in Nat /\ Top \in Nat /\ KERNEL \in Nat
  BY <1>1 DEF CopyParameters
<1>7. /\ mem' \in [U!User -> Values] /\ kbuf' \in [U!Kernel -> Values]
      /\ held' \in [U!User -> SUBSET Values]
      /\ addr' \in Nat /\ size' \in Nat /\ moved' \in Nat /\ copyOp' \in CopyOps \cup {"none"}
  BY <1>3, <1>4, <1>6 DEF CopyInv, CopyTypes
<1>8. moved' = 0 /\ wrote' = {} /\ \A k \in U!Kernel : kbuf'[k] = Stale
  BY <1>4, <1>5 DEF NotCalled
<1>9. CASE ~U!is_user_range(a, n)
  <2>1. eip' = "done" /\ ret' = -14
    BY <1>2, <1>9 DEF U!Call, U!EFAULT
  <2>2. CopyTypes'
    BY <1>7, <2>1 DEF CopyTypes
  <2>3. U!CopiesWhole'
    BY <1>8, <2>1 DEF U!CopiesWhole, U!EFAULT, U!Kernel
  <2> QED
    BY <2>1, <2>2, <2>3 DEF CopyInv
<1>10. CASE U!is_user_range(a, n) /\ n = 0
  <2>1. eip' = "done" /\ ret' = 0
    BY <1>2, <1>10 DEF U!Call
  <2>2. CopyTypes'
    BY <1>7, <2>1 DEF CopyTypes
  <2>3. a + n <= KERNEL
    BY <1>1, <1>10, UserRange
  <2>4. {b \in U!User : a <= b /\ b < a + n} = {}
    BY <1>6, <1>10 DEF U!User
  <2>5. (U!Lengths)' = {0}
    BY <1>4, <1>10 DEF U!Lengths
  <2>6. U!CopiesWhole'
    <3>1. 0..(size' - 1) = {}
      BY <1>4, <1>10
    <3> QED
      BY <1>3, <1>4, <1>8, <1>10, <2>1, <2>3, <2>4, <2>5, <3>1, Answered DEF CopyOps
  <2> QED
    BY <2>1, <2>2, <2>6 DEF CopyInv
<1>11. CASE U!is_user_range(a, n) /\ n # 0
  <2>1. eip' = U!Entry[o] /\ ret' = 0
    BY <1>2, <1>11 DEF U!Call
  <2>2. a + n <= KERNEL
    BY <1>1, <1>11, UserRange
  <2>3. eip' \in U!on_fault
    BY <1>3, <2>1 DEF U!Entry, CopyOps, U!on_fault
  <2>4. CopyTypes'
    BY <1>7, <2>1, <2>3 DEF CopyTypes
  <2>5. \A b \in U!User : mem'[b] \in held'[b]
    BY <1>4
  <2>6. wrote' = IF o \in {"to", "clear"} THEN {b \in U!User : a <= b /\ b < a + 0} ELSE {}
    BY <1>6, <1>8 DEF U!User
  <2>7. Copying'
    BY <1>3, <1>4, <1>6, <1>8, <1>11, <2>1, <2>2, <2>3, <2>5, <2>6 DEF Copying
  <2> QED
    BY <2>4, <2>7 DEF CopyInv
<1> QED
  BY <1>9, <1>10, <1>11
(* Where a copy in progress is.                                            *)
LEMMA InRange ==
  ASSUME CopyParameters, CopyInv, eip \in U!on_fault
  PROVE  /\ Copying /\ moved \in Nat /\ addr \in Nat /\ size \in Nat /\ moved < size
         /\ addr + size <= KERNEL /\ KERNEL \in Nat /\ Top \in Nat
         /\ U!Here = addr + moved /\ U!Here \in U!User
         /\ copyOp \in {"from", "to", "strncpy"} => moved \in U!Kernel /\ size <= Top - KERNEL
<1>1. Copying
  BY DEF CopyInv, NotCalled, U!on_fault
<1>2. /\ moved \in Nat /\ addr \in Nat /\ size \in Nat /\ moved < size /\ addr + size <= KERNEL
      /\ KERNEL \in Nat /\ Top \in Nat /\ U!Here = addr + moved
  BY <1>1 DEF Copying, CopyInv, CopyTypes, CopyParameters, U!Here
<1>3. U!Here \in U!User
  BY <1>2 DEF U!User
<1>4. copyOp \in {"from", "to", "strncpy"} => moved \in U!Kernel /\ size <= Top - KERNEL
  BY <1>1, <1>2 DEF Copying, U!Kernel
<1> QED
  BY <1>1, <1>2, <1>3, <1>4

(* One byte out of user memory: rep movsb.                                 *)
LEMMA StepMoveFrom ==
  ASSUME CopyParameters, CopyInv, U!Move, copyOp = "from"
  PROVE  CopyInv'
<1> DEFINE here == addr + moved
<1>1. eip \in U!on_fault
  BY DEF U!Move, U!on_fault
<1>2. /\ Copying /\ moved \in Nat /\ addr \in Nat /\ size \in Nat /\ moved < size
      /\ addr + size <= KERNEL /\ KERNEL \in Nat /\ Top \in Nat
      /\ U!Here = here /\ here \in U!User /\ moved \in U!Kernel /\ size <= Top - KERNEL
  BY <1>1, InRange
<1>3. /\ kbuf' = [kbuf EXCEPT ![moved] = mem[here]] /\ moved' = moved + 1 /\ ret' = 0
      /\ eip' = (IF moved + 1 = size THEN "done" ELSE eip)
      /\ UNCHANGED <<mem, held, wrote, copyOp, addr, size>>
  BY <1>2 DEF U!Move, U!Reached
<1>4. mem[here] \in held[here] /\ mem[here] \in Values
  BY <1>2 DEF Copying, CopyInv, CopyTypes
<1>5. ASSUME NEW k \in U!Kernel PROVE kbuf'[k] = IF k = moved THEN mem[here] ELSE kbuf[k]
  BY <1>3 DEF CopyInv, CopyTypes
<1>6. CopyTypes'
  <2>1. kbuf' \in [U!Kernel -> Values]
    BY <1>3, <1>4 DEF CopyInv, CopyTypes
  <2> QED
    BY <1>1, <1>2, <1>3, <2>1 DEF CopyInv, CopyTypes
<1>7. \A k \in 0..moved : kbuf'[k] \in held[addr + k]
  <2> TAKE k \in 0..moved
  <2>1. k \in U!Kernel
    BY <1>2 DEF U!Kernel
  <2>2. CASE k = moved
    BY <1>4, <1>5, <2>1, <2>2
  <2>3. CASE k # moved
    BY <1>2, <1>5, <2>1, <2>3 DEF Copying
  <2> QED
    BY <2>2, <2>3
<1>8. \A k \in U!Kernel : k >= moved + 1 => kbuf'[k] = Stale
  BY <1>2, <1>5 DEF Copying, U!Kernel
<1>9. wrote' = {}
  BY <1>2, <1>3 DEF Copying
<1>10. CASE moved + 1 = size
  <2>1. U!CopiesWhole'
    <3>1. 0..(size' - 1) = 0..moved
      BY <1>2, <1>3, <1>10
    <3> QED
      BY <1>2, <1>3, <1>7, <1>8, <1>9, <1>10, <3>1, Answered DEF CopyOps
  <2> QED
    BY <1>3, <1>6, <1>10, <2>1 DEF CopyInv
<1>11. CASE moved + 1 # size
  <2>1. moved + 1 < size /\ moved + 1 - 1 = moved /\ eip' = eip
    BY <1>2, <1>3, <1>11
  <2>2. Copying'
    BY <1>1, <1>2, <1>3, <1>7, <1>8, <1>9, <2>1 DEF Copying
  <2> QED
    BY <1>6, <2>2 DEF CopyInv
<1> QED
  BY <1>10, <1>11

(* One byte into user memory: rep movsb or rep stosb.                      *)
LEMMA StepMoveTo ==
  ASSUME CopyParameters, CopyInv, U!Move, copyOp # "from"
  PROVE  CopyInv'
<1> DEFINE here == addr + moved
           byte == IF copyOp = "to" THEN Sent ELSE 0
           to(n) == {a \in U!User : addr <= a /\ a < addr + n}
<1>1. eip \in U!on_fault
  BY DEF U!Move, U!on_fault
<1>2. /\ Copying /\ moved \in Nat /\ addr \in Nat /\ size \in Nat /\ moved < size
      /\ addr + size <= KERNEL /\ KERNEL \in Nat /\ Top \in Nat
      /\ U!Here = here /\ here \in U!User
  BY <1>1, InRange
<1>3. /\ mem' = [mem EXCEPT ![here] = byte] /\ held' = [held EXCEPT ![here] = @ \cup {byte}]
      /\ wrote' = wrote \cup {here} /\ moved' = moved + 1 /\ ret' = 0
      /\ eip' = (IF moved + 1 = size THEN "done" ELSE eip)
      /\ UNCHANGED <<kbuf, copyOp, addr, size>>
  BY <1>2 DEF U!Move, U!Reached
<1>4. copyOp \in {"to", "clear"}
  BY <1>2 DEF U!Move, Copying, U!Entry, CopyOps
<1>5. byte \in Values
  BY DEF Values
<1> HIDE DEF byte
<1>6. CopyTypes'
  <2>1. mem' \in [U!User -> Values] /\ held' \in [U!User -> SUBSET Values]
    BY <1>2, <1>3, <1>5 DEF CopyInv, CopyTypes
  <2> QED
    BY <1>1, <1>2, <1>3, <2>1 DEF CopyInv, CopyTypes
<1>7. \A a \in U!User : mem'[a] \in held'[a]
  <2> TAKE a \in U!User
  <2>1. mem[a] \in held[a]
    BY <1>2 DEF Copying
  <2>2. CASE a = here
    BY <1>2, <1>3, <2>2 DEF CopyInv, CopyTypes
  <2>3. CASE a # here
    BY <1>3, <2>1, <2>3 DEF CopyInv, CopyTypes
  <2> QED
    BY <2>2, <2>3
<1>8. wrote' = to(moved + 1)
  <2>1. wrote = to(moved)
    BY <1>2, <1>4 DEF Copying
  <2>2. to(moved + 1) = to(moved) \cup {here}
    BY <1>2 DEF U!User
  <2> QED
    BY <1>3, <2>1, <2>2
<1>9. \A k \in U!Kernel : k >= moved + 1 => kbuf'[k] = Stale
  BY <1>2, <1>3 DEF Copying, U!Kernel
<1>10. CASE moved + 1 = size
  <2>1. U!CopiesWhole'
    BY <1>2, <1>3, <1>4, <1>8, <1>9, <1>10, Answered DEF CopyOps
  <2> QED
    BY <1>3, <1>6, <1>10, <2>1 DEF CopyInv
<1>11. CASE moved + 1 # size
  <2>1. moved + 1 < size /\ eip' = eip
    BY <1>2, <1>3, <1>11
  <2>2. Copying'
    BY <1>1, <1>2, <1>3, <1>4, <1>7, <1>8, <1>9, <2>1 DEF Copying
  <2> QED
    BY <1>6, <2>2 DEF CopyInv
<1> QED
  BY <1>10, <1>11

(* safe_strnlen.                                                           *)
LEMMA StepCount ==
  ASSUME CopyParameters, CopyInv, U!Count
  PROVE  CopyInv'
<1> DEFINE here == addr + moved
<1>1. eip \in U!on_fault /\ eip = "strnlen_read"
  BY DEF U!Count, U!on_fault
<1>2. /\ Copying /\ moved \in Nat /\ addr \in Nat /\ size \in Nat /\ moved < size
      /\ addr + size <= KERNEL /\ KERNEL \in Nat /\ Top \in Nat
      /\ U!Here = here /\ here \in U!User
  BY <1>1, InRange
<1>3. copyOp = "strnlen" /\ UNCHANGED <<mem, copyOp, addr, size, kbuf, held, wrote>>
  BY <1>1, <1>2 DEF U!Count, Copying, U!Entry, CopyOps
<1>4. mem[here] \in held[here] /\ \A k \in 0..(moved - 1) : held[addr + k] \ {0} # {}
  BY <1>2, <1>3 DEF Copying
<1>5. wrote' = {} /\ \A k \in U!Kernel : k >= moved => kbuf'[k] = Stale
  BY <1>2, <1>3 DEF Copying
<1>6. CASE mem[here] = 0
  <2>1. moved' = moved /\ eip' = "done" /\ ret' = moved
    BY <1>2, <1>6 DEF U!Count, U!Reached
  <2>2. CopyTypes'
    BY <1>2, <1>3, <2>1 DEF CopyInv, CopyTypes
  <2>3. moved \in (U!Lengths)'
    BY <1>2, <1>3, <1>4, <1>6 DEF U!Lengths
  <2>4. \A k \in U!Kernel : k >= size => kbuf'[k] = Stale
    BY <1>2, <1>5 DEF U!Kernel
  <2>5. U!CopiesWhole'
    BY <1>2, <1>3, <1>5, <2>1, <2>3, <2>4, Answered DEF CopyOps
  <2> QED
    BY <2>1, <2>2, <2>5 DEF CopyInv
<1>7. CASE mem[here] # 0
  <2>1. /\ moved' = moved + 1 /\ ret' = moved + 1
        /\ eip' = (IF moved + 1 = size THEN "done" ELSE eip)
    BY <1>2, <1>7 DEF U!Count, U!Reached
  <2>2. CopyTypes'
    BY <1>1, <1>2, <1>3, <2>1 DEF CopyInv, CopyTypes
  <2>3. \A k \in 0..moved : held[addr + k] \ {0} # {}
    <3> TAKE k \in 0..moved
    <3>1. CASE k = moved
      BY <1>4, <1>7, <3>1
    <3>2. CASE k # moved
      BY <1>2, <1>4, <3>2
    <3> QED
      BY <3>1, <3>2
  <2>4. \A k \in U!Kernel : k >= moved + 1 => kbuf'[k] = Stale
    BY <1>2, <1>5 DEF U!Kernel
  <2>5. CASE moved + 1 = size
    <3>1. moved + 1 \in (U!Lengths)'
      BY <1>2, <1>3, <2>3, <2>5 DEF U!Lengths
    <3>2. U!CopiesWhole'
      BY <1>2, <1>3, <1>5, <2>1, <2>4, <2>5, <3>1, Answered DEF CopyOps
    <3> QED
      BY <2>1, <2>2, <2>5, <3>2 DEF CopyInv
  <2>6. CASE moved + 1 # size
    <3>1. moved + 1 < size /\ moved + 1 - 1 = moved /\ eip' = eip
      BY <1>2, <2>1, <2>6
    <3>2. Copying'
      BY <1>1, <1>2, <1>3, <1>5, <2>1, <2>3, <2>4, <3>1 DEF Copying
    <3> QED
      BY <2>2, <3>2 DEF CopyInv
  <2> QED
    BY <2>5, <2>6
<1> QED
  BY <1>6, <1>7
(* safe_strncpy.                                                           *)
LEMMA StepCopyChar ==
  ASSUME CopyParameters, CopyInv, U!CopyChar
  PROVE  CopyInv'
<1> DEFINE here == addr + moved
<1>1. eip \in U!on_fault /\ eip = "strncpy_read"
  BY DEF U!CopyChar, U!on_fault
<1>2. /\ Copying /\ moved \in Nat /\ addr \in Nat /\ size \in Nat /\ moved < size
      /\ addr + size <= KERNEL /\ KERNEL \in Nat /\ Top \in Nat
      /\ U!Here = here /\ here \in U!User
      /\ copyOp \in {"from", "to", "strncpy"} => moved \in U!Kernel /\ size <= Top - KERNEL
  BY <1>1, InRange
<1>3. copyOp = "strncpy" /\ UNCHANGED <<mem, copyOp, addr, size, held, wrote>>
  BY <1>1, <1>2 DEF U!CopyChar, Copying, U!Entry, CopyOps
<1>4. /\ mem[here] \in held[here] /\ mem[here] \in Values /\ moved \in U!Kernel /\ size <= Top - KERNEL
      /\ \A k \in 0..(moved - 1) : kbuf[k] \in held[addr + k] \ {0}
      /\ \A k \in 0..(moved - 1) : held[addr + k] \ {0} # {}
  BY <1>2, <1>3 DEF Copying, CopyInv, CopyTypes
<1>5. wrote' = {} /\ \A k \in U!Kernel : k >= moved => kbuf[k] = Stale
  BY <1>2, <1>3 DEF Copying
<1>6. kbuf \in [U!Kernel -> Values]
  BY DEF CopyInv, CopyTypes
<1>7. CASE mem[here] = 0
  <2>1. moved' = moved /\ eip' = "done" /\ ret' = moved /\ kbuf' = U!Cleared(kbuf, moved)
    BY <1>2, <1>7 DEF U!CopyChar, U!Reached
  <2>2. kbuf' = [k \in U!Kernel |-> IF k \in moved..(size - 1) THEN 0 ELSE kbuf[k]]
    BY <1>6, <2>1 DEF U!Cleared
  <2>3. CopyTypes'
    <3>1. kbuf' \in [U!Kernel -> Values]
      BY <1>6, <2>2 DEF Values
    <3> QED
      BY <1>2, <1>3, <2>1, <3>1 DEF CopyInv, CopyTypes
  <2>4. moved \in (U!Lengths)'
    BY <1>2, <1>3, <1>4, <1>7 DEF U!Lengths
  <2>5. \A k \in U!Kernel : k >= size => kbuf'[k] = Stale
    BY <1>2, <1>5, <2>2 DEF U!Kernel
  <2>6. \A k \in 0..(size - 1) : IF k < moved THEN kbuf'[k] \in held[addr + k] \ {0} ELSE kbuf'[k] = 0
    <3> TAKE k \in 0..(size - 1)
    <3>1. k \in U!Kernel
      BY <1>2, <1>4 DEF U!Kernel
    <3>2. CASE k < moved
      BY <1>2, <1>4, <2>2, <3>1, <3>2
    <3>3. CASE ~(k < moved)
      BY <1>2, <2>2, <3>1, <3>3
    <3> QED
      BY <3>2, <3>3
  <2>7. U!CopiesWhole'
    BY <1>2, <1>3, <1>5, <2>1, <2>4, <2>5, <2>6, Answered DEF CopyOps
  <2> QED
    BY <2>1, <2>3, <2>7 DEF CopyInv
<1>8. CASE mem[here] # 0
  <2>1. /\ moved' = moved + 1 /\ ret' = moved + 1 /\ kbuf' = [kbuf EXCEPT ![moved] = mem[here]]
        /\ eip' = (IF moved + 1 = size THEN "done" ELSE eip)
    BY <1>2, <1>8 DEF U!CopyChar, U!Reached
  <2>2. CopyTypes'
    <3>1. kbuf' \in [U!Kernel -> Values]
      BY <1>4, <1>6, <2>1
    <3> QED
      BY <1>1, <1>2, <1>3, <2>1, <3>1 DEF CopyInv, CopyTypes
  <2>3. ASSUME NEW k \in 0..moved PROVE kbuf'[k] \in held[addr + k] \ {0}
    <3>1. k \in U!Kernel
      BY <1>2, <1>4 DEF U!Kernel
    <3>2. CASE k = moved
      BY <1>4, <1>6, <1>8, <2>1, <3>1, <3>2
    <3>3. CASE k # moved
      BY <1>2, <1>4, <1>6, <2>1, <3>1, <3>3
    <3> QED
      BY <3>2, <3>3
  <2>4. \A k \in 0..moved : held[addr + k] \ {0} # {}
    BY <2>3
  <2>5. \A k \in U!Kernel : k >= moved + 1 => kbuf'[k] = Stale
    BY <1>2, <1>5, <1>6, <2>1 DEF U!Kernel
  <2>6. CASE moved + 1 = size
    <3>1. moved + 1 \in (U!Lengths)'
      BY <1>2, <1>3, <2>4, <2>6 DEF U!Lengths
    <3>2. \A k \in 0..(size - 1) : k < moved + 1 /\ k \in 0..moved
      BY <1>2, <2>6
    <3>3. U!CopiesWhole'
      BY <1>2, <1>3, <1>5, <2>1, <2>3, <2>5, <2>6, <3>1, <3>2, Answered DEF CopyOps
    <3> QED
      BY <2>1, <2>2, <2>6, <3>3 DEF CopyInv
  <2>7. CASE moved + 1 # size
    <3>1. moved + 1 < size /\ moved + 1 - 1 = moved /\ eip' = eip
      BY <1>2, <2>1, <2>7
    <3>2. Copying'
      BY <1>1, <1>2, <1>3, <1>5, <2>1, <2>3, <2>4, <2>5, <3>1 DEF Copying
    <3> QED
      BY <2>2, <3>2 DEF CopyInv
  <2> QED
    BY <2>6, <2>7
<1> QED
  BY <1>7, <1>8

(* handle_exception14.                                                     *)
LEMMA StepPageFault ==
  ASSUME CopyParameters, CopyInv, U!PageFault
  PROVE  CopyInv'
<1>1. /\ eip \in U!on_fault /\ eip' = "done" /\ ret' = -14
      /\ UNCHANGED <<mem, copyOp, addr, size, moved, kbuf, held, wrote>>
  BY DEF U!PageFault, U!Reached, U!EFAULT
<1>2. Copying /\ U!CopiesWhole
  BY <1>1, InRange, CopyingWhole
<1>3. CopyTypes'
  BY <1>1 DEF CopyInv, CopyTypes
<1>4. U!CopiesWhole'
  BY <1>1, <1>2, Answered DEF U!CopiesWhole, Copying
<1> QED
  BY <1>1, <1>3, <1>4 DEF CopyInv

(* Another thread unmaps a page or writes to one.                          *)
LEMMA StepChange ==
  ASSUME CopyParameters, CopyInv, U!Change
  PROVE  CopyInv'
<1>1. eip # "done" /\ copyOp # "none" /\ UNCHANGED <<copyOp, addr, size, eip, moved, kbuf, ret, wrote>>
  BY DEF U!Change
<1>2. Copying /\ eip \in U!on_fault
  BY <1>1 DEF CopyInv, NotCalled, Copying
<1>3. /\ addr \in Nat /\ size \in Nat /\ moved \in Nat /\ moved < size /\ addr + size <= KERNEL
      /\ KERNEL \in Nat
  BY <1>2, InRange
<1>4. ASSUME mem' \in [U!User -> Values], held' \in [U!User -> SUBSET Values],
             \A a \in U!User : mem'[a] \in held'[a] /\ held[a] \subseteq held'[a]
      PROVE  CopyInv'
  <2>1. CopyTypes'
    BY <1>1, <1>4 DEF CopyInv, CopyTypes
  <2>2. \A k \in 0..(moved - 1) : addr + k \in U!User
    BY <1>3 DEF U!User
  <2>3. copyOp = "from" => \A k \in 0..(moved - 1) : kbuf[k] \in held'[addr + k]
    BY <1>2, <1>4, <2>2 DEF Copying
  <2>4. copyOp = "strncpy" => \A k \in 0..(moved - 1) : kbuf[k] \in held'[addr + k] \ {0}
    BY <1>2, <1>4, <2>2 DEF Copying
  <2>5. copyOp \in {"strnlen", "strncpy"} => \A k \in 0..(moved - 1) : held'[addr + k] \ {0} # {}
    <3> SUFFICES ASSUME copyOp \in {"strnlen", "strncpy"}, NEW k \in 0..(moved - 1)
                 PROVE  held'[addr + k] \ {0} # {}
      OBVIOUS
    <3>1. held[addr + k] \ {0} # {}
      BY <1>2 DEF Copying
    <3> QED
      BY <1>4, <2>2, <3>1
  <2>6. Copying'
    BY <1>1, <1>2, <1>4, <2>3, <2>4, <2>5 DEF Copying
  <2> QED
    BY <2>1, <2>6 DEF CopyInv
<1>5. CASE UNCHANGED <<mem, held>>
  BY <1>2, <1>4, <1>5 DEF Copying, CopyInv, CopyTypes
<1>6. ASSUME NEW a \in U!User, NEW b \in Bytes, mem' = [mem EXCEPT ![a] = b],
             held' = [held EXCEPT ![a] = @ \cup {b}]
      PROVE  CopyInv'
  <2>1. mem' \in [U!User -> Values] /\ held' \in [U!User -> SUBSET Values]
    BY <1>6 DEF CopyInv, CopyTypes, Values
  <2>2. ASSUME NEW c \in U!User PROVE mem'[c] \in held'[c] /\ held[c] \subseteq held'[c]
    <3>1. mem[c] \in held[c]
      BY <1>2 DEF Copying
    <3> QED
      BY <1>6, <3>1 DEF CopyInv, CopyTypes
  <2> QED
    BY <1>4, <2>1, <2>2
<1> QED
  BY <1>5, <1>6 DEF U!Change

(* kernel/safe_string.c: whatever other threads write or unmap meanwhile,  *)
(* a copy that succeeds has moved every byte of its range, each with a     *)
(* value it had during the call, strings end where they should, and        *)
(* nothing outside the range or the buffer was touched.                    *)
THEOREM UserCopiesWhole ==
  ASSUME CopyParameters
  PROVE  U!Spec => []CopiesWhole
<1>1. U!Init => CopyInv
  <2> SUFFICES ASSUME U!Init PROVE CopyInv
    OBVIOUS
  <2>1. CopyTypes
    BY DEF U!Init, CopyTypes, CopyParameters, Values, U!Kernel
  <2>2. NotCalled
    BY DEF U!Init, NotCalled, U!Kernel
  <2> QED
    BY <2>1, <2>2 DEF CopyInv
<1>2. CopyInv /\ [U!Next]_U!copyVars => CopyInv'
  <2> SUFFICES ASSUME CopyInv, [U!Next]_U!copyVars PROVE CopyInv'
    OBVIOUS
  <2>1. CASE UNCHANGED U!copyVars
    <3>1. UNCHANGED <<mem, mapped, copyOp, addr, size, eip, moved, kbuf, ret, held, wrote>>
      BY <2>1 DEF U!copyVars
    <3>2. CopyTypes'
      BY <3>1 DEF CopyInv, CopyTypes
    <3>3. CASE NotCalled
      BY <3>1, <3>2, <3>3 DEF CopyInv, NotCalled
    <3>4. CASE Copying
      BY <3>1, <3>2, <3>4 DEF CopyInv, Copying
    <3>5. CASE eip = "done" /\ U!CopiesWhole
      <4>1. U!CopiesWhole'
        BY <3>1, <3>5 DEF U!CopiesWhole, U!Lengths
      <4> QED
        BY <3>1, <3>2, <3>5, <4>1 DEF CopyInv
    <3> QED
      BY <3>3, <3>4, <3>5 DEF CopyInv
  <2> QED
    BY <2>1, StepCopyCall, StepMoveFrom, StepMoveTo, StepCount, StepCopyChar, StepPageFault,
       StepChange DEF U!Next
<1>3. CopyInv => CopiesWhole
  BY CopyingWhole DEF CopiesWhole
<1> QED
  BY <1>1, <1>2, <1>3, PTL DEF U!Spec
-----------------------------------------------------------------------------
(* What readdir has got of a directory that changes: out are the names it  *)
(* has listed or still has in its buffer, sh how many entries have gone    *)
(* from before the offset.                                                 *)
Elements(s) == {s[k] : k \in 1..Len(s)}
NoTwice(s) == \A j, k \in 1..Len(s) : s[j] = s[k] => j = k
OnceIn(names, s) == \A j, k \in 1..Len(s) : s[j] = s[k] /\ s[j] \in names => j = k
Passed(ch, off) == {ch[k] : k \in {j \in 1..Len(ch) : j <= off}}

Without(s, k) == SubSeq(s, 1, k - 1) \o SubSeq(s, k + 1, Len(s))
Down(k, off) == IF k <= off THEN 1 ELSE 0

Progress(ch, off, st, out, sh) ==
  /\ NoTwice(ch) /\ IsFiniteSet(st) /\ st \subseteq Elements(ch)
  /\ OnceIn(st, out) /\ st \cap Elements(out) \subseteq Passed(ch, off)
  /\ Cardinality((st \cap Passed(ch, off)) \ Elements(out)) <= sh

ListTypes ==
  /\ children \in Seq(Names) /\ buf \in Seq(Names) /\ listed \in Seq(Names)
  /\ offset \in Nat /\ capacity \in Nat /\ shifted \in Nat

ListInv ==
  /\ ListTypes
  /\ Progress(children, offset, stable, listed \o buf, shifted)
  /\ listAt = "end" => offset >= Len(children) /\ buf = <<>>
  /\ capacity = FirstCapacity \/ \E name \in Names : capacity < 2 * rec_len[name]

ListParameters ==
  /\ FirstCapacity \in Nat /\ rec_len \in [Names -> Nat]
  /\ InitialNames \in Seq(Names) /\ NoTwice(InitialNames)

(* Fewer are missing of fewer names.                                       *)
LEMMA FewerMissing ==
  ASSUME NEW small, NEW large, IsFiniteSet(large), small \subseteq large, NEW n, Cardinality(large) <= n,
         n \in Int
  PROVE  Cardinality(small) <= n
<1>1. IsFiniteSet(small) /\ Cardinality(small) <= Cardinality(large)
  BY FS_Subset
<1>2. Cardinality(small) \in Nat /\ Cardinality(large) \in Nat
  BY <1>1, FS_CardinalityType
<1> QED
  BY <1>1, <1>2

(* One sequence after another.                                             *)
LEMMA Joined ==
  ASSUME NEW S, NEW a \in Seq(S), NEW b \in Seq(S)
  PROVE  /\ a \o b \in Seq(S) /\ Len(a \o b) = Len(a) + Len(b)
         /\ \A k \in 1..Len(a) : (a \o b)[k] = a[k]
         /\ \A k \in 1..Len(b) : (a \o b)[Len(a) + k] = b[k]
<1>1. a \o b \in Seq(S)
  OBVIOUS
<1>2. Len(a \o b) = Len(a) + Len(b)
  OBVIOUS
<1>3. \A k \in 1..Len(a) : (a \o b)[k] = a[k]
  OBVIOUS
<1>4. \A k \in 1..Len(b) : (a \o b)[Len(a) + k] = b[k]
  OBVIOUS
<1> QED
  BY <1>1, <1>2, <1>3, <1>4

(* getdents of the next n entries.                                         *)
LEMMA ProgressRefill ==
  ASSUME NEW ch \in Seq(Names), NEW off \in Nat, NEW st, NEW out \in Seq(Names), NEW sh \in Nat,
         Progress(ch, off, st, out, sh), NEW n \in Nat, off + n <= Len(ch),
         NEW more, more = SubSeq(ch, off + 1, off + n)
  PROVE  Progress(ch, off + n, st, out \o more, sh)
<1> DEFINE all == out \o more
<1>1. /\ more \in Seq(Names) /\ Len(more) = n
      /\ \A k \in 1..n : more[k] = ch[off + k] /\ off + k \in 1..Len(ch)
  <2>1. Len(ch) \in Nat
    OBVIOUS
  <2>2. \A k \in 1..n : off + k \in 1..Len(ch)
    BY <2>1
  <2>3. Len(more) = n
    BY <2>1
  <2>4. more = [k \in 1..n |-> ch[off + k]]
    BY <2>1
  <2>5. \A k \in 1..n : ch[off + k] \in Names
    BY <2>2
  <2> QED
    BY <2>2, <2>3, <2>4, <2>5
<1>2. /\ all \in Seq(Names) /\ Len(all) = Len(out) + n
      /\ \A k \in 1..Len(out) : all[k] = out[k]
      /\ \A k \in 1..n : all[Len(out) + k] = more[k]
  <2>1. /\ all \in Seq(Names) /\ Len(all) = Len(out) + Len(more)
        /\ \A k \in 1..Len(out) : all[k] = out[k]
        /\ \A k \in 1..Len(more) : all[Len(out) + k] = more[k]
    BY <1>1, Joined, SMTT(30)
  <2> HIDE DEF all
  <2> QED
    BY <1>1, <2>1
<1>3. ASSUME NEW k \in 1..Len(all) PROVE k \in 1..Len(out) \/ \E j \in 1..n : k = Len(out) + j
  <2>1. CASE k <= Len(out)
    BY <1>2, <2>1
  <2>2. CASE ~(k <= Len(out))
    <3>1. k - Len(out) \in 1..n /\ k = Len(out) + (k - Len(out))
      BY <1>2, <2>2
    <3> QED
      BY <3>1
  <2> QED
    BY <2>1, <2>2
<1> HIDE DEF all
<1>4. Elements(all) = Elements(out) \cup Elements(more)
  <2>1. ASSUME NEW e \in Elements(all) PROVE e \in Elements(out) \cup Elements(more)
    <3>1. PICK k \in 1..Len(all) : e = all[k]
      BY <2>1 DEF Elements
    <3>2. CASE k \in 1..Len(out)
      BY <1>2, <3>1, <3>2 DEF Elements
    <3>3. CASE \E j \in 1..n : k = Len(out) + j
      BY <1>1, <1>2, <3>1, <3>3 DEF Elements
    <3> QED
      BY <1>3, <3>2, <3>3
  <2>2. Elements(out) \subseteq Elements(all)
    <3>1. 1..Len(out) \subseteq 1..Len(all)
      BY <1>2
    <3> QED
      BY <1>2, <3>1 DEF Elements
  <2>3. ASSUME NEW k \in 1..n PROVE more[k] \in Elements(all)
    <3>1. Len(out) + k \in 1..Len(all)
      BY <1>2
    <3> QED
      BY <1>2, <3>1 DEF Elements
  <2>4. Elements(more) \subseteq Elements(all)
    BY <1>1, <2>3 DEF Elements
  <2> QED
    BY <2>1, <2>2, <2>4
<1>5. Passed(ch, off + n) = Passed(ch, off) \cup Elements(more)
  <2>1. ASSUME NEW j \in 1..Len(ch), j <= off + n PROVE ch[j] \in Passed(ch, off) \cup Elements(more)
    <3>1. CASE j <= off
      BY <3>1 DEF Passed
    <3>2. CASE ~(j <= off)
      <4>1. j - off \in 1..n /\ off + (j - off) = j
        BY <2>1, <3>2
      <4>2. more[j - off] = ch[j]
        BY <1>1, <4>1
      <4> QED
        BY <1>1, <4>1, <4>2 DEF Elements
    <3> QED
      BY <3>1, <3>2
  <2>2. \A j \in 1..Len(ch) : j <= off => j <= off + n
    OBVIOUS
  <2>3. \A k \in 1..n : off + k <= off + n
    OBVIOUS
  <2>4. ASSUME NEW e \in Elements(more) PROVE e \in Passed(ch, off + n)
    <3>1. PICK k \in 1..n : e = more[k]
      BY <1>1, <2>4 DEF Elements
    <3>2. e = ch[off + k] /\ off + k \in 1..Len(ch) /\ off + k <= off + n
      BY <1>1, <2>3, <3>1
    <3> QED
      BY <3>2 DEF Passed
  <2> QED
    BY <2>1, <2>2, <2>4 DEF Passed
<1>6. ASSUME NEW e \in st, e \in Elements(more) PROVE e \notin Elements(out)
  <2>1. PICK k \in 1..n : e = more[k]
    BY <1>1, <1>6 DEF Elements
  <2>2. e = ch[off + k] /\ off + k \in 1..Len(ch) /\ ~(off + k <= off)
    BY <1>1, <2>1
  <2>3. ASSUME NEW j \in 1..Len(ch), j <= off PROVE ch[j] # e
    BY <2>2, <2>3 DEF Progress, NoTwice
  <2>4. e \notin Passed(ch, off)
    BY <2>3 DEF Passed
  <2> QED
    BY <1>6, <2>4 DEF Progress
<1>7. OnceIn(st, all)
  <2> SUFFICES ASSUME NEW j \in 1..Len(all), NEW k \in 1..Len(all), all[j] = all[k], all[j] \in st
               PROVE  j = k
    BY DEF OnceIn
  <2>1. CASE j \in 1..Len(out) /\ k \in 1..Len(out)
    BY <1>2, <2>1 DEF Progress, OnceIn
  <2>2. CASE \E x, y \in 1..n : j = Len(out) + x /\ k = Len(out) + y
    <3>1. PICK x \in 1..n, y \in 1..n : j = Len(out) + x /\ k = Len(out) + y
      BY <2>2
    <3>2. ch[off + x] = ch[off + y] /\ off + x \in 1..Len(ch) /\ off + y \in 1..Len(ch)
      BY <1>1, <1>2, <3>1
    <3>3. off + x = off + y
      BY <3>2 DEF Progress, NoTwice
    <3> QED
      BY <3>1, <3>3
  <2>3. ASSUME NEW x \in 1..Len(out), NEW y \in 1..n, out[x] = more[y], out[x] \in st PROVE FALSE
    BY <1>1, <1>6, <2>3 DEF Elements
  <2>4. ASSUME j \in 1..Len(out), \E y \in 1..n : k = Len(out) + y PROVE FALSE
    <3>1. PICK y \in 1..n : k = Len(out) + y
      BY <2>4
    <3>2. out[j] = more[y] /\ out[j] \in st
      BY <1>2, <2>4, <3>1
    <3> QED
      BY <2>3, <2>4, <3>2
  <2>5. ASSUME k \in 1..Len(out), \E x \in 1..n : j = Len(out) + x PROVE FALSE
    <3>1. PICK x \in 1..n : j = Len(out) + x
      BY <2>5
    <3>2. out[k] = more[x] /\ out[k] \in st
      BY <1>2, <2>5, <3>1
    <3> QED
      BY <2>3, <2>5, <3>2
  <2> QED
    BY <1>3, <2>1, <2>2, <2>4, <2>5
<1>8. /\ st \cap Elements(all) \subseteq Passed(ch, off + n)
      /\ (st \cap Passed(ch, off + n)) \ Elements(all) \subseteq (st \cap Passed(ch, off)) \ Elements(out)
  BY <1>4, <1>5 DEF Progress
<1>9. IsFiniteSet((st \cap Passed(ch, off)) \ Elements(out))
  BY FS_Subset DEF Progress
<1>10. Cardinality((st \cap Passed(ch, off + n)) \ Elements(all)) <= sh
  BY <1>8, <1>9, FewerMissing DEF Progress
<1> QED
  BY <1>7, <1>8, <1>10 DEF Progress, all

(* dentry_append of a name that is not there.                              *)
LEMMA ProgressAppend ==
  ASSUME NEW ch \in Seq(Names), NEW off \in Nat, NEW st, NEW out \in Seq(Names), NEW sh \in Nat,
         Progress(ch, off, st, out, sh), NEW name \in Names, name \notin Elements(ch)
  PROVE  Progress(Append(ch, name), off, st, out, sh)
<1> DEFINE new == Append(ch, name)
<1>1. /\ Len(new) = Len(ch) + 1 /\ new[Len(ch) + 1] = name
      /\ \A k \in 1..Len(ch) : new[k] = ch[k]
  OBVIOUS
<1>2. \A k \in 1..Len(new) : k \in 1..Len(ch) \/ k = Len(ch) + 1
  BY <1>1
<1>3. \A k \in 1..Len(ch) : k \in 1..Len(new) /\ ch[k] # name
  BY <1>1 DEF Elements
<1> HIDE DEF new
<1>4. NoTwice(new)
  BY <1>1, <1>2, <1>3 DEF Progress, NoTwice
<1>5. Elements(ch) \subseteq Elements(new)
  BY <1>1, <1>3 DEF Elements
<1>6. name \notin st
  BY DEF Progress
<1>7. Passed(ch, off) \subseteq Passed(new, off)
  BY <1>1, <1>3 DEF Passed
<1>8. Passed(new, off) \subseteq Passed(ch, off) \cup {name}
  BY <1>1, <1>2 DEF Passed
<1>9. st \cap Passed(new, off) = st \cap Passed(ch, off)
  BY <1>6, <1>7, <1>8
<1> QED
  BY <1>4, <1>5, <1>7, <1>9 DEF Progress, new

(* dentry_remove: what is behind the entry moves down, and one name at     *)
(* most gets past the reader.                                              *)
LEMMA ProgressRemove ==
  ASSUME NEW ch \in Seq(Names), NEW off \in Nat, NEW st, NEW out \in Seq(Names), NEW sh \in Nat,
         Progress(ch, off, st, out, sh), NEW k \in 1..Len(ch),
         NEW new, new = Without(ch, k), NEW sh2, sh2 = sh + Down(k, off)
  PROVE  new \in Seq(Names) /\ Progress(new, off, st \ {ch[k]}, out, sh2)
<1> DEFINE n == Len(ch)
           skip(j) == IF j < k THEN j ELSE j + 1
           st2 == st \ {ch[k]}
<1>1. n \in Nat /\ k \in 1..n /\ \A j \in 1..n : ch[j] \in Names
  OBVIOUS
<1>2. /\ new \in Seq(Names) /\ Len(new) = n - 1
      /\ \A j \in 1..(n - 1) : new[j] = ch[skip(j)]
  <2> DEFINE a == SubSeq(ch, 1, k - 1)
             b == SubSeq(ch, k + 1, n)
  <2>1. a \in Seq(Names) /\ Len(a) = k - 1 /\ \A j \in 1..(k - 1) : a[j] = ch[j]
    <3>1. a = [j \in 1..(k - 1) |-> ch[j]] /\ k - 1 \in Nat
      BY <1>1
    <3> QED
      BY <1>1, <3>1
  <2>2. b \in Seq(Names) /\ Len(b) = n - k /\ \A j \in 1..(n - k) : b[j] = ch[k + j]
    <3>1. b = [j \in 1..(n - k) |-> ch[k + j]] /\ n - k \in Nat
      BY <1>1
    <3>2. \A j \in 1..(n - k) : k + j \in 1..n
      BY <1>1
    <3> QED
      BY <1>1, <3>1, <3>2
  <2>3. new = a \o b
    BY DEF Without
  <2> HIDE DEF a, b, n
  <2>4. /\ new \in Seq(Names) /\ Len(new) = (k - 1) + (n - k)
        /\ \A j \in 1..(k - 1) : new[j] = a[j]
        /\ \A j \in 1..(n - k) : new[(k - 1) + j] = b[j]
    <3>0. a \in Seq(Names) /\ b \in Seq(Names)
      BY <2>1, <2>2
    <3>1. /\ a \o b \in Seq(Names) /\ Len(a \o b) = Len(a) + Len(b)
          /\ \A j \in 1..Len(a) : (a \o b)[j] = a[j]
          /\ \A j \in 1..Len(b) : (a \o b)[Len(a) + j] = b[j]
      BY <3>0, Joined, SMTT(30)
    <3>2. /\ new \in Seq(Names) /\ Len(new) = Len(a) + Len(b)
          /\ \A j \in 1..Len(a) : new[j] = a[j]
          /\ \A j \in 1..Len(b) : new[Len(a) + j] = b[j]
      BY <2>3, <3>1, Zenon
    <3> QED
      BY <2>1, <2>2, <3>2, Zenon
  <2>5. ASSUME NEW j \in 1..(n - 1) PROVE new[j] = ch[skip(j)]
    <3>1. CASE j < k
      <4>1. j \in 1..(k - 1) /\ skip(j) = j
        BY <1>1, <3>1
      <4>2. new[j] = ch[j]
        BY <2>1, <2>4, <4>1
      <4> QED
        BY <4>1, <4>2
    <3>2. CASE ~(j < k)
      <4>1. j + 1 - k \in 1..(n - k) /\ (k - 1) + (j + 1 - k) = j /\ k + (j + 1 - k) = j + 1
        BY <1>1, <3>2
      <4>2. new[j] = b[j + 1 - k] /\ b[j + 1 - k] = ch[j + 1]
        BY <2>2, <2>4, <4>1
      <4> QED
        BY <3>2, <4>2
    <3> QED
      BY <3>1, <3>2
  <2>6. (k - 1) + (n - k) = n - 1
    BY <1>1
  <2> QED
    BY <2>4, <2>5, <2>6
<1> HIDE DEF n
<1>3. n = Len(ch)
  BY DEF n
<1>4. \A j \in 1..(n - 1) : skip(j) \in 1..n /\ skip(j) # k
  BY <1>1
<1>5. \A i, j \in 1..(n - 1) : skip(i) = skip(j) => i = j
  BY <1>1
<1>6. ASSUME NEW i \in 1..n, i # k PROVE \E j \in 1..(n - 1) : skip(j) = i /\ j <= i
  <2>1. CASE i < k
    <3>1. i \in 1..(n - 1) /\ skip(i) = i /\ i <= i
      BY <1>1, <2>1
    <3> QED
      BY <3>1
  <2>2. CASE ~(i < k)
    <3>1. i - 1 \in 1..(n - 1) /\ skip(i - 1) = i /\ i - 1 <= i
      BY <1>1, <1>6, <2>2
    <3> QED
      BY <3>1
  <2> QED
    BY <2>1, <2>2
<1>7. \A j \in 1..(n - 1) : j <= off => skip(j) <= off \/ (k <= off /\ skip(j) = off + 1)
  BY <1>1
<1> HIDE DEF skip
<1>8. NoTwice(new)
  <2> SUFFICES ASSUME NEW i \in 1..(n - 1), NEW j \in 1..(n - 1), new[i] = new[j] PROVE i = j
    BY <1>2 DEF NoTwice
  <2>1. ch[skip(i)] = ch[skip(j)] /\ skip(i) \in 1..n /\ skip(j) \in 1..n
    BY <1>2, <1>4
  <2>2. skip(i) = skip(j)
    BY <1>3, <2>1 DEF Progress, NoTwice
  <2> QED
    BY <1>5, <2>2
<1>9. ASSUME NEW i \in 1..n, ch[i] \in st2
      PROVE  \E j \in 1..(n - 1) : new[j] = ch[i] /\ j <= i
  <2>1. i # k
    BY <1>9
  <2>2. PICK j \in 1..(n - 1) : skip(j) = i /\ j <= i
    BY <1>6, <2>1
  <2> QED
    BY <1>2, <2>2
<1>10. st2 \subseteq Elements(new)
  <2> SUFFICES ASSUME NEW e \in st2 PROVE e \in Elements(new)
    OBVIOUS
  <2>1. PICK i \in 1..n : e = ch[i]
    BY <1>3 DEF Progress, Elements
  <2>2. PICK j \in 1..(n - 1) : new[j] = ch[i]
    BY <1>9, <2>1
  <2> QED
    BY <1>2, <2>1, <2>2 DEF Elements
<1>11. ASSUME NEW e \in st2, e \in Passed(ch, off) PROVE e \in Passed(new, off)
  <2>1. PICK i \in 1..n : e = ch[i] /\ i <= off
    BY <1>3, <1>11 DEF Passed
  <2>2. PICK j \in 1..(n - 1) : new[j] = ch[i] /\ j <= i
    BY <1>9, <2>1
  <2>3. j <= off
    BY <1>1, <2>1, <2>2
  <2> QED
    BY <1>2, <2>1, <2>2, <2>3 DEF Passed
<1>12. ASSUME NEW e \in Passed(new, off)
       PROVE  e \in Passed(ch, off) \/ (k <= off /\ e = ch[off + 1])
  <2>1. PICK j \in 1..(n - 1) : e = new[j] /\ j <= off
    BY <1>2, <1>12 DEF Passed
  <2>2. e = ch[skip(j)] /\ skip(j) \in 1..n
    BY <1>2, <1>4, <2>1
  <2>3. CASE skip(j) <= off
    BY <1>3, <2>2, <2>3 DEF Passed
  <2>4. CASE k <= off /\ skip(j) = off + 1
    BY <2>2, <2>4
  <2> QED
    BY <1>7, <2>1, <2>3, <2>4
<1> DEFINE missing == (st \cap Passed(ch, off)) \ Elements(out)
           missing2 == (st2 \cap Passed(new, off)) \ Elements(out)
<1>13. IsFiniteSet(missing) /\ Cardinality(missing) \in Nat /\ Cardinality(missing) <= sh
  <2>1. IsFiniteSet(missing)
    BY FS_Subset DEF Progress
  <2> QED
    BY <2>1, FS_CardinalityType DEF Progress
<1>14. Cardinality(missing2) <= sh2
  <2>1. CASE k <= off
    <3> DEFINE e == ch[off + 1]
    <3>1. missing2 \subseteq missing \cup {e}
      BY <1>12
    <3>2. IsFiniteSet(missing \cup {e}) /\ Cardinality(missing \cup {e}) <= Cardinality(missing) + 1
      <4> HIDE DEF missing, e
      <4>1. CASE e \in missing
        <5>1. missing \cup {e} = missing
          BY <4>1
        <5>2. Cardinality(missing) <= Cardinality(missing) + 1
          BY <1>13
        <5> QED
          BY <1>13, <5>1, <5>2, Zenon
      <4>2. CASE e \notin missing
        <5>1. /\ IsFiniteSet(missing \cup {e})
              /\ Cardinality(missing \cup {e}) = Cardinality(missing) + 1
          BY <1>13, <4>2, FS_AddElement, Zenon
        <5>2. Cardinality(missing) + 1 <= Cardinality(missing) + 1
          BY <1>13
        <5> QED
          BY <5>1, <5>2, Zenon
      <4> QED
        BY <4>1, <4>2
    <3> HIDE DEF missing, missing2, e
    <3>3. Cardinality(missing \cup {e}) \in Nat
      BY <3>2, FS_CardinalityType
    <3>4. Cardinality(missing \cup {e}) <= sh + 1 /\ sh + 1 \in Int
      BY <1>13, <3>2, <3>3
    <3>5. Cardinality(missing2) <= sh + 1
      BY <3>1, <3>2, <3>4, FewerMissing
    <3> QED
      BY <2>1, <3>5 DEF Down
  <2>2. CASE ~(k <= off)
    <3>1. missing2 \subseteq missing
      BY <1>12, <2>2
    <3> HIDE DEF missing, missing2
    <3>2. Cardinality(missing2) <= sh
      BY <1>13, <3>1, FewerMissing
    <3> QED
      BY <2>2, <3>2 DEF Down
  <2> QED
    BY <2>1, <2>2
<1>15. IsFiniteSet(st2)
  BY FS_Subset DEF Progress
<1>16. OnceIn(st2, out)
  BY DEF Progress, OnceIn
<1>17. st2 \cap Elements(out) \subseteq Passed(new, off)
  BY <1>11 DEF Progress
<1> QED
  BY <1>2, <1>8, <1>10, <1>14, <1>15, <1>16, <1>17 DEF Progress

(* A set of numbers that is not empty has a least one, and a greatest one  *)
(* when it is bounded.                                                     *)
LEMMA LeastNumber ==
  ASSUME NEW Ns, Ns \subseteq Nat, Ns # {}
  PROVE  \E n \in Ns : \A m \in Ns : n <= m
<1> DEFINE R == OpToRel(<, Nat)
<1>1. IsWellFoundedOn(R, Nat)
  BY NatLessThanWellFounded, Zenon
<1>2. \A u, v \in Nat : v < u => <<v, u>> \in R
  BY DEF OpToRel
<1> HIDE DEF R
<1>3. Ns \subseteq Nat /\ Ns # {}
  OBVIOUS
<1>4. \E u \in Ns : \A v \in Ns : ~(<<v, u>> \in R)
  BY <1>1, <1>3, WFMin
<1>5. PICK u \in Ns : \A v \in Ns : ~(<<v, u>> \in R)
  BY <1>4
<1>6. ASSUME NEW v \in Ns PROVE u <= v
  <2>1. u \in Nat /\ v \in Nat
    BY <1>3
  <2>2. ~(v < u)
    BY <1>2, <1>5, <2>1
  <2> QED
    BY <2>1, <2>2
<1> QED
  BY <1>6

(* A bounded set of numbers that is not empty has a greatest one.          *)
LEMMA GreatestNumber ==
  ASSUME NEW most \in Nat, NEW Ns, Ns \subseteq 0..most, Ns # {}
  PROVE  \E n \in Ns : \A m \in Ns : m <= n
<1> DEFINE Below == {d \in Nat : most - d \in Ns}
<1>1. Below # {}
  <2>1. PICK n \in Ns : TRUE
    OBVIOUS
  <2>2. most - n \in Nat /\ most - (most - n) = n
    OBVIOUS
  <2> QED
    BY <2>2
<1>2. PICK d \in Below : \A m \in Below : d <= m
  <2>1. Below \subseteq Nat
    OBVIOUS
  <2> HIDE DEF Below
  <2> QED
    BY <1>1, <2>1, LeastNumber
<1>3. ASSUME NEW m \in Ns PROVE m <= most - d
  <2>1. most - m \in Nat /\ most - (most - m) = m
    OBVIOUS
  <2>2. most - m \in Below
    BY <2>1
  <2>3. d <= most - m
    BY <1>2, <2>2
  <2> QED
    BY <2>1, <2>3
<1> QED
  BY <1>2, <1>3

(* The records of no entry, and of one.                                    *)
LEMMA FirstRecord ==
  ASSUME ListParameters, ListTypes, NEW from \in Nat
  PROVE  /\ L!Records(from, 0) = 0
         /\ from < Len(children) => L!Records(from, 1) = rec_len[children[from + 1]]
<1>1. L!Records(from, 0) = 0
  <2> DEFINE w == [k \in 0..0 |-> 0]
             Sum(f) == f = [k \in 0..0 |-> IF k = 0 THEN 0 ELSE f[k - 1] + rec_len[children[from + k]]]
  <2>1. Sum(w)
    OBVIOUS
  <2> HIDE DEF w
  <2>2. Sum(CHOOSE f : Sum(f))
    BY <2>1, Zenon
  <2>3. (CHOOSE f : Sum(f))[0] = 0
    BY <2>2
  <2> QED
    BY <2>3 DEF L!Records
<1>2. ASSUME from < Len(children) PROVE L!Records(from, 1) = rec_len[children[from + 1]]
  <2> DEFINE r == rec_len[children[from + 1]]
             w == [k \in 0..1 |-> IF k = 0 THEN 0 ELSE r]
             Sum(f) == f = [k \in 0..1 |-> IF k = 0 THEN 0 ELSE f[k - 1] + rec_len[children[from + k]]]
  <2>1. r \in Nat
    <3>1. from + 1 \in 1..Len(children)
      BY <1>2 DEF ListTypes
    <3> QED
      BY <3>1 DEF ListTypes, ListParameters
  <2>2. Sum(w)
    <3>1. w[0] = 0
      OBVIOUS
    <3>2. ASSUME NEW k \in 0..1
          PROVE  w[k] = IF k = 0 THEN 0 ELSE w[k - 1] + rec_len[children[from + k]]
      <4>1. CASE k = 0
        BY <4>1
      <4>2. CASE k = 1
        <5>1. w[k] = r /\ w[k - 1] = 0 /\ rec_len[children[from + k]] = r
          BY <4>2
        <5> QED
          BY <2>1, <4>2, <5>1
      <4> QED
        BY <4>1, <4>2
    <3> QED
      BY <3>2
  <2> HIDE DEF w
  <2>3. Sum(CHOOSE f : Sum(f))
    BY <2>2, Zenon
  <2>4. (CHOOSE f : Sum(f))[1] = r
    <3> DEFINE g == CHOOSE f : Sum(f)
    <3>1. Sum(g)
      BY <2>3
    <3> HIDE DEF g
    <3>2. g[0] = 0
      BY <3>1
    <3>3. g[1] = g[0] + r
      BY <3>1
    <3>4. g[1] = r
      BY <2>1, <3>2, <3>3
    <3> QED
      BY <3>4 DEF g
  <2> QED
    BY <2>4 DEF L!Records
<1> QED
  BY <1>1, <1>2

(* What getdents fills in: no entry only when the next one does not fit.   *)
LEMMA FilledFits ==
  ASSUME ListParameters, ListTypes, ~L!AtEnd
  PROVE  /\ L!Filled(offset, capacity) \in Nat
         /\ offset + L!Filled(offset, capacity) <= Len(children)
         /\ L!Filled(offset, capacity) = 0 => capacity < rec_len[children[offset + 1]]
<1> DEFINE left == Len(children) - offset
           Fits == L!Fitting(offset, capacity)
           Most(n) == \A k \in Fits : k <= n
           n == L!Filled(offset, capacity)
<1>1. left \in Nat /\ left > 0 /\ offset < Len(children) /\ offset \in Nat /\ capacity \in Nat
  BY DEF ListTypes, L!AtEnd
<1>2. L!Records(offset, 0) = 0 /\ L!Records(offset, 1) = rec_len[children[offset + 1]]
  BY <1>1, FirstRecord
<1>3. Fits = {k \in 0..left : L!Records(offset, k) <= capacity}
  BY DEF L!Fitting
<1>4. 0 \in 0..left /\ 1 \in 0..left
  BY <1>1
<1> HIDE DEF left
<1>5. 0 \in Fits /\ Fits \subseteq 0..left
  BY <1>1, <1>2, <1>3, <1>4
<1>6. n = CHOOSE m \in Fits : Most(m)
  BY DEF L!Filled
<1> HIDE DEF Fits, n
<1>7. \E m \in Fits : Most(m)
  BY <1>1, <1>5, GreatestNumber
<1>8. n \in Fits /\ Most(n)
  BY <1>6, <1>7, Zenon
<1>9. n \in 0..left
  BY <1>5, <1>8
<1>10. n \in Nat /\ offset + n <= Len(children)
  BY <1>1, <1>9 DEF left, ListTypes
<1>11. ASSUME n = 0 PROVE capacity < rec_len[children[offset + 1]]
  <2>1. ~(1 <= n)
    BY <1>11
  <2>2. 1 \notin Fits
    BY <1>8, <2>1
  <2>3. ~(L!Records(offset, 1) <= capacity)
    BY <1>3, <1>4, <2>2
  <2>4. rec_len[children[offset + 1]] \in Nat
    <3>1. offset + 1 \in 1..Len(children)
      BY <1>1 DEF ListTypes
    <3> QED
      BY <3>1 DEF ListTypes, ListParameters
  <2> QED
    BY <1>1, <1>2, <2>3, <2>4
<1> QED
  BY <1>10, <1>11 DEF n

(* The entries, as the listing's set of them.                              *)
LEMMA ElementsSame ==
  ASSUME NEW s \in Seq(Names)
  PROVE  L!ToSet(s) = Elements(s)
BY DEF L!ToSet, L!Range, Elements

(* How often a name is listed.                                             *)
LEMMA TimesListed ==
  ASSUME ListTypes, NEW name
  PROVE  /\ (\A j, k \in 1..Len(listed) : listed[j] = name /\ listed[k] = name => j = k)
              => L!Times(name) <= 1
         /\ L!Times(name) = 0 => name \notin Elements(listed)
<1> DEFINE Where == {k \in 1..Len(listed) : listed[k] = name}
<1>1. L!Times(name) = Cardinality(Where)
  <2>1. DOMAIN listed = 1..Len(listed)
    BY DEF ListTypes
  <2>2. L!Times(name) = L!Cardinality(Where)
    BY <2>1 DEF L!Times
  <2> QED
    BY <2>2 DEF L!Cardinality, Cardinality, L!IsFiniteSet, IsFiniteSet
<1>2. IsFiniteSet(Where)
  <2>1. Len(listed) \in Nat
    BY DEF ListTypes
  <2>2. IsFiniteSet(1..Len(listed))
    BY <2>1, FS_Interval
  <2>3. Where \subseteq 1..Len(listed)
    OBVIOUS
  <2> QED
    BY <2>2, <2>3, FS_Subset
<1>3. ASSUME \A j, k \in 1..Len(listed) : listed[j] = name /\ listed[k] = name => j = k
      PROVE  Cardinality(Where) <= 1
  <2>1. CASE Where = {}
    BY <2>1, FS_EmptySet
  <2>2. CASE Where # {}
    <3>1. PICK k \in Where : TRUE
      BY <2>2
    <3>2. Where = {k}
      BY <1>3, <3>1
    <3>3. Cardinality(Where) = 1
      BY <3>2, FS_Singleton
    <3> QED
      BY <3>3
  <2> QED
    BY <2>1, <2>2
<1>4. ASSUME Cardinality(Where) = 0 PROVE name \notin Elements(listed)
  <2> HIDE DEF Where
  <2>1. Where = {}
    BY <1>2, <1>4, FS_EmptySet
  <2> QED
    BY <2>1 DEF Elements, Where
<1> QED
  BY <1>1, <1>3, <1>4

(* The listing so far gives the property.                                  *)
LEMMA ListInvOnce == ListParameters /\ ListInv => ListsOnce
<1> SUFFICES ASSUME ListParameters, ListInv PROVE ListsOnce
  OBVIOUS
<1> DEFINE out == listed \o buf
<1>1. ListTypes /\ Progress(children, offset, stable, out, shifted)
  BY DEF ListInv
<1>2. /\ Len(out) = Len(listed) + Len(buf)
      /\ \A k \in 1..Len(listed) : out[k] = listed[k]
  <2>1. listed \in Seq(Names) /\ buf \in Seq(Names)
    BY <1>1 DEF ListTypes
  <2> QED
    BY <2>1, Joined, SMTT(30)
<1>3. \A k \in 1..Len(listed) : k \in 1..Len(out)
  BY <1>1, <1>2 DEF ListTypes
<1> HIDE DEF out
<1>4. ASSUME NEW name \in stable PROVE L!Times(name) <= 1
  <2>1. \A j, k \in 1..Len(listed) : listed[j] = name /\ listed[k] = name => j = k
    BY <1>1, <1>2, <1>3 DEF Progress, OnceIn
  <2> QED
    BY <1>1, <2>1, TimesListed
<1>5. ASSUME listAt = "end"
      PROVE  L!Cardinality({name \in stable : L!Times(name) = 0}) <= shifted
  <2> DEFINE unlisted == {name \in stable : L!Times(name) = 0}
             missing == (stable \cap Passed(children, offset)) \ Elements(out)
  <2>1. offset >= Len(children) /\ buf = <<>>
    BY <1>5 DEF ListInv
  <2>2. \A e \in stable : e \in Passed(children, offset)
    <3>1. \A k \in 1..Len(children) : k <= offset
      BY <1>1, <2>1 DEF ListTypes
    <3> QED
      BY <1>1, <3>1 DEF Progress, Elements, Passed
  <2>3. out = listed
    BY <1>1, <2>1 DEF out, ListTypes
  <2>4. \A name \in unlisted : name \notin Elements(out)
    BY <1>1, <2>3, TimesListed
  <2>5. unlisted \subseteq missing
    BY <2>2, <2>4
  <2>6. IsFiniteSet(missing) /\ Cardinality(missing) <= shifted /\ shifted \in Int
    <3>1. IsFiniteSet(missing)
      BY <1>1, FS_Subset DEF Progress
    <3> QED
      BY <1>1, <3>1 DEF Progress, ListTypes
  <2> HIDE DEF unlisted, missing
  <2>7. Cardinality(unlisted) <= shifted
    BY <2>5, <2>6, FewerMissing
  <2>8. L!Cardinality(unlisted) = Cardinality(unlisted)
    BY DEF L!Cardinality, Cardinality, L!IsFiniteSet, IsFiniteSet
  <2> QED
    BY <2>7, <2>8 DEF unlisted
<1>6. capacity = FirstCapacity \/ \E name \in Names : capacity < 2 * rec_len[name]
  BY DEF ListInv
<1> QED
  BY <1>4, <1>5, <1>6 DEF ListsOnce, L!ListsOnce

(* readdir: handing out an entry moves it from the buffer to the listing.  *)
LEMMA HeadListed ==
  ASSUME NEW a \in Seq(Names), NEW b \in Seq(Names), b # <<>>
  PROVE  /\ Append(a, Head(b)) \in Seq(Names) /\ Tail(b) \in Seq(Names)
         /\ Append(a, Head(b)) \o Tail(b) = a \o b
<1> DEFINE c == Append(a, Head(b))
           d == Tail(b)
<1>1. Len(b) \in Nat \ {0} /\ Len(a) \in Nat /\ b[1] \in Names /\ Head(b) = b[1]
  OBVIOUS
<1>2. /\ c \in Seq(Names) /\ Len(c) = Len(a) + 1 /\ c[Len(a) + 1] = b[1]
      /\ \A k \in 1..Len(a) : c[k] = a[k]
  BY <1>1
<1>3. d \in Seq(Names) /\ Len(d) = Len(b) - 1 /\ \A k \in 1..(Len(b) - 1) : d[k] = b[k + 1]
  BY <1>1
<1> HIDE DEF c, d
<1>4. /\ c \o d \in Seq(Names) /\ Len(c \o d) = Len(c) + Len(d)
      /\ \A k \in 1..Len(c) : (c \o d)[k] = c[k]
      /\ \A k \in 1..Len(d) : (c \o d)[Len(c) + k] = d[k]
  <2>1. c \in Seq(Names) /\ d \in Seq(Names)
    BY <1>2, <1>3
  <2> QED
    BY <2>1, Joined, SMTT(30)
<1>5. /\ a \o b \in Seq(Names) /\ Len(a \o b) = Len(a) + Len(b)
      /\ \A k \in 1..Len(a) : (a \o b)[k] = a[k]
      /\ \A k \in 1..Len(b) : (a \o b)[Len(a) + k] = b[k]
  <2>1. a \in Seq(Names) /\ b \in Seq(Names)
    OBVIOUS
  <2> QED
    BY <2>1, Joined, SMTT(30)
<1> DEFINE x == c \o d
           y == a \o b
<1>6. x \in Seq(Names) /\ y \in Seq(Names)
  BY <1>4, <1>5
<1>7. Len(x) = Len(y)
  BY <1>1, <1>2, <1>3, <1>4, <1>5
<1>8. /\ \A k \in 1..Len(c) : x[k] = c[k]
      /\ \A k \in 1..Len(d) : x[Len(c) + k] = d[k]
      /\ \A k \in 1..Len(a) : y[k] = a[k]
      /\ \A k \in 1..Len(b) : y[Len(a) + k] = b[k]
      /\ Len(x) = Len(a) + Len(b)
  BY <1>4, <1>5, <1>7
<1> HIDE DEF x, y
<1>9. ASSUME NEW k \in 1..Len(x) PROVE x[k] = y[k]
  <2>1. CASE k <= Len(a)
    <3>1. k \in 1..Len(a) /\ k \in 1..Len(c)
      BY <1>1, <1>2, <2>1
    <3> QED
      BY <1>2, <1>8, <3>1
  <2>2. CASE k = Len(a) + 1
    <3>1. k \in 1..Len(c) /\ 1 \in 1..Len(b)
      BY <1>1, <1>2, <2>2
    <3>2. x[k] = b[1]
      BY <1>2, <1>8, <2>2, <3>1
    <3>3. y[Len(a) + 1] = b[1]
      BY <1>8, <3>1
    <3> QED
      BY <2>2, <3>2, <3>3
  <2>3. CASE k > Len(a) + 1
    <3> DEFINE m == k - Len(a) - 1
    <3>1. m \in 1..(Len(b) - 1) /\ m \in 1..Len(d) /\ m + 1 \in 1..Len(b)
      BY <1>1, <1>3, <1>8, <2>3
    <3>2. Len(c) + m = k /\ Len(a) + (m + 1) = k
      BY <1>1, <1>2
    <3> HIDE DEF m
    <3>3. x[Len(c) + m] = d[m] /\ y[Len(a) + (m + 1)] = b[m + 1] /\ d[m] = b[m + 1]
      BY <1>3, <1>8, <3>1
    <3> QED
      BY <3>2, <3>3
  <2> QED
    BY <1>1, <2>1, <2>2, <2>3
<1>10. x = y
  BY <1>6, <1>7, <1>9
<1> QED
  BY <1>2, <1>3, <1>10 DEF c, d, x, y

(* The reader's own calls.                                                 *)
LEMMA StepReaddir ==
  ASSUME ListParameters, ListInv, L!Refill \/ L!Enlarge \/ L!End \/ L!Take
  PROVE  ListInv'
<1> USE DEF ListInv
<1>1. CASE L!Refill
  <2> DEFINE n == L!Filled(offset, capacity)
  <2>1. /\ ListTypes /\ buf = <<>> /\ ~L!AtEnd
        /\ buf' = SubSeq(children, offset + 1, offset + n) /\ offset' = offset + n
        /\ children' = children /\ stable' = stable /\ shifted' = shifted /\ listed' = listed
        /\ capacity' = capacity /\ listAt' = listAt /\ listAt = "reading"
    BY <1>1 DEF L!Refill, L!dentry_getdents, L!Others
  <2>2. n \in Nat /\ offset + n <= Len(children)
    BY <2>1, FilledFits
  <2> HIDE DEF n
  <2>3. listed \o buf = listed
    BY <2>1 DEF ListTypes
  <2>4. Progress(children, offset, stable, listed, shifted)
    BY <2>3
  <2>5. Progress(children, offset + n, stable, listed \o buf', shifted)
    BY <2>1, <2>2, <2>4, ProgressRefill DEF ListTypes
  <2>6. Progress(children', offset', stable', listed' \o buf', shifted')
    BY <2>1, <2>5
  <2>7. buf' \in Seq(Names) /\ offset' \in Nat
    BY <2>1, <2>2 DEF ListTypes
  <2>8. ListTypes'
    BY <2>1, <2>7 DEF ListTypes
  <2> QED
    BY <2>1, <2>6, <2>8
<1>2. CASE L!Enlarge
  <2>1. /\ ListTypes /\ ~L!AtEnd /\ L!Filled(offset, capacity) = 0
        /\ capacity' = 2 * capacity /\ offset' = offset /\ buf' = buf /\ listAt' = listAt
        /\ listed' = listed
        /\ children' = children /\ stable' = stable /\ shifted' = shifted
    BY <1>2 DEF L!Enlarge, L!Others
  <2>2. capacity < rec_len[children[offset + 1]]
    BY <2>1, FilledFits
  <2>3. children[offset + 1] \in Names /\ rec_len[children[offset + 1]] \in Nat
    <3>1. offset + 1 \in 1..Len(children)
      BY <2>1 DEF ListTypes, L!AtEnd
    <3> QED
      BY <2>1, <3>1 DEF ListTypes, ListParameters
  <2>4. capacity' \in Nat /\ capacity' < 2 * rec_len[children[offset + 1]]
    <3> DEFINE r == rec_len[children[offset + 1]]
    <3>1. r \in Nat /\ capacity \in Nat /\ capacity < r /\ capacity' = 2 * capacity
      BY <2>1, <2>2, <2>3 DEF ListTypes
    <3> HIDE DEF r
    <3>2. capacity' \in Nat /\ capacity' < 2 * r
      BY <3>1
    <3> QED
      BY <3>2 DEF r
  <2>5. ListTypes'
    BY <2>1, <2>4 DEF ListTypes
  <2>6. \E name \in Names : capacity' < 2 * rec_len[name]
    BY <2>3, <2>4
  <2> QED
    BY <2>1, <2>5, <2>6
<1>3. CASE L!End
  <2>1. /\ ListTypes /\ buf = <<>> /\ offset >= Len(children)
        /\ capacity' = capacity /\ offset' = offset /\ buf' = buf /\ listed' = listed
        /\ children' = children /\ stable' = stable /\ shifted' = shifted
    BY <1>3 DEF L!End, L!Others, L!AtEnd
  <2>2. ListTypes'
    BY <2>1 DEF ListTypes
  <2> QED
    BY <2>1, <2>2
<1>4. CASE L!Take
  <2>1. /\ ListTypes /\ buf # <<>> /\ listAt = "reading" /\ listAt' = listAt
        /\ listed' = Append(listed, Head(buf)) /\ buf' = Tail(buf)
        /\ capacity' = capacity /\ offset' = offset
        /\ children' = children /\ stable' = stable /\ shifted' = shifted
    BY <1>4 DEF L!Take, L!Others
  <2>2. listed' \in Seq(Names) /\ buf' \in Seq(Names) /\ listed' \o buf' = listed \o buf
    BY <2>1, HeadListed DEF ListTypes
  <2>3. ListTypes'
    BY <2>1, <2>2 DEF ListTypes
  <2> QED
    BY <2>1, <2>2, <2>3
<1> QED
  BY <1>1, <1>2, <1>3, <1>4

(* What others do to the directory.                                        *)
LEMMA StepChanged ==
  ASSUME ListParameters, ListInv, NEW name \in Names, L!dentry_append(name) \/ L!dentry_remove(name)
  PROVE  ListInv'
<1> USE DEF ListInv
<1>1. ListTypes /\ listed \o buf \in Seq(Names)
  <2>1. ListTypes /\ listed \in Seq(Names) /\ buf \in Seq(Names)
    BY DEF ListTypes
  <2> QED
    BY <2>1, Joined, SMTT(30)
<1> DEFINE out == listed \o buf
<1>2. CASE L!dentry_append(name)
  <2>1. /\ name \notin L!ToSet(children) /\ children' = Append(children, name)
        /\ stable' = stable /\ shifted' = shifted /\ listAt = "reading"
        /\ offset' = offset /\ buf' = buf /\ capacity' = capacity /\ listAt' = listAt /\ listed' = listed
    BY <1>2 DEF L!dentry_append, L!Changing, L!Reader
  <2>2. name \notin Elements(children)
    BY <1>1, <2>1, ElementsSame DEF ListTypes
  <2>3. Progress(children, offset, stable, out, shifted)
    OBVIOUS
  <2> HIDE DEF out
  <2>4. Progress(Append(children, name), offset, stable, out, shifted)
    BY <1>1, <2>2, <2>3, ProgressAppend DEF ListTypes, out
  <2>5. Append(children, name) \in Seq(Names)
    BY <1>1 DEF ListTypes
  <2>6. ListTypes'
    BY <1>1, <2>1, <2>5 DEF ListTypes
  <2>7. Progress(children', offset', stable', listed' \o buf', shifted')
    BY <2>1, <2>4 DEF out
  <2> QED
    BY <2>1, <2>6, <2>7
<1>3. CASE L!dentry_remove(name)
  <2> DEFINE k == CHOOSE j \in DOMAIN children : children[j] = name
  <2>1. /\ name \in L!ToSet(children) /\ children' = L!RemoveAt(children, k)
        /\ shifted' = shifted + (IF k <= offset THEN 1 ELSE 0)
        /\ stable' = stable \ {name} /\ listAt = "reading"
        /\ offset' = offset /\ buf' = buf /\ capacity' = capacity /\ listAt' = listAt /\ listed' = listed
    BY <1>3 DEF L!dentry_remove, L!Changing, L!Reader
  <2>2. k \in 1..Len(children) /\ children[k] = name
    <3>1. \E j \in DOMAIN children : children[j] = name
      BY <1>1, <2>1, ElementsSame DEF ListTypes, Elements
    <3>2. k \in DOMAIN children /\ children[k] = name
      BY <3>1, Zenon
    <3> HIDE DEF k
    <3> QED
      BY <1>1, <3>2 DEF ListTypes
  <2> HIDE DEF k, out
  <2>3. children' = SubSeq(children, 1, k - 1) \o SubSeq(children, k + 1, Len(children))
    BY <2>1 DEF L!RemoveAt
  <2>4. Progress(children, offset, stable, out, shifted)
    BY DEF out
  <2>5. /\ children' \in Seq(Names)
        /\ Progress(children', offset, stable \ {children[k]}, out, shifted')
    <3>1. /\ children \in Seq(Names) /\ offset \in Nat /\ out \in Seq(Names) /\ shifted \in Nat
      BY <1>1 DEF ListTypes, out
    <3> DEFINE new == children'
    <3>2. new = Without(children, k)
      BY <2>3 DEF Without
    <3> DEFINE count == shifted'
    <3>3. count = shifted + Down(k, offset)
      BY <2>1 DEF Down
    <3>4. k \in 1..Len(children)
      BY <2>2
    <3> HIDE DEF new, count
    <3>5. new \in Seq(Names) /\ Progress(new, offset, stable \ {children[k]}, out, count)
      BY <2>4, <3>1, <3>2, <3>3, <3>4, ProgressRemove
    <3> QED
      BY <3>5 DEF new, count
  <2>6. shifted' \in Nat
    BY <1>1, <2>1 DEF ListTypes
  <2>7. ListTypes'
    BY <1>1, <2>1, <2>5, <2>6 DEF ListTypes
  <2>8. Progress(children', offset', stable', listed' \o buf', shifted')
    BY <2>1, <2>2, <2>5 DEF out
  <2> QED
    BY <2>1, <2>7, <2>8
<1> QED
  BY <1>2, <1>3

(* Before the first call nothing is listed.                                *)
LEMMA InitListInv == ListParameters /\ L!Init => ListInv
<1> SUFFICES ASSUME ListParameters, L!Init PROVE ListInv
  OBVIOUS
<1>1. /\ children = InitialNames /\ offset = 0 /\ buf = <<>> /\ capacity = FirstCapacity
      /\ listAt = "reading" /\ listed = <<>> /\ stable = L!ToSet(InitialNames) /\ shifted = 0
  BY DEF L!Init
<1>2. ListTypes /\ InitialNames \in Seq(Names) /\ listed \o buf = <<>>
  BY <1>1 DEF ListTypes, ListParameters
<1>3. stable = Elements(children)
  BY <1>1, <1>2, ElementsSame
<1>4. IsFiniteSet(stable)
  <2>1. Len(children) \in Nat
    BY <1>1, <1>2
  <2>2. IsFiniteSet(1..Len(children))
    BY <2>1, FS_Interval
  <2>3. children \in Surjection(1..Len(children), Elements(children))
    BY <1>2 DEF Elements, Surjection, ListTypes
  <2>4. IsFiniteSet(Elements(children))
    BY <2>2, <2>3, FS_Surjection
  <2> QED
    BY <1>3, <2>4
<1>5. Elements(<<>>) = {} /\ OnceIn(stable, <<>>)
  BY DEF Elements, OnceIn
<1>6. Passed(children, 0) = {}
  BY DEF Passed
<1>7. Cardinality((stable \cap Passed(children, 0)) \ Elements(<<>>)) <= 0
  <2>1. (stable \cap Passed(children, 0)) \ Elements(<<>>) = {}
    BY <1>6
  <2>2. Cardinality({}) = 0 /\ 0 <= 0
    BY FS_EmptySet
  <2> QED
    BY <2>1, <2>2, Zenon
<1>8. NoTwice(children)
  BY <1>1 DEF ListParameters
<1>9. Progress(children, 0, stable, <<>>, 0)
  BY <1>3, <1>4, <1>5, <1>7, <1>8 DEF Progress
<1> QED
  BY <1>1, <1>2, <1>9 DEF ListInv

(* readdir lists a name that stays in its directory once at most, and in   *)
(* the end all of them but one for each entry removed behind the reader's  *)
(* offset, whatever others add and remove between its calls of getdents;   *)
(* its buffer stays below twice the largest record.                        *)
THEOREM DirectoryListsOnce == ASSUME ListParameters PROVE L!Spec => []ListsOnce
<1>1. L!Init => ListInv
  BY InitListInv
<1>2. ListInv /\ [L!Next]_L!listVars => ListInv'
  <2> SUFFICES ASSUME ListInv, [L!Next]_L!listVars PROVE ListInv'
    OBVIOUS
  <2>1. CASE L!Refill \/ L!Enlarge \/ L!End \/ L!Take
    BY <2>1, StepReaddir
  <2>2. ASSUME NEW name \in Names, L!dentry_append(name) \/ L!dentry_remove(name) PROVE ListInv'
    BY <2>2, StepChanged
  <2>3. CASE UNCHANGED L!listVars
    BY <2>3 DEF ListInv, ListTypes, L!listVars
  <2> QED
    BY <2>1, <2>2, <2>3 DEF L!Next
<1>3. ListInv => ListsOnce
  BY ListInvOnce
<1> QED
  BY <1>1, <1>2, <1>3, PTL DEF L!Spec
-----------------------------------------------------------------------------
(* The buffer of a file and the bytes it stands for: zeros behind the      *)
(* size, so that a hole or a file made longer reads as zeros.              *)
VecOk(v, b) ==
  /\ v \in [data : Seq(Nat), size : Nat] /\ b \in Seq(Nat)
  /\ v.size <= Len(v.data) /\ Len(b) = v.size
  /\ \A k \in 1..v.size : v.data[k] = b[k]
  /\ \A k \in 1..Len(v.data) : k > v.size => v.data[k] = 0

Spliced(d, s, from, to) == SubSeq(d, 1, from) \o s \o SubSeq(d, to + 1, Len(d))

Laid(r, d, s, from, to) ==
  /\ r \in Seq(Nat) /\ Len(r) = Len(d)
  /\ \A k \in 1..Len(d) : k <= from \/ k > to => r[k] = d[k]
  /\ \A k \in 1..Len(s) : r[from + k] = s[k]

Over(o, b, s, off, to) ==
  /\ o \in Seq(Nat) /\ Len(o) = F!Max2(Len(b), to)
  /\ \A k \in 1..Len(s) : o[off + k] = s[k]
  /\ \A k \in 1..Len(b) : k <= off \/ k > to => o[k] = b[k]
  /\ \A k \in 1..Len(o) : k > Len(b) /\ k <= off => o[k] = 0

(* A sequence with another one laid over it.                               *)
LEMMA Splice ==
  ASSUME NEW d \in Seq(Nat), NEW s \in Seq(Nat), NEW from \in Nat, NEW to \in Nat,
         to = from + Len(s), to <= Len(d)
  PROVE  Laid(Spliced(d, s, from, to), d, s, from, to)
<1> DEFINE a == SubSeq(d, 1, from)
           b == SubSeq(d, to + 1, Len(d))
           n == Len(d)
           m == Len(s)
           r == Spliced(d, s, from, to)
<1>1. n \in Nat /\ m \in Nat /\ to = from + m /\ to <= n /\ \A k \in 1..n : d[k] \in Nat
  <2>1. n \in Nat /\ m \in Nat
    OBVIOUS
  <2>2. \A k \in 1..n : d[k] \in Nat
    OBVIOUS
  <2> QED
    BY <2>1, <2>2
<1>2. a \in Seq(Nat) /\ Len(a) = from /\ \A k \in 1..from : a[k] = d[k]
  <2>1. a = [k \in 1..from |-> d[k]]
    BY <1>1
  <2>2. \A k \in 1..from : k \in 1..n
    BY <1>1
  <2> HIDE DEF a
  <2> QED
    BY <1>1, <2>1, <2>2
<1>3. b \in Seq(Nat) /\ Len(b) = n - to /\ \A k \in 1..(n - to) : b[k] = d[to + k]
  <2>1. b = [k \in 1..(n - to) |-> d[to + k]] /\ n - to \in Nat
    BY <1>1
  <2>2. \A k \in 1..(n - to) : to + k \in 1..n
    BY <1>1
  <2> HIDE DEF b
  <2> QED
    BY <1>1, <2>1, <2>2
<1>4. r = (a \o s) \o b
  BY DEF Spliced
<1> DEFINE c == a \o s
<1> HIDE DEF a, b, n, m, r
<1>5. /\ c \in Seq(Nat) /\ Len(c) = Len(a) + Len(s)
      /\ \A k \in 1..Len(a) : c[k] = a[k]
      /\ \A k \in 1..Len(s) : c[Len(a) + k] = s[k]
  <2>1. a \in Seq(Nat) /\ s \in Seq(Nat)
    BY <1>2
  <2> QED
    BY <2>1, Joined, SMTT(30)
<1> HIDE DEF c
<1>6. /\ c \o b \in Seq(Nat) /\ Len(c \o b) = Len(c) + Len(b)
      /\ \A k \in 1..Len(c) : (c \o b)[k] = c[k]
      /\ \A k \in 1..Len(b) : (c \o b)[Len(c) + k] = b[k]
  <2>1. b \in Seq(Nat) /\ c \in Seq(Nat)
    BY <1>3, <1>5
  <2> QED
    BY <2>1, Joined, SMTT(30)
<1>7. r = c \o b
  BY <1>4 DEF c
<1>8. /\ r \in Seq(Nat) /\ Len(r) = Len(c) + Len(b)
      /\ \A k \in 1..Len(c) : r[k] = c[k]
      /\ \A k \in 1..Len(b) : r[Len(c) + k] = b[k]
  BY <1>6, <1>7, Zenon
<1>9. Len(s) = m /\ Len(d) = n
  BY DEF m, n
<1>10. Len(c) = to /\ Len(r) = n
  BY <1>1, <1>2, <1>3, <1>5, <1>8, <1>9
<1>11. ASSUME NEW k \in 1..n, k <= from PROVE r[k] = d[k]
  <2>1. k \in 1..Len(c) /\ k \in 1..Len(a) /\ k \in 1..from
    BY <1>1, <1>2, <1>10, <1>11
  <2> QED
    BY <1>2, <1>5, <1>8, <2>1
<1>12. ASSUME NEW k \in 1..n, k > to PROVE r[k] = d[k]
  <2>1. k - to \in 1..(n - to) /\ to + (k - to) = k
    BY <1>1, <1>12
  <2>2. r[Len(c) + (k - to)] = b[k - to]
    BY <1>3, <1>8, <2>1
  <2>3. b[k - to] = d[to + (k - to)]
    BY <1>3, <2>1
  <2> QED
    BY <1>10, <2>1, <2>2, <2>3
<1>13. ASSUME NEW k \in 1..m PROVE r[from + k] = s[k]
  <2>1. from + k \in 1..Len(c)
    BY <1>1, <1>10
  <2>2. c[from + k] = s[k]
    BY <1>2, <1>5, <1>9
  <2> QED
    BY <1>8, <2>1, <2>2
<1> QED
  BY <1>8, <1>9, <1>10, <1>11, <1>12, <1>13 DEF Laid, r

(* grow_capacity makes room for what was asked for.                        *)
LEMMA GrownEnough ==
  ASSUME PageSize \in Nat \ {0}, NEW v \in [data : Seq(Nat), size : Nat],
         NEW want \in Nat, want > Len(v.data)
  PROVE  F!GrownTo(v, want) \in Nat /\ F!GrownTo(v, want) >= want
<1> DEFINE w == F!Max2(2 * Len(v.data), want)
           q == (w + PageSize - 1) \div PageSize
<1>1. Len(v.data) \in Nat
  OBVIOUS
<1>2. w \in Nat /\ w >= want /\ w > 0
  BY <1>1 DEF F!Max2
<1>3. F!GrownTo(v, want) = F!RoundUp(w)
  BY <1>2 DEF F!GrownTo
<1>4. F!RoundUp(w) = q * PageSize
  BY DEF F!RoundUp
<1> HIDE DEF w
<1> DEFINE z == w + PageSize - 1
<1>5. z \in Nat /\ q = z \div PageSize
  BY <1>2
<1>6. /\ z \div PageSize \in Nat /\ z % PageSize \in 0..(PageSize - 1)
      /\ z = PageSize * (z \div PageSize) + (z % PageSize)
  <2> HIDE DEF z
  <2>1. z % PageSize \in 0..(PageSize - 1)
    BY <1>5, SMTT(30)
  <2>2. z = PageSize * (z \div PageSize) + (z % PageSize)
    BY <1>5, SMTT(30)
  <2>3. z \div PageSize \in Nat
    BY <1>5, SMTT(30)
  <2> QED
    BY <2>1, <2>2, <2>3
<1>7. q \in Nat /\ PageSize * q + (z % PageSize) = z /\ z % PageSize \in 0..(PageSize - 1)
  BY <1>5, <1>6
<1>8. z = w + PageSize - 1
  OBVIOUS
<1>9. PageSize * q = q * PageSize /\ q * PageSize \in Nat
  <2> HIDE DEF q, z
  <2> QED
    BY <1>7
<1> HIDE DEF q, z
<1>10. q * PageSize >= w
  <2> DEFINE p == q * PageSize
             e == z % PageSize
  <2>1. p \in Nat /\ e \in 0..(PageSize - 1) /\ p + e = z
    BY <1>7, <1>9
  <2> HIDE DEF p, e
  <2>2. p >= w
    BY <1>2, <1>8, <2>1
  <2> QED
    BY <2>2 DEF p
<1> QED
  BY <1>2, <1>3, <1>4, <1>9, <1>10

(* The zeros of a buffer.                                                  *)
LEMMA ZerosSeq ==
  ASSUME NEW n \in Nat
  PROVE  F!Zeros(n) \in Seq(Nat) /\ Len(F!Zeros(n)) = n /\ \A k \in 1..n : F!Zeros(n)[k] = 0
BY DEF F!Zeros

(* What a buffer holds is not changed by growing it.                       *)
LEMMA GrownSame ==
  ASSUME PageSize \in Nat \ {0}, NEW v, NEW b, VecOk(v, b), NEW want \in Nat, want > Len(v.data)
  PROVE  /\ VecOk(F!Grow(v, want), b) /\ F!Grow(v, want).size = v.size
         /\ Len(F!Grow(v, want).data) = F!GrownTo(v, want)
         /\ Len(F!Grow(v, want).data) >= want
<1> DEFINE g == F!GrownTo(v, want)
           a == SubSeq(v.data, 1, v.size)
           z == F!Zeros(g - v.size)
           w == F!Grow(v, want)
<1>1. v \in [data : Seq(Nat), size : Nat] /\ v.size <= Len(v.data) /\ Len(v.data) \in Nat
  BY DEF VecOk
<1>2. g \in Nat /\ g >= want
  BY <1>1, GrownEnough
<1> HIDE DEF g
<1>3. g - v.size \in Nat
  BY <1>1, <1>2
<1>4. z \in Seq(Nat) /\ Len(z) = g - v.size /\ \A k \in 1..(g - v.size) : z[k] = 0
  BY <1>3, ZerosSeq
<1>5. a \in Seq(Nat) /\ Len(a) = v.size /\ \A k \in 1..v.size : a[k] = v.data[k]
  <2>1. a = [k \in 1..v.size |-> v.data[k]]
    BY <1>1
  <2>2. \A k \in 1..v.size : v.data[k] \in Nat
    BY <1>1
  <2> HIDE DEF a
  <2> QED
    BY <1>1, <2>1, <2>2
<1>6. w = [data |-> a \o z, size |-> v.size]
  <2>1. w = [v EXCEPT !.data = a \o z]
    BY DEF F!Grow, g
  <2> HIDE DEF a, z, w
  <2>2. v = [data |-> v.data, size |-> v.size]
    BY <1>1
  <2> QED
    BY <2>1, <2>2
<1> DEFINE d == a \o z
<1> HIDE DEF a, z, w
<1>7. /\ d \in Seq(Nat) /\ Len(d) = Len(a) + Len(z)
      /\ \A k \in 1..Len(a) : d[k] = a[k]
      /\ \A k \in 1..Len(z) : d[Len(a) + k] = z[k]
  <2>1. a \in Seq(Nat) /\ z \in Seq(Nat)
    BY <1>4, <1>5
  <2> QED
    BY <2>1, Joined, SMTT(30)
<1>8. w.data = d /\ w.size = v.size /\ w = [data |-> d, size |-> v.size]
  BY <1>6
<1> HIDE DEF d
<1>9. Len(d) = g
  BY <1>1, <1>2, <1>4, <1>5, <1>7
<1>10. \A k \in 1..v.size : d[k] = b[k]
  BY <1>5, <1>7 DEF VecOk
<1>11. ASSUME NEW k \in 1..g, k > v.size PROVE d[k] = 0
  <2>1. k - v.size \in 1..(g - v.size) /\ v.size + (k - v.size) = k
    BY <1>1, <1>2, <1>11
  <2>2. d[v.size + (k - v.size)] = z[k - v.size]
    BY <1>4, <1>5, <1>7, <2>1
  <2> QED
    BY <1>4, <2>1, <2>2
<1>12. w \in [data : Seq(Nat), size : Nat]
  BY <1>1, <1>7, <1>8
<1>13. v.size <= g
  BY <1>1, <1>2
<1>14. VecOk(w, b)
  BY <1>8, <1>9, <1>10, <1>11, <1>12, <1>13 DEF VecOk
<1> QED
  BY <1>2, <1>8, <1>9, <1>14 DEF w, g

(* A file that is only its bytes, made longer.                             *)
LEMMA PaddedBytes ==
  ASSUME NEW b \in Seq(Nat), NEW n \in Nat
  PROVE  /\ F!Padded(b, n) \in Seq(Nat) /\ Len(F!Padded(b, n)) = F!Max2(Len(b), n)
         /\ \A k \in 1..Len(b) : F!Padded(b, n)[k] = b[k]
         /\ \A k \in 1..Len(F!Padded(b, n)) : k > Len(b) => F!Padded(b, n)[k] = 0
<1> DEFINE p == F!Padded(b, n)
           m == Len(b)
           z == F!Zeros(n - m)
<1>1. m \in Nat
  OBVIOUS
<1>2. CASE m >= n
  <2>1. p = b
    BY <1>2 DEF F!Padded
  <2>2. F!Max2(m, n) = m
    BY <1>1, <1>2 DEF F!Max2
  <2> HIDE DEF p, m
  <2>3. Len(b) = m
    BY DEF m
  <2>4. \A k \in 1..m : ~(k > m)
    BY <1>1
  <2>5. p \in Seq(Nat) /\ Len(p) = F!Max2(m, n)
    BY <2>1, <2>2, <2>3
  <2>6. /\ \A k \in 1..m : p[k] = b[k]
        /\ \A k \in 1..Len(p) : k > m => p[k] = 0
    BY <2>1, <2>3, <2>4
  <2> QED
    BY <2>5, <2>6 DEF p, m
<1>3. CASE ~(m >= n)
  <2>1. p = b \o z
    BY <1>3 DEF F!Padded
  <2>2. F!Max2(m, n) = n /\ n - m \in Nat /\ m + (n - m) = n
    BY <1>1, <1>3 DEF F!Max2
  <2>3. z \in Seq(Nat) /\ Len(z) = n - m /\ \A k \in 1..(n - m) : z[k] = 0
    BY <2>2, ZerosSeq
  <2> HIDE DEF p, z
  <2>4. /\ b \o z \in Seq(Nat) /\ Len(b \o z) = Len(b) + Len(z)
        /\ \A k \in 1..Len(b) : (b \o z)[k] = b[k]
        /\ \A k \in 1..Len(z) : (b \o z)[Len(b) + k] = z[k]
    <3>1. z \in Seq(Nat) /\ b \in Seq(Nat)
      BY <2>3
    <3> QED
      BY <3>1, Joined, SMTT(30)
  <2>5. /\ p \in Seq(Nat) /\ Len(p) = Len(b) + Len(z)
        /\ \A k \in 1..Len(b) : p[k] = b[k]
        /\ \A k \in 1..Len(z) : p[Len(b) + k] = z[k]
    BY <2>1, <2>4, Zenon
  <2> HIDE DEF m
  <2>6. Len(b) = m
    BY DEF m
  <2>7. Len(p) = n
    BY <2>2, <2>3, <2>5, <2>6
  <2>8. ASSUME NEW k \in 1..n, k > m PROVE p[k] = 0
    <3>1. k - m \in 1..(n - m) /\ m + (k - m) = k
      BY <1>1, <2>8
    <3>2. p[m + (k - m)] = z[k - m]
      BY <2>3, <2>5, <2>6, <3>1
    <3> QED
      BY <2>3, <3>1, <3>2
  <2> QED
    BY <2>2, <2>5, <2>6, <2>7, <2>8 DEF p
<1> QED
  BY <1>2, <1>3

(* What a write makes of them.                                             *)
LEMMA OverwrittenBytes ==
  ASSUME NEW b \in Seq(Nat), NEW s \in Seq(Nat), NEW off \in Nat, NEW to, to = off + Len(s),
         NEW o, o = F!Overwritten(b, s, off)
  PROVE  Over(o, b, s, off, to)
<1> DEFINE p == F!Padded(b, to)
           m == Len(p)
           In(k) == k \in (off + 1)..(off + Len(s))
<1>1. to \in Nat /\ Len(s) \in Nat /\ Len(b) \in Nat
  OBVIOUS
<1>2. /\ p \in Seq(Nat) /\ m = F!Max2(Len(b), to)
      /\ \A k \in 1..Len(b) : p[k] = b[k]
      /\ \A k \in 1..m : k > Len(b) => p[k] = 0
  BY <1>1, PaddedBytes
<1>3. o = [k \in 1..m |-> IF In(k) THEN s[k - off] ELSE p[k]]
  BY DEF F!Overwritten
<1>4. m \in Nat /\ m >= to /\ m >= Len(b)
  BY <1>1, <1>2 DEF F!Max2
<1> HIDE DEF p, m
<1>5. m = Len(p)
  BY DEF m
<1>6. \A k \in 1..m : In(k) => k - off \in 1..Len(s)
  BY <1>1, <1>4
<1>7. \A k \in 1..m : p[k] \in Nat
  <2>1. p \in Seq(Nat)
    BY <1>2
  <2>2. \A k \in 1..Len(p) : p[k] \in Nat
    BY <2>1
  <2> QED
    BY <1>5, <2>2, Zenon
<1>8. \A j \in 1..Len(s) : s[j] \in Nat
  OBVIOUS
<1>9. \A k \in 1..m : o[k] = (IF In(k) THEN s[k - off] ELSE p[k])
  BY <1>3
<1>10. \A k \in 1..m : o[k] \in Nat
  BY <1>6, <1>7, <1>8, <1>9
<1>11. o \in Seq(Nat) /\ Len(o) = m
  BY <1>3, <1>4, <1>10
<1>12. ASSUME NEW k \in 1..Len(s) PROVE o[off + k] = s[k]
  <2>1. off + k \in 1..m /\ In(off + k) /\ (off + k) - off = k
    BY <1>1, <1>4
  <2> QED
    BY <1>9, <2>1
<1>13. ASSUME NEW k \in 1..Len(b), k <= off \/ k > to PROVE o[k] = b[k]
  <2>1. k \in 1..m /\ ~In(k)
    BY <1>1, <1>4, <1>13
  <2> QED
    BY <1>2, <1>9, <2>1
<1>14. ASSUME NEW k \in 1..m, k > Len(b), k <= off PROVE o[k] = 0
  <2>1. ~In(k)
    BY <1>1, <1>14
  <2> QED
    BY <1>2, <1>9, <1>14, <2>1
<1>15. Len(o) = F!Max2(Len(b), to)
  BY <1>2, <1>11
<1> QED
  BY <1>11, <1>12, <1>13, <1>14, <1>15 DEF Over

(* file_pwrite of a tmpfs file: the buffer holds what was written, and     *)
(* zeros in a hole before it; without memory it is left as it was.         *)
LEMMA PwriteExact ==
  ASSUME PageSize \in Nat \ {0}, NEW v, NEW b, VecOk(v, b), NEW s \in Seq(Nat), NEW off \in Nat,
         NEW r, r = F!Pwrite(v, s, off)
  PROVE  /\ r.ok \in BOOLEAN
         /\ r.ok => VecOk(r.v, F!Overwritten(b, s, off))
         /\ ~r.ok => r.v = v
<1> DEFINE to == off + Len(s)
           w == IF to > Len(v.data) THEN F!Grow(v, to) ELSE v
           fails == to > Len(v.data) /\ F!GrownTo(v, to) > MaxCapacity
           d == Spliced(w.data, s, off, to)
           o == F!Overwritten(b, s, off)
           size2 == F!Max2(v.size, to)
<1>1. to \in Nat /\ Len(s) \in Nat /\ v.size \in Nat /\ Len(v.data) \in Nat /\ b \in Seq(Nat)
  BY DEF VecOk
<1>2. CASE fails
  <2>1. r = [ok |-> FALSE, v |-> v]
    BY <1>2 DEF F!Pwrite
  <2> QED
    BY <2>1
<1>3. CASE ~fails
  <2>1. r = [ok |-> TRUE, v |-> [size |-> size2, data |-> d]]
    BY <1>3 DEF F!Pwrite, Spliced
  <2>2. VecOk(w, b) /\ w.size = v.size /\ Len(w.data) >= to
    <3>1. CASE to > Len(v.data)
      BY <1>1, <3>1, GrownSame
    <3>2. CASE ~(to > Len(v.data))
      BY <1>1, <3>2
    <3> QED
      BY <3>1, <3>2
  <2> HIDE DEF w, to
  <2>3. /\ w.data \in Seq(Nat) /\ Len(w.data) \in Nat /\ w.size = v.size /\ v.size <= Len(w.data)
        /\ to <= Len(w.data) /\ to = off + Len(s) /\ Len(b) = v.size
        /\ \A k \in 1..v.size : w.data[k] = b[k]
        /\ \A k \in 1..Len(w.data) : k > v.size => w.data[k] = 0
    <3>1. to = off + Len(s)
      BY DEF to
    <3>2. w.data \in Seq(Nat) /\ Len(b) = v.size /\ v.size <= Len(w.data)
      BY <2>2 DEF VecOk
    <3>3. Len(w.data) \in Nat
      BY <3>2
    <3>4. to <= Len(w.data)
      BY <1>1, <2>2, <3>3
    <3> QED
      BY <2>2, <3>1, <3>2, <3>3, <3>4 DEF VecOk
  <2>4. /\ d \in Seq(Nat) /\ Len(d) = Len(w.data)
        /\ \A k \in 1..Len(w.data) : k <= off \/ k > to => d[k] = w.data[k]
        /\ \A k \in 1..Len(s) : d[off + k] = s[k]
    <3>1. d = Spliced(w.data, s, off, to)
      OBVIOUS
    <3> DEFINE wd == w.data
    <3>2. wd \in Seq(Nat) /\ to \in Nat /\ to = off + Len(s) /\ to <= Len(wd)
      BY <1>1, <2>3
    <3>3. d = Spliced(wd, s, off, to)
      BY <3>1
    <3> HIDE DEF d, wd
    <3>4. Laid(d, wd, s, off, to)
      BY <3>2, <3>3, Splice
    <3> QED
      BY <3>4 DEF wd, Laid
  <2>5. /\ o \in Seq(Nat) /\ Len(o) = F!Max2(Len(b), to)
        /\ \A k \in 1..Len(s) : o[off + k] = s[k]
        /\ \A k \in 1..Len(b) : k <= off \/ k > to => o[k] = b[k]
        /\ \A k \in 1..Len(o) : k > Len(b) /\ k <= off => o[k] = 0
    <3>1. b \in Seq(Nat) /\ s \in Seq(Nat) /\ off \in Nat /\ to = off + Len(s) /\ o = F!Overwritten(b, s, off)
      BY <1>1, <2>3
    <3> HIDE DEF o, to
    <3>2. Over(o, b, s, off, to)
      BY <3>1, OverwrittenBytes
    <3> QED
      BY <3>2 DEF Over
  <2> HIDE DEF d, o
  <2>6. size2 \in Nat /\ size2 >= to /\ size2 >= v.size /\ size2 <= Len(d) /\ Len(o) = size2
        /\ (size2 = to \/ size2 = v.size)
    BY <1>1, <2>3, <2>4, <2>5 DEF F!Max2
  <2> HIDE DEF size2
  <2>7. ASSUME NEW k \in 1..size2 PROVE d[k] = o[k]
    <3>1. CASE k > off /\ k <= to
      <4>1. k - off \in 1..Len(s) /\ off + (k - off) = k
        BY <1>1, <2>3, <2>6, <3>1
      <4>2. d[off + (k - off)] = s[k - off] /\ o[off + (k - off)] = s[k - off]
        BY <2>4, <2>5, <4>1
      <4> QED
        BY <4>1, <4>2
    <3>2. CASE (k <= off \/ k > to) /\ k <= v.size
      <4>1. k \in 1..v.size /\ k \in 1..Len(w.data) /\ k \in 1..Len(b)
        <5>1. k \in Nat /\ k >= 1
          BY <2>6
        <5>2. k \in 1..v.size
          BY <1>1, <3>2, <5>1
        <5>3. k \in 1..Len(w.data)
          BY <1>1, <2>3, <5>2
        <5> QED
          BY <2>3, <5>2, <5>3
      <4>2. d[k] = w.data[k] /\ o[k] = b[k]
        BY <2>4, <2>5, <3>2, <4>1
      <4> QED
        BY <2>3, <4>1, <4>2
    <3>3. CASE k <= off /\ k > v.size
      <4>1. k \in 1..Len(w.data) /\ k \in 1..Len(o)
        BY <1>1, <2>3, <2>6, <2>4
      <4>2. d[k] = w.data[k] /\ w.data[k] = 0
        BY <2>3, <2>4, <3>3, <4>1
      <4>3. o[k] = 0
        BY <2>3, <2>5, <3>3, <4>1
      <4> QED
        BY <4>2, <4>3
    <3>4. ~(k > to /\ k > v.size)
      BY <1>1, <2>6
    <3> QED
      BY <1>1, <2>6, <3>1, <3>2, <3>3, <3>4
  <2>8. ASSUME NEW k \in 1..Len(d), k > size2 PROVE d[k] = 0
    <3>1. k \in 1..Len(w.data) /\ k > to /\ k > v.size
      BY <1>1, <2>4, <2>6, <2>8
    <3> QED
      BY <2>3, <2>4, <3>1
  <2>9. VecOk([size |-> size2, data |-> d], o)
    BY <2>4, <2>5, <2>6, <2>7, <2>8 DEF VecOk
  <2>10. r.ok = TRUE /\ r.v = [size |-> size2, data |-> d]
    BY <2>1
  <2> QED
    BY <2>9, <2>10 DEF o
<1> QED
  BY <1>2, <1>3

(* ftruncate: what is cut off is cleared, what is added is zero.           *)
LEMMA ResizeExact ==
  ASSUME PageSize \in Nat \ {0}, NEW v, NEW b, VecOk(v, b), NEW n \in Nat,
         NEW r, r = F!Resize(v, n)
  PROVE  /\ r.ok => VecOk(r.v, SubSeq(F!Padded(b, n), 1, n))
         /\ ~r.ok => r.v = v
<1> DEFINE p == F!Padded(b, n)
           c == SubSeq(p, 1, n)
<1>1. v.size \in Nat /\ v.data \in Seq(Nat) /\ v \in [data : Seq(Nat), size : Nat] /\ b \in Seq(Nat)
      /\ v.size <= Len(v.data) /\ Len(b) = v.size
  BY DEF VecOk
<1>2. Len(v.data) \in Nat
  BY <1>1
<1>3. /\ p \in Seq(Nat) /\ Len(p) = F!Max2(Len(b), n)
      /\ \A k \in 1..Len(b) : p[k] = b[k]
      /\ \A k \in 1..Len(p) : k > Len(b) => p[k] = 0
  BY <1>1, PaddedBytes
<1> HIDE DEF p
<1>4. Len(p) \in Nat /\ n <= Len(p)
  BY <1>1, <1>3 DEF F!Max2
<1>5. c \in Seq(Nat) /\ Len(c) = n /\ \A k \in 1..n : c[k] = p[k]
  <2>1. c = [k \in 1..n |-> p[k]]
    BY <1>3, <1>4
  <2>2. \A k \in 1..n : k \in 1..Len(p)
    BY <1>4
  <2>3. \A k \in 1..Len(p) : p[k] \in Nat
    BY <1>3
  <2> HIDE DEF c
  <2> QED
    BY <2>1, <2>2, <2>3
<1> HIDE DEF c
<1>6. /\ \A k \in 1..n : k <= v.size => c[k] = b[k]
      /\ \A k \in 1..n : k > v.size => c[k] = 0
  <2>1. ASSUME NEW k \in 1..n PROVE k \in 1..Len(p) /\ (k <= v.size => k \in 1..Len(b))
    BY <1>1, <1>4
  <2> QED
    BY <1>1, <1>3, <1>5, <2>1
<1>7. CASE n = v.size
  <2>1. r = [ok |-> TRUE, v |-> v]
    BY <1>7 DEF F!Resize
  <2>2. \A k \in 1..n : c[k] = b[k]
    BY <1>1, <1>6, <1>7
  <2>3. VecOk(v, c)
    BY <1>5, <1>7, <2>2 DEF VecOk
  <2> QED
    BY <2>1, <2>3 DEF c, p
<1>8. CASE n < v.size
  <2> DEFINE z == F!Zeros(v.size - n)
             d == Spliced(v.data, z, n, v.size)
  <2>1. r = [ok |-> TRUE, v |-> [size |-> n, data |-> d]]
    <3>1. n # v.size /\ ~(n > v.size)
      BY <1>1, <1>8
    <3> QED
      BY <1>8, <3>1 DEF F!Resize, Spliced
  <2>2. z \in Seq(Nat) /\ Len(z) = v.size - n /\ \A k \in 1..(v.size - n) : z[k] = 0
    <3>1. v.size - n \in Nat
      BY <1>1, <1>8
    <3> QED
      BY <3>1, ZerosSeq
  <2> HIDE DEF z
  <2>3. v.size = n + Len(z)
    BY <1>1, <2>2
  <2>4. Laid(d, v.data, z, n, v.size)
    BY <1>1, <2>2, <2>3, Splice
  <2> HIDE DEF d
  <2>5. d \in Seq(Nat) /\ Len(d) = Len(v.data)
    BY <2>4 DEF Laid
  <2>6. ASSUME NEW k \in 1..n PROVE d[k] = c[k]
    <3>1. k <= n /\ k <= v.size /\ k \in 1..v.size /\ k \in 1..Len(v.data)
      BY <1>1, <1>2, <1>8
    <3>2. d[k] = v.data[k]
      BY <2>4, <3>1 DEF Laid
    <3> QED
      BY <1>6, <3>1, <3>2 DEF VecOk
  <2>7. ASSUME NEW k \in 1..Len(d), k > n PROVE d[k] = 0
    <3>1. k \in 1..Len(v.data)
      BY <2>5
    <3>2. CASE k > v.size
      <4>1. d[k] = v.data[k]
        BY <2>4, <3>1, <3>2 DEF Laid
      <4> QED
        BY <3>1, <3>2, <4>1 DEF VecOk
    <3>3. CASE ~(k > v.size)
      <4>1. k - n \in 1..(v.size - n) /\ n + (k - n) = k
        BY <1>1, <1>2, <2>7, <3>1, <3>3
      <4>2. d[n + (k - n)] = z[k - n]
        BY <2>2, <2>4, <4>1 DEF Laid
      <4> QED
        BY <2>2, <4>1, <4>2
    <3> QED
      BY <3>2, <3>3
  <2>8. n <= Len(d)
    BY <1>1, <1>2, <1>8, <2>5
  <2>9. VecOk([size |-> n, data |-> d], c)
    BY <1>5, <2>5, <2>6, <2>7, <2>8 DEF VecOk
  <2> QED
    BY <2>1, <2>9 DEF c, p
<1>9. CASE n > v.size /\ n <= Len(v.data)
  <2> DEFINE z == F!Zeros(n - v.size)
             d == Spliced(v.data, z, v.size, n)
  <2>1. r = [ok |-> TRUE, v |-> [size |-> n, data |-> d]]
    BY <1>1, <1>9 DEF F!Resize, Spliced
  <2>2. z \in Seq(Nat) /\ Len(z) = n - v.size /\ \A k \in 1..(n - v.size) : z[k] = 0
    <3>1. n - v.size \in Nat
      BY <1>1, <1>9
    <3> QED
      BY <3>1, ZerosSeq
  <2> HIDE DEF z
  <2>3. n = v.size + Len(z)
    BY <1>1, <2>2
  <2>4. Laid(d, v.data, z, v.size, n)
    BY <1>1, <1>9, <2>2, <2>3, Splice
  <2> HIDE DEF d
  <2>5. d \in Seq(Nat) /\ Len(d) = Len(v.data)
    BY <2>4 DEF Laid
  <2>6. ASSUME NEW k \in 1..n PROVE d[k] = c[k]
    <3>1. k \in 1..Len(v.data)
      BY <1>2, <1>9
    <3>2. CASE k <= v.size
      <4>1. k \in 1..v.size
        BY <1>1, <3>2
      <4>2. d[k] = v.data[k]
        BY <2>4, <3>1, <3>2 DEF Laid
      <4> QED
        BY <1>6, <3>2, <4>1, <4>2 DEF VecOk
    <3>3. CASE k > v.size
      <4>1. k - v.size \in 1..(n - v.size) /\ v.size + (k - v.size) = k
        BY <1>1, <3>3
      <4>2. d[v.size + (k - v.size)] = z[k - v.size]
        BY <2>2, <2>4, <4>1 DEF Laid
      <4> QED
        BY <1>6, <2>2, <3>3, <4>1, <4>2
    <3> QED
      BY <1>1, <3>2, <3>3
  <2>7. ASSUME NEW k \in 1..Len(d), k > n PROVE d[k] = 0
    <3>1. k \in 1..Len(v.data)
      BY <2>5
    <3>2. d[k] = v.data[k]
      BY <2>4, <2>7, <3>1 DEF Laid
    <3>3. k > v.size
      BY <1>1, <1>2, <1>9, <2>7, <3>1
    <3> QED
      BY <3>1, <3>2, <3>3 DEF VecOk
  <2>8. VecOk([size |-> n, data |-> d], c)
    BY <1>5, <1>9, <2>5, <2>6, <2>7 DEF VecOk
  <2> QED
    BY <2>1, <2>8 DEF c, p
<1>10. CASE n > v.size /\ n > Len(v.data)
  <2> DEFINE w == F!Grow(v, n)
             fits == F!GrownTo(v, n) <= MaxCapacity
  <2>1. r = [ok |-> fits, v |-> IF fits THEN [w EXCEPT !.size = n] ELSE v]
    BY <1>1, <1>2, <1>10 DEF F!Resize
  <2>2. VecOk(w, b) /\ w.size = v.size /\ Len(w.data) >= n
    BY <1>10, GrownSame
  <2> HIDE DEF w, fits
  <2>3. /\ w \in [data : Seq(Nat), size : Nat] /\ w.data \in Seq(Nat) /\ Len(w.data) \in Nat
        /\ \A k \in 1..v.size : w.data[k] = b[k]
        /\ \A k \in 1..Len(w.data) : k > v.size => w.data[k] = 0
    <3>1. w \in [data : Seq(Nat), size : Nat] /\ w.data \in Seq(Nat)
      BY <2>2 DEF VecOk
    <3>2. Len(w.data) \in Nat
      BY <3>1
    <3> QED
      BY <2>2, <3>1, <3>2 DEF VecOk
  <2>4. [w EXCEPT !.size = n] = [data |-> w.data, size |-> n]
    BY <2>3
  <2>5. ASSUME NEW k \in 1..n PROVE w.data[k] = c[k]
    <3>1. k \in 1..Len(w.data)
      BY <2>2, <2>3
    <3>2. CASE k <= v.size
      <4>1. k \in 1..v.size
        BY <1>1, <3>2
      <4> QED
        BY <1>6, <2>3, <3>2, <4>1
    <3>3. CASE k > v.size
      BY <1>6, <2>3, <3>1, <3>3
    <3> QED
      BY <1>1, <3>2, <3>3
  <2>6. ASSUME NEW k \in 1..Len(w.data), k > n PROVE w.data[k] = 0
    <3>1. k > v.size
      BY <1>1, <1>10, <2>3, <2>6
    <3> QED
      BY <2>3, <3>1
  <2>7. VecOk([data |-> w.data, size |-> n], c)
    <3>1. n <= Len(w.data)
      BY <2>2, <2>3
    <3> QED
      BY <1>5, <2>3, <2>5, <2>6, <3>1 DEF VecOk
  <2>8. CASE fits
    BY <2>1, <2>4, <2>7, <2>8 DEF c, p
  <2>9. CASE ~fits
    BY <2>1, <2>9
  <2> QED
    BY <2>8, <2>9
<1> QED
  BY <1>1, <1>2, <1>7, <1>8, <1>9, <1>10
-----------------------------------------------------------------------------
(* Descriptors.  A call is one the kernel has, on descriptors of a table;  *)
(* where a task is in it says which call it is and what it relies on.      *)
Transfers == {"read", "write", "readv", "writev"}
Seeks == {"lseek_set", "lseek_cur", "lseek_end"}
Places == {"absent", "user", "exited", "begin", "get", "close", "free", "dup", "ref", "dup3",
           "lock", "part", "transfer", "advance", "pwrite", "ftruncate", "stat", "seek"}
InUse == Places \ {"absent", "user", "exited", "begin", "get"}

CallOk(c) ==
  /\ c.op = "clone" => c.share \in BOOLEAN
  /\ c.op \in {"close", "dup", "dup3", "pwrite", "ftruncate"} => c.fd \in F!Fds
  /\ c.op = "dup3" => c.new \in F!Fds
  /\ c.op \in Transfers => c \in [op : Transfers, fd : F!Fds, parts : Seq(Nat), moved : Nat]
  /\ c.op \in Seeks => c \in [op : Seeks, fd : F!Fds, offset : Int, count : Nat]
  /\ c.op = "pwrite" => c.offset \in Nat /\ c.count \in Nat
  /\ c.op = "ftruncate" => c.length \in Nat

FileOps == {"open", "clone", "exit", "close", "dup", "dup3", "pwrite", "ftruncate"} \cup Transfers \cup Seeks

FtParameters ==
  /\ FirstTask # SecondTask /\ NoFile \notin {FirstTask, SecondTask} /\ NoFile \notin OpenFiles
  /\ OPEN_MAX \in Nat /\ PageSize \in Nat \ {0}
  /\ \A t \in F!FtTasks : \A n \in 1..Len(FileCalls[t]) : \A c \in FileCalls[t][n] :
       c.op \in FileOps /\ CallOk(c) /\ (c.op \in {"read", "write"} => c.parts # <<>>)

PlaceOk(a, c) ==
  /\ a = "begin" => c.op \in {"open", "clone", "exit"}
  /\ a = "get" => c.op \in FileOps \ {"open", "clone", "exit"}
  /\ a \in {"get", "lock"} /\ c.op \in {"read", "write"} => c.parts # <<>>
  /\ a = "close" => c.op = "close"
  /\ a = "free" => c.op \in {"close", "dup3"}
  /\ a \in {"dup", "ref"} => c.op \in {"dup", "dup3"}
  /\ a = "dup3" => c.op = "dup3"
  /\ a = "lock" => c.op \in Transfers \cup Seeks
  /\ a = "part" => c.op \in {"readv", "writev"}
  /\ a \in {"transfer", "advance"} => c.op \in Transfers /\ c.parts # <<>>
  /\ a = "advance" => c.moved <= Head(c.parts)
  /\ a = "advance" /\ c.op \in {"write", "writev"} => c.moved = Head(c.parts)
  /\ a = "pwrite" => c.op = "pwrite"
  /\ a = "ftruncate" => c.op = "ftruncate"
  /\ a = "stat" => c.op = "lseek_end"
  /\ a = "seek" => c.op \in Seeks

(* The description in use is the one the descriptor still names.           *)
UseOk(a, c, g, tab) ==
  /\ a \in InUse => g \in OpenFiles /\ tab[c.fd] = g
  /\ a \in {"free", "dup", "ref"} /\ c.op = "dup3" => c.fd # c.new
  /\ a = "free" /\ c.op = "dup3" => tab[c.new] \in OpenFiles
  /\ a = "ref" => \E d \in F!Fds : d # c.fd /\ tab[d] = g

(* A reference dropped before its descriptor is cleared, or a descriptor   *)
(* set before its reference is taken.                                      *)
Owed(a, c, g, tab, f) ==
  IF \/ a = "free" /\ f = tab[IF c.op = "close" THEN c.fd ELSE c.new]
     \/ a = "ref" /\ g = f
  THEN 1 ELSE 0
OwedBy(t, f) == Owed(ftAt[t], ftCall[t], got[t], F!Table(t), f)

Busy(a) == a \notin {"user", "exited", "absent"}
Descriptors == [F!Fds -> OpenFiles \cup {NoFile}]
Descriptions == [refs : Int, offset : Nat, owner : {FirstTask, SecondTask, NoFile}, depth : Int]

FtTypes ==
  /\ fds \in [F!FtTasks -> Descriptors] /\ file \in [OpenFiles -> Descriptions]
  /\ tableOf \in [F!FtTasks -> F!FtTasks \cup {NoFile}] /\ ftAt \in [F!FtTasks -> Places]
  /\ got \in [F!FtTasks -> OpenFiles \cup {NoFile}] /\ ftCalls \in [F!FtTasks -> Nat]
  /\ ftCall = [t \in F!FtTasks |-> ftCall[t]]

FtTables ==
  /\ tableOf[FirstTask] = FirstTask /\ ftAt[FirstTask] # "absent"
  /\ (tableOf[SecondTask] = NoFile) <=> (ftAt[SecondTask] = "absent")
  /\ ftAt[SecondTask] = "absent" => fds[SecondTask] = [d \in F!Fds |-> NoFile]

FtCallsOk ==
  \A t \in F!FtTasks : /\ CallOk(ftCall[t]) /\ PlaceOk(ftAt[t], ftCall[t])
                       /\ UseOk(ftAt[t], ftCall[t], got[t], F!Table(t))

FtApart ==
  \A t, u \in F!FtTasks : t # u /\ tableOf[t] = tableOf[u] /\ Busy(ftAt[t]) /\ Busy(ftAt[u])
                            => ~F!Changes(ftCall[t])

FtCounted ==
  \A f \in OpenFiles :
    file[f].refs = F!NamedBy(f) - (OwedBy(FirstTask, f) + OwedBy(SecondTask, f))

FtInv == FtTypes /\ FtTables /\ FtCallsOk /\ FtApart /\ FtCounted /\ VecOk(vec, bytes)

(* How many descriptors of a table name a description.                     *)
LEMMA NamedCount ==
  ASSUME FtParameters, NEW tab, NEW f
  PROVE  /\ F!Named(tab, f) = Cardinality({d \in F!Fds : tab[d] = f})
         /\ IsFiniteSet({d \in F!Fds : tab[d] = f}) /\ F!Named(tab, f) \in Nat
<1> DEFINE S == {d \in F!Fds : tab[d] = f}
<1>1. F!Named(tab, f) = F!Cardinality(S)
  BY DEF F!Named
<1>2. IsFiniteSet(F!Fds)
  <2>1. 0 \in Int /\ OPEN_MAX - 1 \in Int
    BY DEF FtParameters
  <2> QED
    BY <2>1, FS_Interval DEF F!Fds
<1>3. IsFiniteSet(S)
  BY <1>2, FS_Subset
<1> HIDE DEF S
<1>4. F!Cardinality(S) = Cardinality(S)
  BY DEF F!Cardinality, Cardinality, F!IsFiniteSet, IsFiniteSet
<1>5. Cardinality(S) \in Nat
  BY <1>3, FS_CardinalityType
<1> QED
  BY <1>1, <1>3, <1>4, <1>5 DEF S

(* A descriptor that names it is one of them.                              *)
LEMMA NamedSome ==
  ASSUME FtParameters, NEW tab, NEW f, NEW d \in F!Fds, tab[d] = f
  PROVE  F!Named(tab, f) >= 1
<1> DEFINE S == {e \in F!Fds : tab[e] = f}
<1>1. F!Named(tab, f) = Cardinality(S) /\ IsFiniteSet(S) /\ Cardinality(S) \in Nat
  BY NamedCount
<1>2. d \in S
  OBVIOUS
<1> HIDE DEF S
<1>3. Cardinality(S) # 0
  BY <1>1, <1>2, FS_EmptySet
<1>4. Cardinality(S) >= 1
  BY <1>1, <1>3
<1> QED
  BY <1>1, <1>4

(* The table with one descriptor set.                                      *)
LEMMA NamedSet ==
  ASSUME FtParameters, NEW tab \in Descriptors, NEW d \in F!Fds, NEW e \in OpenFiles \cup {NoFile},
         NEW f, NEW new, new = [tab EXCEPT ![d] = e]
  PROVE  /\ new \in Descriptors
         /\ tab[d] # f /\ e = f => F!Named(new, f) = F!Named(tab, f) + 1
         /\ tab[d] = f /\ e # f => F!Named(new, f) = F!Named(tab, f) - 1
         /\ ((tab[d] = f) <=> (e = f)) => F!Named(new, f) = F!Named(tab, f)
<1> DEFINE S == {x \in F!Fds : tab[x] = f}
           T == {x \in F!Fds : new[x] = f}
<1>1. /\ F!Named(tab, f) = Cardinality(S) /\ IsFiniteSet(S) /\ Cardinality(S) \in Nat
      /\ F!Named(new, f) = Cardinality(T) /\ IsFiniteSet(T) /\ Cardinality(T) \in Nat
  <2>0. ASSUME NEW u PROVE /\ F!Named(u, f) = Cardinality({x \in F!Fds : u[x] = f})
                           /\ IsFiniteSet({x \in F!Fds : u[x] = f}) /\ F!Named(u, f) \in Nat
    BY NamedCount
  <2>1. F!Named(tab, f) = Cardinality(S) /\ IsFiniteSet(S) /\ Cardinality(S) \in Nat
    BY <2>0
  <2>2. F!Named(new, f) = Cardinality(T) /\ IsFiniteSet(T) /\ F!Named(new, f) \in Nat
    BY <2>0, Zenon
  <2> QED
    BY <2>1, <2>2
<1>2. new[d] = e /\ \A x \in F!Fds : x # d => new[x] = tab[x]
  BY DEF Descriptors
<1>3. new \in Descriptors
  BY DEF Descriptors
<1>4. ASSUME tab[d] # f, e = f PROVE Cardinality(T) = Cardinality(S) + 1
  <2>1. d \notin S /\ T = S \cup {d}
    BY <1>2, <1>4
  <2> HIDE DEF S, T
  <2> QED
    BY <1>1, <2>1, FS_AddElement
<1>5. ASSUME tab[d] = f, e # f PROVE Cardinality(T) = Cardinality(S) - 1
  <2>1. d \in S /\ T = S \ {d}
    BY <1>2, <1>5
  <2> HIDE DEF S, T
  <2> QED
    BY <1>1, <2>1, FS_RemoveElement
<1>6. ASSUME (tab[d] = f) <=> (e = f) PROVE Cardinality(T) = Cardinality(S)
  <2>1. T = S
    BY <1>2, <1>6
  <2> QED
    BY <2>1
<1> HIDE DEF S, T
<1> QED
  BY <1>1, <1>3, <1>4, <1>5, <1>6

(* A task in a call has a table.                                           *)
LEMMA BusyTable ==
  ASSUME FtParameters, FtInv, NEW t \in F!FtTasks, ftAt[t] # "absent"
  PROVE  /\ tableOf[t] \in F!FtTasks /\ F!Table(t) \in Descriptors
         /\ F!Table(t) = fds[tableOf[t]]
<1>1. tableOf[t] \in F!FtTasks
  BY DEF FtInv, FtTypes, FtTables, F!FtTasks
<1> QED
  BY <1>1 DEF FtInv, FtTypes, F!Table

(* What a task owes is for a descriptor of its own table.                  *)
LEMMA OwedNamed ==
  ASSUME FtParameters, FtInv, NEW t \in F!FtTasks, NEW f \in OpenFiles
  PROVE  /\ OwedBy(t, f) \in {0, 1} /\ OwedBy(t, f) <= F!Named(F!Table(t), f)
         /\ ftAt[t] \notin {"free", "ref"} => OwedBy(t, f) = 0
<1> DEFINE c == ftCall[t]
           a == ftAt[t]
           tab == F!Table(t)
<1>1. CallOk(c) /\ PlaceOk(a, c) /\ UseOk(a, c, got[t], tab)
  BY DEF FtInv, FtCallsOk
<1>2. F!Named(tab, f) \in Nat
  BY NamedCount
<1>3. OwedBy(t, f) = Owed(a, c, got[t], tab, f)
  BY DEF OwedBy
<1> HIDE DEF a, c, tab
<1>4. CASE a \notin {"free", "ref"}
  BY <1>2, <1>3, <1>4 DEF Owed, a, tab
<1>5. CASE a = "free"
  <2> DEFINE d == IF c.op = "close" THEN c.fd ELSE c.new
  <2>1. d \in F!Fds
    BY <1>1, <1>5 DEF PlaceOk, CallOk
  <2>2. CASE tab[d] = f
    <3>1. F!Named(tab, f) >= 1
      BY <2>1, <2>2, NamedSome
    <3>2. OwedBy(t, f) = 1
      BY <1>3, <1>5, <2>2 DEF Owed
    <3> QED
      BY <1>2, <1>5, <3>1, <3>2 DEF a, tab
  <2>3. CASE tab[d] # f
    <3>1. OwedBy(t, f) = 0
      BY <1>3, <1>5, <2>3 DEF Owed
    <3> QED
      BY <1>2, <1>5, <3>1 DEF a, tab
  <2> QED
    BY <2>2, <2>3
<1>6. CASE a = "ref"
  <2>1. c.fd \in F!Fds /\ tab[c.fd] = got[t]
    BY <1>1, <1>6 DEF PlaceOk, CallOk, UseOk, InUse, Places
  <2>2. CASE got[t] = f
    <3>1. F!Named(tab, f) >= 1
      BY <2>1, <2>2, NamedSome
    <3>2. OwedBy(t, f) = 1
      BY <1>3, <1>6, <2>2 DEF Owed
    <3> QED
      BY <1>2, <1>6, <3>1, <3>2 DEF a, tab
  <2>3. CASE got[t] # f
    <3>1. OwedBy(t, f) = 0
      BY <1>3, <1>6, <2>3 DEF Owed
    <3> QED
      BY <1>2, <1>6, <3>1 DEF a, tab
  <2> QED
    BY <2>2, <2>3
<1> QED
  BY <1>4, <1>5, <1>6

(* A step of a task within a call: only its own call and its own table     *)
(* change, the table only in a call that may, and the references by as     *)
(* much as the descriptors that count for them.                            *)
TaskStep(t, a2, c2, g2, tab2) ==
  /\ Busy(ftAt[t]) /\ a2 \in Places \ {"absent"} /\ g2 \in OpenFiles \cup {NoFile} /\ tab2 \in Descriptors
  /\ tableOf' = tableOf /\ ftCalls' = ftCalls /\ ftAt' = [ftAt EXCEPT ![t] = a2]
  /\ ftCall' = [ftCall EXCEPT ![t] = c2] /\ got' = [got EXCEPT ![t] = g2]
  /\ fds' = [fds EXCEPT ![tableOf[t]] = tab2]
  /\ c2.op = ftCall[t].op /\ (tab2 = F!Table(t) \/ F!Changes(ftCall[t]))
  /\ CallOk(c2) /\ PlaceOk(a2, c2) /\ UseOk(a2, c2, g2, tab2)
  /\ file' \in [OpenFiles -> Descriptions]
  /\ \A f \in OpenFiles :
       file'[f].refs = file[f].refs + (F!Named(tab2, f) - F!Named(F!Table(t), f))
                         - (Owed(a2, c2, g2, tab2, f) - OwedBy(t, f))
  /\ VecOk(vec', bytes')

(* Such a step keeps the invariant.                                        *)
LEMMA StepTask ==
  ASSUME FtParameters, FtInv, NEW t \in F!FtTasks, NEW a2, NEW c2, NEW g2, NEW tab2,
         TaskStep(t, a2, c2, g2, tab2)
  PROVE  FtInv'
<1> USE DEF TaskStep
<1>1. FtTypes /\ FtTables /\ FtCallsOk /\ FtApart /\ FtCounted
  BY DEF FtInv
<1>2. ftAt[t] # "absent" /\ tableOf[t] \in F!FtTasks /\ F!Table(t) = fds[tableOf[t]]
  <2>1. ftAt[t] # "absent"
    BY DEF Busy
  <2> QED
    BY <2>1, BusyTable
<1>3. /\ ftAt'[t] = a2 /\ ftCall'[t] = c2 /\ got'[t] = g2 /\ fds'[tableOf[t]] = tab2
      /\ \A u \in F!FtTasks : u # t => ftAt'[u] = ftAt[u] /\ ftCall'[u] = ftCall[u] /\ got'[u] = got[u]
      /\ \A u \in F!FtTasks : u # tableOf[t] => fds'[u] = fds[u]
  BY <1>1, <1>2 DEF FtTypes
<1>4. FtTypes'
  <2>1. fds' \in [F!FtTasks -> Descriptors]
    BY <1>1, <1>2 DEF FtTypes
  <2>2. ftAt' \in [F!FtTasks -> Places] /\ got' \in [F!FtTasks -> OpenFiles \cup {NoFile}]
    BY <1>1 DEF FtTypes
  <2>3. ftCall' = [u \in F!FtTasks |-> ftCall'[u]]
    BY <1>1 DEF FtTypes
  <2>4. tableOf' \in [F!FtTasks -> F!FtTasks \cup {NoFile}] /\ ftCalls' \in [F!FtTasks -> Nat]
    BY <1>1 DEF FtTypes
  <2> QED
    BY <2>1, <2>2, <2>3, <2>4 DEF FtTypes
<1>5. FirstTask \in F!FtTasks /\ SecondTask \in F!FtTasks /\ FirstTask # SecondTask
      /\ \A u \in F!FtTasks : u = FirstTask \/ u = SecondTask
  BY DEF F!FtTasks, FtParameters
<1>6. FtTables'
  <2>1. ftAt'[FirstTask] # "absent" /\ (ftAt'[SecondTask] = "absent" <=> ftAt[SecondTask] = "absent")
    BY <1>1, <1>2, <1>3, <1>5 DEF FtTables
  <2>2. ASSUME ftAt[SecondTask] = "absent" PROVE fds'[SecondTask] = fds[SecondTask]
    <3>1. t = FirstTask
      BY <1>2, <1>5, <2>2
    <3>2. tableOf[t] = FirstTask
      BY <1>1, <3>1 DEF FtTables
    <3> QED
      BY <1>3, <1>5, <3>2
  <2> QED
    BY <1>1, <2>1, <2>2 DEF FtTables
<1>7. ASSUME NEW u \in F!FtTasks, u # t, Busy(ftAt[u]) PROVE fds'[tableOf[u]] = F!Table(u)
  <2>0. ftAt[u] # "absent"
    BY <1>7 DEF Busy
  <2>1. tableOf[u] \in F!FtTasks /\ F!Table(u) = fds[tableOf[u]]
    BY <2>0, BusyTable
  <2>2. CASE tableOf[u] # tableOf[t]
    BY <1>3, <2>1, <2>2
  <2>3. CASE tableOf[u] = tableOf[t]
    <3>1. ~F!Changes(ftCall[t])
      BY <1>1, <1>7, <2>3 DEF FtApart
    <3> QED
      BY <1>2, <1>3, <2>1, <2>3, <3>1
  <2> QED
    BY <2>2, <2>3
<1> DEFINE fds2 == fds'
<1> HIDE DEF fds2
<1>8. ASSUME NEW u \in F!FtTasks, u # t
      PROVE  /\ UseOk(ftAt[u], ftCall[u], got[u], fds2[tableOf[u]])
             /\ \A f \in OpenFiles : Owed(ftAt[u], ftCall[u], got[u], fds2[tableOf[u]], f) = OwedBy(u, f)
  <2>1. CASE Busy(ftAt[u])
    <3>1. fds2[tableOf[u]] = F!Table(u)
      BY <1>7, <1>8, <2>1 DEF fds2
    <3> QED
      BY <1>1, <3>1 DEF FtCallsOk, OwedBy
  <2>2. CASE ~Busy(ftAt[u])
    <3>1. ftAt[u] \in {"user", "exited", "absent"}
      BY <2>2 DEF Busy
    <3>2. UseOk(ftAt[u], ftCall[u], got[u], fds2[tableOf[u]])
      BY <3>1 DEF UseOk, InUse, Places
    <3>3. \A f \in OpenFiles : /\ Owed(ftAt[u], ftCall[u], got[u], fds2[tableOf[u]], f) = 0
                               /\ OwedBy(u, f) = 0
      BY <3>1 DEF Owed, OwedBy
    <3> QED
      BY <3>2, <3>3
  <2> QED
    BY <2>1, <2>2
<1>9. FtCallsOk'
  <2> SUFFICES ASSUME NEW u \in F!FtTasks
               PROVE  /\ CallOk(ftCall'[u]) /\ PlaceOk(ftAt'[u], ftCall'[u])
                      /\ UseOk(ftAt'[u], ftCall'[u], got'[u], fds2[tableOf[u]])
    BY DEF FtCallsOk, F!Table, fds2
  <2>1. CASE u = t
    BY <1>3, <2>1 DEF fds2
  <2>2. CASE u # t
    BY <1>1, <1>3, <1>8, <2>2 DEF FtCallsOk
  <2> QED
    BY <2>1, <2>2
<1>10. FtApart'
  <2> SUFFICES ASSUME NEW x \in F!FtTasks, NEW y \in F!FtTasks, x # y, tableOf[x] = tableOf[y],
                      Busy(ftAt'[x]), Busy(ftAt'[y])
               PROVE  ~F!Changes(ftCall'[x])
    BY DEF FtApart, F!Changes
  <2>1. Busy(ftAt[x]) /\ Busy(ftAt[y])
    BY <1>3
  <2>2. ftCall'[x].op = ftCall[x].op
    BY <1>3
  <2>3. ~F!Changes(ftCall[x])
    BY <1>1, <2>1 DEF FtApart
  <2> QED
    BY <2>2, <2>3 DEF F!Changes
<1>11. FtCounted'
  <2> SUFFICES ASSUME NEW f \in OpenFiles
               PROVE  file'[f].refs = (F!Named(fds2[FirstTask], f) + F!Named(fds2[SecondTask], f))
                        - (Owed(ftAt'[FirstTask], ftCall'[FirstTask], got'[FirstTask], fds2[tableOf[FirstTask]], f)
                           + Owed(ftAt'[SecondTask], ftCall'[SecondTask], got'[SecondTask],
                                  fds2[tableOf[SecondTask]], f))
    BY DEF FtCounted, F!NamedBy, OwedBy, F!Table, fds2, F!Named
  <2> DEFINE O(u) == Owed(ftAt'[u], ftCall'[u], got'[u], fds2[tableOf[u]], f)
             O2 == Owed(a2, c2, g2, tab2, f)
             N(u) == F!Named(fds[u], f)
             N2(u) == F!Named(fds2[u], f)
             P(u) == OwedBy(u, f)
  <2>1. /\ file[f].refs = (N(FirstTask) + N(SecondTask)) - (P(FirstTask) + P(SecondTask))
        /\ file'[f].refs = file[f].refs + (F!Named(tab2, f) - N(tableOf[t])) - (O2 - P(t))
    BY <1>1, <1>2 DEF FtCounted, F!NamedBy
  <2>2. O(t) = O2 /\ N2(tableOf[t]) = F!Named(tab2, f)
    BY <1>3 DEF fds2
  <2>3. \A u \in F!FtTasks : u # t => O(u) = P(u)
    BY <1>3, <1>8
  <2>4. \A u \in F!FtTasks : u # tableOf[t] => N2(u) = N(u)
    BY <1>3 DEF fds2
  <2>5. \A u \in F!FtTasks : N(u) \in Nat /\ N2(u) \in Nat
    BY NamedCount
  <2>6. \A u \in F!FtTasks : P(u) \in Int
    BY OwedNamed
  <2>7. O2 \in Int /\ F!Named(tab2, f) \in Int
    <3>1. O2 \in {0, 1}
      BY DEF Owed
    <3>2. F!Named(tab2, f) \in Nat
      BY NamedCount
    <3> QED
      BY <3>1, <3>2
  <2>8. O(FirstTask) + O(SecondTask) = P(FirstTask) + P(SecondTask) + (O2 - P(t))
    <3> HIDE DEF O, O2, P
    <3>1. CASE t = FirstTask
      BY <1>5, <2>2, <2>3, <2>6, <2>7, <3>1
    <3>2. CASE t = SecondTask
      BY <1>5, <2>2, <2>3, <2>6, <2>7, <3>2
    <3> QED
      BY <1>5, <3>1, <3>2
  <2>9. N2(FirstTask) + N2(SecondTask) = N(FirstTask) + N(SecondTask) + (N2(tableOf[t]) - N(tableOf[t]))
    <3> HIDE DEF N, N2
    <3>1. CASE tableOf[t] = FirstTask
      BY <1>5, <2>4, <2>5, <3>1
    <3>2. CASE tableOf[t] = SecondTask
      BY <1>5, <2>4, <2>5, <3>2
    <3> QED
      BY <1>2, <1>5, <3>1, <3>2
  <2>10. O(FirstTask) \in Int /\ O(SecondTask) \in Int
    BY DEF Owed
  <2>11. file[f].refs \in Int
    BY <1>1 DEF FtTypes, Descriptions
  <2>12. F!Named(tab2, f) = N2(tableOf[t])
    BY <2>2
  <2> HIDE DEF O, O2, P, N, N2
  <2>13. file'[f].refs = (N2(FirstTask) + N2(SecondTask)) - (O(FirstTask) + O(SecondTask))
    BY <1>2, <1>5, <2>1, <2>5, <2>6, <2>7, <2>8, <2>9, <2>10, <2>11, <2>12
  <2> QED
    BY <2>13 DEF O, N2
<1> QED
  BY <1>4, <1>6, <1>9, <1>10, <1>11 DEF FtInv

(* A step that leaves the descriptors and the references alone.            *)
QuietStep(t, a2, c2, g2) ==
  /\ Busy(ftAt[t]) /\ ftAt[t] \notin {"free", "ref"}
  /\ a2 \in Places \ {"absent", "free", "ref"} /\ g2 \in OpenFiles \cup {NoFile}
  /\ tableOf' = tableOf /\ fds' = fds /\ ftCalls' = ftCalls /\ ftAt' = [ftAt EXCEPT ![t] = a2]
  /\ ftCall' = [ftCall EXCEPT ![t] = c2] /\ got' = [got EXCEPT ![t] = g2]
  /\ c2.op = ftCall[t].op /\ CallOk(c2) /\ PlaceOk(a2, c2) /\ UseOk(a2, c2, g2, F!Table(t))
  /\ file' \in [OpenFiles -> Descriptions] /\ \A f \in OpenFiles : file'[f].refs = file[f].refs
  /\ VecOk(vec', bytes')

(* Such a step keeps the invariant, too.                                   *)
LEMMA StepQuiet ==
  ASSUME FtParameters, FtInv, NEW t \in F!FtTasks, NEW a2, NEW c2, NEW g2, QuietStep(t, a2, c2, g2)
  PROVE  FtInv'
<1> DEFINE tab == F!Table(t)
<1>1. tableOf[t] \in F!FtTasks /\ tab \in Descriptors /\ tab = fds[tableOf[t]]
  BY BusyTable DEF Busy, QuietStep
<1>2. fds' = [fds EXCEPT ![tableOf[t]] = tab]
  BY <1>1 DEF FtInv, FtTypes, QuietStep
<1>3. ASSUME NEW f \in OpenFiles
      PROVE  file'[f].refs = file[f].refs + (F!Named(tab, f) - F!Named(tab, f))
                               - (Owed(a2, c2, g2, tab, f) - OwedBy(t, f))
  <2>1. Owed(a2, c2, g2, tab, f) = 0 /\ OwedBy(t, f) = 0
    BY DEF Owed, OwedBy, QuietStep
  <2>2. F!Named(tab, f) \in Nat
    BY NamedCount
  <2>3. file[f].refs \in Int /\ file'[f].refs = file[f].refs
    BY DEF FtInv, FtTypes, Descriptions, QuietStep
  <2> HIDE DEF tab
  <2> QED
    BY <2>1, <2>2, <2>3
<1>4. TaskStep(t, a2, c2, g2, tab)
  BY <1>1, <1>2, <1>3 DEF TaskStep, QuietStep
<1> QED
  BY <1>4, StepTask

(* The references that are not the table's own.                            *)
LEMMA OtherRefs ==
  ASSUME FtParameters, FtInv, NEW t \in F!FtTasks, Busy(ftAt[t]), F!Changes(ftCall[t]),
         NEW f \in OpenFiles
  PROVE  /\ file[f].refs >= F!Named(F!Table(t), f) - OwedBy(t, f)
         /\ \A u \in F!FtTasks : u # t /\ ftAt[u] \in InUse \ {"free", "ref"} /\ got[u] = f
              => file[f].refs >= F!Named(F!Table(t), f) - OwedBy(t, f) + 1
<1> DEFINE N(x) == F!Named(fds[x], f)
           P(x) == OwedBy(x, f)
<1>1. /\ file[f].refs = (N(FirstTask) + N(SecondTask)) - (P(FirstTask) + P(SecondTask))
      /\ file[f].refs \in Int
  BY DEF FtInv, FtCounted, F!NamedBy, FtTypes, Descriptions
<1>2. FirstTask \in F!FtTasks /\ SecondTask \in F!FtTasks /\ FirstTask # SecondTask
      /\ \A x \in F!FtTasks : x = FirstTask \/ x = SecondTask
  BY DEF F!FtTasks, FtParameters
<1>3. tableOf[t] \in F!FtTasks /\ F!Table(t) = fds[tableOf[t]]
  BY BusyTable DEF Busy
<1>4. PICK u \in F!FtTasks : u # t
  BY <1>2
<1>5. PICK o \in F!FtTasks : o # tableOf[t]
  BY <1>2
<1>6. \A x \in F!FtTasks : N(x) \in Nat /\ P(x) \in Int
  <2>1. \A x \in F!FtTasks : N(x) \in Nat
    BY NamedCount
  <2>2. \A x \in F!FtTasks : P(x) \in {0, 1}
    BY OwedNamed
  <2> QED
    BY <2>1, <2>2
<1>7. N(FirstTask) + N(SecondTask) = N(tableOf[t]) + N(o)
  <2> HIDE DEF N
  <2>1. CASE tableOf[t] = FirstTask
    BY <1>2, <1>5, <2>1
  <2>2. CASE tableOf[t] = SecondTask
    <3>1. o = FirstTask
      BY <1>2, <1>5, <2>2
    <3>2. N(FirstTask) \in Nat /\ N(SecondTask) \in Nat
      BY <1>2, <1>6
    <3> QED
      BY <2>2, <3>1, <3>2
  <2> QED
    BY <1>2, <1>3, <2>1, <2>2
<1>8. P(FirstTask) + P(SecondTask) = P(t) + P(u)
  <2> HIDE DEF P
  <2>1. P(FirstTask) \in Int /\ P(SecondTask) \in Int
    BY <1>2, <1>6
  <2>2. CASE t = FirstTask
    BY <1>2, <1>4, <2>2
  <2>3. CASE t = SecondTask
    <3>1. u = FirstTask
      BY <1>2, <1>4, <2>3
    <3> QED
      BY <2>1, <2>3, <3>1
  <2> QED
    BY <1>2, <2>2, <2>3
<1>9. ASSUME Busy(ftAt[u]) PROVE F!Table(u) = fds[o]
  <2>1. tableOf[u] # tableOf[t]
    BY <1>4, <1>9 DEF FtInv, FtApart
  <2>2. tableOf[u] \in F!FtTasks /\ F!Table(u) = fds[tableOf[u]]
    BY <1>9, BusyTable DEF Busy
  <2>3. tableOf[u] = o
    BY <1>2, <1>3, <1>5, <2>1, <2>2
  <2> QED
    BY <2>2, <2>3
<1>10. P(u) <= N(o)
  <2>1. CASE Busy(ftAt[u])
    BY <1>9, <2>1, OwedNamed
  <2>2. CASE ~Busy(ftAt[u])
    <3>1. P(u) = 0
      BY <2>2 DEF Busy, OwedBy, Owed
    <3> QED
      BY <1>6, <3>1
  <2> QED
    BY <2>1, <2>2
<1>11. ASSUME ftAt[u] \in InUse \ {"free", "ref"}, got[u] = f PROVE P(u) = 0 /\ N(o) >= 1
  <2>1. P(u) = 0
    BY <1>11 DEF OwedBy, Owed
  <2>2. Busy(ftAt[u])
    BY <1>11 DEF Busy, InUse
  <2>3. F!Table(u) = fds[o]
    BY <1>9, <2>2
  <2>4. ftCall[u].fd \in F!Fds /\ F!Table(u)[ftCall[u].fd] = f
    <3>1. CallOk(ftCall[u]) /\ PlaceOk(ftAt[u], ftCall[u]) /\ UseOk(ftAt[u], ftCall[u], got[u], F!Table(u))
      BY DEF FtInv, FtCallsOk
    <3>2. F!Table(u)[ftCall[u].fd] = f
      BY <1>11, <3>1 DEF UseOk
    <3>3. ftCall[u].op \in {"close", "dup", "dup3", "pwrite", "ftruncate"} \cup Transfers \cup Seeks
      BY <1>11, <3>1 DEF PlaceOk, InUse, Places, Transfers, Seeks
    <3>4. ftCall[u].fd \in F!Fds
      BY <3>1, <3>3 DEF CallOk
    <3> QED
      BY <3>2, <3>4
  <2>5. F!Named(F!Table(u), f) >= 1
    BY <2>4, NamedSome
  <2> QED
    BY <2>1, <2>3, <2>5
<1> HIDE DEF N, P
<1>12. file[f].refs = (N(tableOf[t]) - P(t)) + (N(o) - P(u))
  BY <1>1, <1>3, <1>4, <1>5, <1>6, <1>7, <1>8
<1>13. F!Named(F!Table(t), f) = N(tableOf[t]) /\ OwedBy(t, f) = P(t)
  BY <1>3 DEF N, P
<1>14. file[f].refs >= N(tableOf[t]) - P(t)
  BY <1>1, <1>3, <1>4, <1>5, <1>6, <1>10, <1>12
<1>15. ASSUME ftAt[u] \in InUse \ {"free", "ref"}, got[u] = f PROVE file[f].refs >= N(tableOf[t]) - P(t) + 1
  BY <1>1, <1>3, <1>4, <1>5, <1>6, <1>11, <1>12, <1>15
<1>16. \A x \in F!FtTasks : x # t => x = u
  BY <1>2, <1>4
<1> QED
  BY <1>13, <1>14, <1>15, <1>16

(* The offset's lock taken and given back.                                 *)
LEMMA LockedFile ==
  ASSUME FtTypes, NEW f \in OpenFiles, NEW t \in F!FtTasks, NEW g, g = F!Locked(f, t)
  PROVE  /\ g \in [OpenFiles -> Descriptions] /\ \A x \in OpenFiles : x # f => g[x] = file[x]
         /\ g[f].refs = file[f].refs /\ g[f].offset = file[f].offset
         /\ g[f].owner = t /\ g[f].depth = file[f].depth + 1
BY DEF F!Locked, FtTypes, Descriptions, F!FtTasks

(* The same of giving it back: the last one frees it.                      *)
LEMMA UnlockedFile ==
  ASSUME FtTypes, NEW f \in OpenFiles, NEW g, g = F!Unlocked(f)
  PROVE  /\ g \in [OpenFiles -> Descriptions] /\ \A x \in OpenFiles : x # f => g[x] = file[x]
         /\ g[f].refs = file[f].refs /\ g[f].offset = file[f].offset
         /\ g[f].depth = file[f].depth - 1
         /\ g[f].owner = (IF file[f].depth = 1 THEN NoFile ELSE file[f].owner)
<1> DEFINE o == IF file[f].depth = 1 THEN NoFile ELSE file[f].owner
<1>1. g = [file EXCEPT ![f].depth = file[f].depth - 1, ![f].owner = o]
  BY DEF F!Unlocked
<1>2. o \in {FirstTask, SecondTask, NoFile}
  BY DEF FtTypes, Descriptions
<1> HIDE DEF o
<1> DEFINE m == [file[f] EXCEPT !.depth = file[f].depth - 1]
           g1 == [file EXCEPT ![f] = m]
           n == [g1[f] EXCEPT !.owner = o]
<1>3. file \in [OpenFiles -> Descriptions]
  BY DEF FtTypes
<1>4. /\ m \in Descriptions /\ m.refs = file[f].refs /\ m.offset = file[f].offset
      /\ m.depth = file[f].depth - 1
  BY <1>3 DEF Descriptions
<1>5. g = [g1 EXCEPT ![f] = n]
  BY <1>1
<1> HIDE DEF m
<1>6. g1 \in [OpenFiles -> Descriptions] /\ g1[f] = m /\ \A x \in OpenFiles : x # f => g1[x] = file[x]
  BY <1>3, <1>4
<1> HIDE DEF g1
<1>7. n \in Descriptions /\ n.refs = m.refs /\ n.offset = m.offset /\ n.depth = m.depth /\ n.owner = o
  BY <1>2, <1>4, <1>6 DEF Descriptions
<1> HIDE DEF n
<1>8. g \in [OpenFiles -> Descriptions] /\ g[f] = n /\ \A x \in OpenFiles : x # f => g[x] = g1[x]
  BY <1>5, <1>6, <1>7
<1> QED
  BY <1>4, <1>6, <1>7, <1>8 DEF o

Referenced(f) == file[f].refs >= 1
DropOk(g, f) ==
  /\ g \in [OpenFiles -> Descriptions] /\ \A x \in OpenFiles : x # f => g[x] = file[x]
  /\ g[f].refs = file[f].refs - 1
  /\ file[f].refs > 1 => g[f] = [file[f] EXCEPT !.refs = file[f].refs - 1]
  /\ ~(file[f].refs > 1) => g[f] = F!Closed

(* file_close: a reference less.                                           *)
LEMMA DroppedFile ==
  ASSUME FtTypes, NEW f \in OpenFiles, Referenced(f)
  PROVE  DropOk(F!Dropped(f), f)
<1> USE DEF Referenced, DropOk
<1> DEFINE g == F!Dropped(f)
<1>1. file[f] \in Descriptions /\ file[f].refs \in Int
  BY DEF FtTypes, Descriptions
<1>2. F!Closed \in Descriptions /\ F!Closed.refs = 0
  BY DEF F!Closed, Descriptions
<1>3. [file[f] EXCEPT !.refs = file[f].refs - 1] \in Descriptions
  BY <1>1 DEF Descriptions
<1>4. [file[f] EXCEPT !.refs = file[f].refs - 1].refs = file[f].refs - 1
  BY <1>1 DEF Descriptions
<1> DEFINE n == IF file[f].refs <= 1 THEN F!Closed ELSE [file[f] EXCEPT !.refs = file[f].refs - 1]
<1>5. g = [file EXCEPT ![f] = n]
  BY DEF F!Dropped
<1>6. n \in Descriptions
  BY <1>2, <1>3
<1> HIDE DEF g
<1>9. g[f] = n /\ g \in [OpenFiles -> Descriptions] /\ \A x \in OpenFiles : x # f => g[x] = file[x]
  <2> HIDE DEF n
  <2> QED
    BY <1>5, <1>6 DEF FtTypes
<1>7. ASSUME file[f].refs > 1 PROVE DropOk(g, f)
  <2>1. ~(file[f].refs <= 1)
    BY <1>1, <1>7
  <2> QED
    BY <1>4, <1>9, <1>7, <2>1
<1>8. ASSUME ~(file[f].refs > 1) PROVE DropOk(g, f)
  <2>1. file[f].refs <= 1 /\ file[f].refs - 1 = 0
    BY <1>1, <1>8
  <2> QED
    BY <1>2, <1>9, <1>8, <2>1
<1>10. DropOk(g, f)
  BY <1>7, <1>8
<1> QED
  BY <1>10 DEF g

(* What does not change, in the form the steps are stated in.              *)
LEMMA Unmoved ==
  ASSUME FtParameters, FtInv, NEW t \in F!FtTasks
  PROVE  /\ ftCall = [ftCall EXCEPT ![t] = ftCall[t]] /\ got = [got EXCEPT ![t] = got[t]]
         /\ got[t] \in OpenFiles \cup {NoFile}
         /\ ftAt[t] # "absent" => fds = [fds EXCEPT ![tableOf[t]] = F!Table(t)]
         /\ CallOk(ftCall[t]) /\ PlaceOk(ftAt[t], ftCall[t])
         /\ UseOk(ftAt[t], ftCall[t], got[t], F!Table(t))
<1>1. FtTypes /\ FtCallsOk
  BY DEF FtInv
<1>2. ftCall = [ftCall EXCEPT ![t] = ftCall[t]]
  BY <1>1 DEF FtTypes
<1>3. got = [got EXCEPT ![t] = got[t]] /\ got[t] \in OpenFiles \cup {NoFile}
  BY <1>1 DEF FtTypes
<1>4. ASSUME ftAt[t] # "absent" PROVE fds = [fds EXCEPT ![tableOf[t]] = F!Table(t)]
  <2>1. tableOf[t] \in F!FtTasks /\ F!Table(t) = fds[tableOf[t]]
    BY <1>4, BusyTable
  <2> QED
    BY <1>1, <2>1 DEF FtTypes
<1> QED
  BY <1>1, <1>2, <1>3, <1>4 DEF FtCallsOk

(* The call of a task that uses a descriptor names one of the table's.     *)
LEMMA UsesFd ==
  ASSUME FtParameters, FtInv, NEW t \in F!FtTasks, ftAt[t] \in InUse \cup {"get"}
  PROVE  ftCall[t].fd \in F!Fds /\ Busy(ftAt[t]) /\ F!Table(t) \in Descriptors
         /\ (ftAt[t] # "get" => got[t] \in OpenFiles /\ F!Table(t)[ftCall[t].fd] = got[t])
<1>1. CallOk(ftCall[t]) /\ PlaceOk(ftAt[t], ftCall[t]) /\ UseOk(ftAt[t], ftCall[t], got[t], F!Table(t))
  BY Unmoved
<1>2. ftCall[t].op \in {"close", "dup", "dup3", "pwrite", "ftruncate"} \cup Transfers \cup Seeks
  BY <1>1 DEF PlaceOk, InUse, Places, FileOps, Transfers, Seeks
<1>3. ftCall[t].fd \in F!Fds
  BY <1>1, <1>2 DEF CallOk
<1>4. Busy(ftAt[t]) /\ ftAt[t] # "absent"
  BY DEF Busy, InUse
<1>5. F!Table(t) \in Descriptors
  BY <1>4, BusyTable
<1>6. ftAt[t] # "get" => got[t] \in OpenFiles /\ F!Table(t)[ftCall[t].fd] = got[t]
  BY <1>1 DEF UseOk
<1> QED
  BY <1>3, <1>4, <1>5, <1>6

(* task_get_file                                                           *)
LEMMA StepGetFile ==
  ASSUME FtParameters, FtInv, NEW t \in F!FtTasks, F!GetFile(t)
  PROVE  FtInv'
<1> DEFINE c == ftCall[t]
           f == F!Table(t)[c.fd]
<1>1. ftAt[t] = "get" /\ tableOf' = tableOf /\ fds' = fds /\ file' = file /\ vec' = vec
      /\ ftCall' = ftCall /\ ftCalls' = ftCalls /\ bytes' = bytes
  BY DEF F!GetFile
<1>2. c.fd \in F!Fds /\ Busy(ftAt[t]) /\ F!Table(t) \in Descriptors
  BY <1>1, UsesFd
<1>3. f \in OpenFiles \cup {NoFile}
  BY <1>2 DEF Descriptors
<1>4. /\ ftCall = [ftCall EXCEPT ![t] = c] /\ got = [got EXCEPT ![t] = got[t]]
      /\ got[t] \in OpenFiles \cup {NoFile} /\ CallOk(c) /\ PlaceOk("get", c)
  BY <1>1, Unmoved
<1>5. file' \in [OpenFiles -> Descriptions] /\ VecOk(vec', bytes')
  BY <1>1 DEF FtInv, FtTypes
<1>6. CASE f = NoFile
  <2>1. ftAt' = [ftAt EXCEPT ![t] = "user"] /\ got' = got
    BY <1>3, <1>6 DEF F!GetFile, F!FtReturn, F!FtGoto, FtParameters
  <2>2. PlaceOk("user", c) /\ UseOk("user", c, got[t], F!Table(t))
    BY DEF PlaceOk, UseOk, InUse
  <2>3. QuietStep(t, "user", c, got[t])
    BY <1>1, <1>2, <1>4, <1>5, <2>1, <2>2 DEF QuietStep, Places
  <2> QED
    BY <2>3, StepQuiet
<1>7. CASE f # NoFile
  <2> DEFINE a == F!Begins(c.op)
  <2>1. ftAt' = [ftAt EXCEPT ![t] = a] /\ got' = [got EXCEPT ![t] = f]
    BY <1>7 DEF F!GetFile, F!FtGoto
  <2>2. c.op \in FileOps \ {"open", "clone", "exit"} /\ (c.op \in {"read", "write"} => c.parts # <<>>)
    BY <1>4 DEF PlaceOk
  <2>3. /\ c.op \in {"close", "dup", "dup3", "pwrite", "ftruncate"} => a = c.op
        /\ c.op = "lseek_end" => a = "stat"
        /\ c.op \in Transfers \cup {"lseek_set", "lseek_cur"} => a = "lock"
    BY DEF F!Begins, Transfers
  <2>4. c.op \in {"close", "dup", "dup3", "pwrite", "ftruncate", "lseek_end"} \cup
                   (Transfers \cup {"lseek_set", "lseek_cur"})
    BY <2>2 DEF FileOps, Seeks
  <2> HIDE DEF a
  <2>5. PlaceOk(a, c) /\ a \in {"close", "dup", "dup3", "pwrite", "ftruncate", "stat", "lock"}
    <3>1. CASE c.op \in {"close", "dup", "dup3", "pwrite", "ftruncate"}
      BY <2>3, <3>1 DEF PlaceOk
    <3>2. CASE c.op = "lseek_end"
      BY <2>3, <3>2 DEF PlaceOk
    <3>3. CASE c.op \in Transfers \cup {"lseek_set", "lseek_cur"}
      BY <2>2, <2>3, <3>3 DEF PlaceOk, Seeks
    <3> QED
      BY <2>4, <3>1, <3>2, <3>3
  <2>6. f \in OpenFiles
    BY <1>3, <1>7
  <2>7. UseOk(a, c, f, F!Table(t))
    <3>1. c.op = "dup3" => a = "dup3"
      BY <2>3
    <3> QED
      BY <2>5, <2>6, <3>1 DEF UseOk
  <2>8. QuietStep(t, a, c, f)
    <3> HIDE DEF c, f
    <3> QED
      BY <1>1, <1>2, <1>4, <1>5, <2>1, <2>5, <2>6, <2>7 DEF QuietStep, Places, c
  <2> QED
    BY <2>8, StepQuiet
<1> QED
  BY <1>6, <1>7

(* The lowest free descriptor is a free one.                               *)
LEMMA LowestFd ==
  ASSUME FtParameters, NEW t, F!FreeFds(t) # {}
  PROVE  F!LowestFree(t) \in F!Fds /\ F!Table(t)[F!LowestFree(t)] = NoFile
<1> DEFINE Unused == F!FreeFds(t)
           Least(x) == \A e \in Unused : x <= e
           d == F!LowestFree(t)
<1>1. Unused = {x \in F!Fds : F!Table(t)[x] = NoFile}
  BY DEF F!FreeFds
<1>2. Unused \subseteq Nat
  BY <1>1 DEF F!Fds
<1> HIDE DEF Unused
<1>3. \E x \in Unused : Least(x)
  BY <1>2, LeastNumber DEF Unused
<1>4. d = CHOOSE x \in Unused : Least(x)
  BY DEF F!LowestFree, Unused
<1> HIDE DEF d
<1>5. d \in Unused
  BY <1>3, <1>4, Zenon
<1> QED
  BY <1>1, <1>5 DEF d

(* sys_open                                                                *)
LEMMA StepSysOpen ==
  ASSUME FtParameters, FtInv, NEW t \in F!FtTasks, F!SysOpen(t)
  PROVE  FtInv'
<1> DEFINE c == ftCall[t]
           tab == F!Table(t)
           f == CHOOSE g \in OpenFiles : file[g].refs = 0
<1>1. /\ ftAt[t] = "begin" /\ c.op = "open" /\ tableOf' = tableOf /\ vec' = vec /\ got' = got
      /\ ftCall' = ftCall /\ ftCalls' = ftCalls /\ bytes' = bytes /\ ftAt' = [ftAt EXCEPT ![t] = "user"]
      /\ \E g \in OpenFiles : file[g].refs = 0
  BY DEF F!SysOpen, F!FtReturn, F!FtGoto
<1>2. Busy(ftAt[t]) /\ ftAt[t] # "absent" /\ F!Changes(c)
  BY <1>1 DEF Busy, F!Changes
<1>3. tab \in Descriptors /\ tab = fds[tableOf[t]] /\ tableOf[t] \in F!FtTasks
  BY <1>2, BusyTable
<1>4. /\ ftCall = [ftCall EXCEPT ![t] = c] /\ got = [got EXCEPT ![t] = got[t]]
      /\ got[t] \in OpenFiles \cup {NoFile} /\ CallOk(c)
  BY Unmoved
<1>5. PlaceOk("user", c) /\ \A x : UseOk("user", c, got[t], x)
  BY DEF PlaceOk, UseOk, InUse
<1>6. file \in [OpenFiles -> Descriptions] /\ VecOk(vec', bytes')
  BY <1>1 DEF FtInv, FtTypes
<1>7. CASE F!FreeFds(t) = {}
  <2>1. file' = file /\ fds' = fds
    BY <1>7 DEF F!SysOpen
  <2>2. QuietStep(t, "user", c, got[t])
    BY <1>1, <1>2, <1>4, <1>5, <1>6, <2>1 DEF QuietStep, Places
  <2> QED
    BY <2>2, StepQuiet
<1>8. CASE F!FreeFds(t) # {}
  <2> DEFINE d == F!LowestFree(t)
             tab2 == [tab EXCEPT ![d] = f]
             new == [F!Closed EXCEPT !.refs = 1]
  <2>1. fds' = [fds EXCEPT ![tableOf[t]][d] = f] /\ file' = [file EXCEPT ![f] = new]
    BY <1>8 DEF F!SysOpen, F!SetFd
  <2>2. d \in F!Fds /\ tab[d] = NoFile
    BY <1>8, LowestFd
  <2>3. f \in OpenFiles /\ file[f].refs = 0
    BY <1>1, Zenon
  <2> HIDE DEF d, f
  <2>4. fds' = [fds EXCEPT ![tableOf[t]] = tab2]
    BY <1>3, <2>1
  <2>5. new \in Descriptions /\ new.refs = 1
    BY DEF F!Closed, Descriptions
  <2> HIDE DEF new
  <2>6. file' \in [OpenFiles -> Descriptions] /\ file'[f] = new /\ \A x \in OpenFiles : x # f => file'[x] = file[x]
    BY <1>6, <2>1, <2>3, <2>5
  <2>7. tab2 \in Descriptors
    BY <1>3, <2>2, <2>3 DEF Descriptors
  <2>8. ASSUME NEW x \in OpenFiles
        PROVE  file'[x].refs = file[x].refs + (F!Named(tab2, x) - F!Named(tab, x))
                                 - (Owed("user", c, got[t], tab2, x) - OwedBy(t, x))
    <3>1. Owed("user", c, got[t], tab2, x) = 0 /\ OwedBy(t, x) = 0
      BY <1>1 DEF Owed, OwedBy
    <3>2. F!Named(tab, x) \in Nat /\ file[x].refs \in Int
      BY <1>6, NamedCount DEF Descriptions
    <3>3. tab[d] # x
      BY <2>2 DEF FtParameters
    <3>4. CASE x = f
      <4>1. F!Named(tab2, x) = F!Named(tab, x) + 1
        BY <1>3, <2>2, <2>3, <3>3, <3>4, NamedSet
      <4> HIDE DEF tab, tab2
      <4> QED
        BY <2>3, <2>5, <2>6, <3>1, <3>2, <3>4, <4>1
    <3>5. CASE x # f
      <4>1. F!Named(tab2, x) = F!Named(tab, x)
        BY <1>3, <2>2, <2>3, <3>3, <3>5, NamedSet
      <4>2. file'[x].refs = file[x].refs
        BY <2>6, <3>5
      <4> HIDE DEF tab, tab2
      <4> QED
        BY <3>1, <3>2, <4>1, <4>2
    <3> QED
      BY <3>4, <3>5
  <2> HIDE DEF tab2
  <2>9. TaskStep(t, "user", c, got[t], tab2)
    BY <1>1, <1>2, <1>4, <1>5, <1>6, <2>4, <2>6, <2>7, <2>8 DEF TaskStep, Places
  <2> QED
    BY <2>9, StepTask
<1> QED
  BY <1>7, <1>8

(* sys_close: the reference first.                                         *)
LEMMA StepCloseDrop ==
  ASSUME FtParameters, FtInv, NEW t \in F!FtTasks, F!CloseDrop(t)
  PROVE  FtInv'
<1> DEFINE c == ftCall[t]
           tab == F!Table(t)
           f == got[t]
<1>1. /\ ftAt[t] = "close" /\ tableOf' = tableOf /\ vec' = vec /\ got' = got /\ fds' = fds
      /\ ftCall' = ftCall /\ ftCalls' = ftCalls /\ bytes' = bytes /\ ftAt' = [ftAt EXCEPT ![t] = "free"]
      /\ file' = F!Dropped(f)
  BY DEF F!CloseDrop, F!FtGoto
<1>2. /\ c.fd \in F!Fds /\ Busy(ftAt[t]) /\ ftAt[t] # "absent" /\ tab \in Descriptors
      /\ f \in OpenFiles /\ tab[c.fd] = f
  BY <1>1, UsesFd DEF InUse, Places
<1>3. /\ ftCall = [ftCall EXCEPT ![t] = c] /\ got = [got EXCEPT ![t] = f]
      /\ fds = [fds EXCEPT ![tableOf[t]] = tab] /\ CallOk(c) /\ PlaceOk("close", c)
  BY <1>1, <1>2, Unmoved
<1>4. c.op = "close" /\ F!Changes(c) /\ PlaceOk("free", c) /\ UseOk("free", c, f, tab)
  BY <1>2, <1>3 DEF PlaceOk, UseOk, F!Changes
<1>5. file \in [OpenFiles -> Descriptions] /\ FtTypes /\ VecOk(vec', bytes')
  BY <1>1 DEF FtInv, FtTypes
<1>6. \A x \in OpenFiles : /\ OwedBy(t, x) = 0
                           /\ Owed("free", c, f, tab, x) = (IF x = f THEN 1 ELSE 0)
  BY <1>1, <1>2, <1>4 DEF OwedBy, Owed
<1>7. file[f].refs >= 1
  <2>1. F!Named(tab, f) >= 1 /\ F!Named(tab, f) \in Nat
    BY <1>2, NamedSome, NamedCount
  <2>2. file[f].refs >= F!Named(tab, f) - OwedBy(t, f) /\ file[f].refs \in Int
    BY <1>2, <1>4, <1>5, OtherRefs DEF Descriptions
  <2>3. OwedBy(t, f) = 0
    BY <1>2, <1>6
  <2> HIDE DEF tab, f
  <2> QED
    BY <2>1, <2>2, <2>3
<1>8. /\ file' \in [OpenFiles -> Descriptions] /\ file'[f].refs = file[f].refs - 1
      /\ \A x \in OpenFiles : x # f => file'[x] = file[x]
  <2> DEFINE g == file'
  <2>1. g = F!Dropped(f)
    BY <1>1
  <2> HIDE DEF f, g
  <2>2. DropOk(g, f)
    BY <1>2, <1>5, <1>7, <2>1, DroppedFile DEF Referenced
  <2> QED
    BY <2>2 DEF g, DropOk
<1>9. ASSUME NEW x \in OpenFiles
      PROVE  file'[x].refs = file[x].refs + (F!Named(tab, x) - F!Named(tab, x))
                               - (Owed("free", c, f, tab, x) - OwedBy(t, x))
  <2>1. F!Named(tab, x) \in Nat /\ file[x].refs \in Int
    BY <1>5, NamedCount DEF Descriptions
  <2>2. OwedBy(t, x) = 0 /\ Owed("free", c, f, tab, x) = (IF x = f THEN 1 ELSE 0)
    BY <1>6
  <2> HIDE DEF tab, f, c
  <2>3. file'[x].refs = file[x].refs - (IF x = f THEN 1 ELSE 0)
    <3>1. CASE x = f
      BY <1>8, <3>1
    <3>2. CASE x # f
      BY <1>8, <2>1, <3>2
    <3> QED
      BY <3>1, <3>2
  <2> QED
    BY <2>1, <2>2, <2>3
<1> HIDE DEF tab
<1>10. TaskStep(t, "free", c, f, tab)
  BY <1>1, <1>2, <1>3, <1>4, <1>5, <1>8, <1>9 DEF TaskStep, Places, tab
<1> QED
  BY <1>10, StepTask

(* sys_close and sys_dup3: then the descriptor.                            *)
LEMMA StepCloseFree ==
  ASSUME FtParameters, FtInv, NEW t \in F!FtTasks, F!CloseFree(t)
  PROVE  FtInv'
<1> DEFINE c == ftCall[t]
           tab == F!Table(t)
           d == IF c.op = "close" THEN c.fd ELSE c.new
           a2 == IF c.op = "close" THEN "user" ELSE "dup"
           tab2 == [tab EXCEPT ![d] = NoFile]
<1>1. /\ ftAt[t] = "free" /\ tableOf' = tableOf /\ vec' = vec /\ got' = got /\ file' = file
      /\ ftCall' = ftCall /\ ftCalls' = ftCalls /\ bytes' = bytes
      /\ ftAt' = [ftAt EXCEPT ![t] = a2] /\ fds' = [fds EXCEPT ![tableOf[t]][d] = NoFile]
      /\ c.op \in {"close", "dup3"}
  BY DEF F!CloseFree, F!FtReturn, F!FtGoto, F!SetFd
<1>2. /\ c.fd \in F!Fds /\ Busy(ftAt[t]) /\ ftAt[t] # "absent" /\ tab \in Descriptors
      /\ got[t] \in OpenFiles /\ tab[c.fd] = got[t]
  BY <1>1, UsesFd DEF InUse, Places
<1>3. /\ ftCall = [ftCall EXCEPT ![t] = c] /\ got = [got EXCEPT ![t] = got[t]]
      /\ CallOk(c) /\ UseOk("free", c, got[t], tab)
  BY <1>1, Unmoved
<1>4. d \in F!Fds /\ tab[d] \in OpenFiles /\ (c.op = "dup3" => c.fd # c.new)
  BY <1>1, <1>2, <1>3 DEF CallOk, UseOk
<1>5. tab = fds[tableOf[t]] /\ tableOf[t] \in F!FtTasks
  BY <1>2, BusyTable
<1>6. fds' = [fds EXCEPT ![tableOf[t]] = tab2]
  BY <1>1, <1>5
<1>7. F!Changes(c) /\ PlaceOk(a2, c) /\ a2 \in {"user", "dup"}
  BY <1>1 DEF F!Changes, PlaceOk
<1>8. tab2 \in Descriptors
  BY <1>2, <1>4 DEF Descriptors
<1>9. UseOk(a2, c, got[t], tab2)
  <2>1. CASE c.op = "close"
    BY <2>1 DEF UseOk, InUse
  <2>2. CASE c.op = "dup3"
    <3>1. tab2[c.fd] = tab[c.fd]
      BY <1>2, <1>4, <2>2 DEF Descriptors
    <3> QED
      BY <1>2, <1>4, <2>2, <3>1 DEF UseOk
  <2> QED
    BY <1>1, <2>1, <2>2
<1>10. file \in [OpenFiles -> Descriptions] /\ VecOk(vec', bytes')
  BY <1>1 DEF FtInv, FtTypes
<1>11. \A x \in OpenFiles : /\ OwedBy(t, x) = (IF x = tab[d] THEN 1 ELSE 0)
                            /\ Owed(a2, c, got[t], tab2, x) = 0
  BY <1>1, <1>7 DEF OwedBy, Owed
<1>12. ASSUME NEW x \in OpenFiles
       PROVE  file'[x].refs = file[x].refs + (F!Named(tab2, x) - F!Named(tab, x))
                                - (Owed(a2, c, got[t], tab2, x) - OwedBy(t, x))
  <2>1. F!Named(tab, x) \in Nat /\ F!Named(tab2, x) \in Nat /\ file[x].refs \in Int
    <3>1. F!Named(tab, x) \in Nat
      BY NamedCount
    <3>2. F!Named(tab2, x) \in Nat
      BY NamedCount, Zenon
    <3> QED
      BY <1>10, <3>1, <3>2 DEF Descriptions
  <2>2. OwedBy(t, x) = (IF x = tab[d] THEN 1 ELSE 0) /\ Owed(a2, c, got[t], tab2, x) = 0
    BY <1>11
  <2>3. NoFile # x /\ NoFile \in OpenFiles \cup {NoFile}
    BY DEF FtParameters
  <2> HIDE DEF d, tab
  <2>4. F!Named(tab2, x) = F!Named(tab, x) - (IF x = tab[d] THEN 1 ELSE 0)
    <3>1. CASE x = tab[d]
      BY <1>2, <1>4, <2>3, <3>1, NamedSet
    <3>2. CASE x # tab[d]
      <4>1. F!Named(tab2, x) = F!Named(tab, x)
        BY <1>2, <1>4, <2>3, <3>2, NamedSet
      <4> QED
        BY <2>1, <3>2, <4>1
    <3> QED
      BY <3>1, <3>2
  <2> HIDE DEF tab2, a2
  <2> QED
    BY <1>1, <2>1, <2>2, <2>4
<1> HIDE DEF tab2, a2, d
<1>13. TaskStep(t, a2, c, got[t], tab2)
  BY <1>1, <1>2, <1>3, <1>6, <1>7, <1>8, <1>9, <1>10, <1>12 DEF TaskStep, Places
<1> QED
  BY <1>13, StepTask

(* A descriptor set to the description in use, which is not counted yet.   *)
LEMMA StepNamed ==
  ASSUME FtParameters, FtInv, NEW t \in F!FtTasks, ftAt[t] = "dup", NEW d \in F!Fds,
         F!Table(t)[d] = NoFile, ftCall[t].op = "dup3" => d = ftCall[t].new,
         F!SetFd(t, d, got[t]), ftAt' = [ftAt EXCEPT ![t] = "ref"],
         UNCHANGED <<tableOf, tableRefs, file, vec, ftCall, got, ftCalls, trail, bytes>>
  PROVE  FtInv'
<1> DEFINE c == ftCall[t]
           tab == F!Table(t)
           f == got[t]
           tab2 == [tab EXCEPT ![d] = f]
<1>1. /\ tableOf' = tableOf /\ vec' = vec /\ got' = got /\ file' = file /\ ftCall' = ftCall
      /\ ftCalls' = ftCalls /\ bytes' = bytes /\ fds' = [fds EXCEPT ![tableOf[t]][d] = f]
  BY DEF F!SetFd
<1>2. /\ c.fd \in F!Fds /\ Busy(ftAt[t]) /\ ftAt[t] # "absent" /\ tab \in Descriptors
      /\ f \in OpenFiles /\ tab[c.fd] = f
  BY UsesFd DEF InUse, Places
<1>3. /\ ftCall = [ftCall EXCEPT ![t] = c] /\ got = [got EXCEPT ![t] = f]
      /\ CallOk(c) /\ UseOk("dup", c, f, tab) /\ PlaceOk("dup", c)
  BY Unmoved
<1>4. tab = fds[tableOf[t]] /\ tableOf[t] \in F!FtTasks
  BY <1>2, BusyTable
<1>5. fds' = [fds EXCEPT ![tableOf[t]] = tab2]
  BY <1>1, <1>4
<1>6. F!Changes(c) /\ PlaceOk("ref", c)
  BY <1>3 DEF F!Changes, PlaceOk
<1>7. NoFile # f /\ d # c.fd
  BY <1>2 DEF FtParameters
<1>8. tab2 \in Descriptors /\ tab2[c.fd] = f /\ tab2[d] = f
  BY <1>2, <1>7 DEF Descriptors
<1>9. UseOk("ref", c, f, tab2)
  <2>1. \E e \in F!Fds : e # c.fd /\ tab2[e] = f
    BY <1>7, <1>8
  <2> QED
    BY <1>2, <1>3, <1>8, <2>1 DEF UseOk
<1>10. file \in [OpenFiles -> Descriptions] /\ VecOk(vec', bytes')
  BY <1>1 DEF FtInv, FtTypes
<1>11. \A x \in OpenFiles : OwedBy(t, x) = 0 /\ Owed("ref", c, f, tab2, x) = (IF x = f THEN 1 ELSE 0)
  BY DEF OwedBy, Owed
<1>12. ASSUME NEW x \in OpenFiles
       PROVE  file'[x].refs = file[x].refs + (F!Named(tab2, x) - F!Named(tab, x))
                                - (Owed("ref", c, f, tab2, x) - OwedBy(t, x))
  <2>1. F!Named(tab, x) \in Nat /\ file[x].refs \in Int
    BY <1>10, NamedCount DEF Descriptions
  <2>2. OwedBy(t, x) = 0 /\ Owed("ref", c, f, tab2, x) = (IF x = f THEN 1 ELSE 0)
    BY <1>11
  <2>3. tab[d] # x /\ f \in OpenFiles \cup {NoFile}
    BY <1>2 DEF FtParameters
  <2> HIDE DEF tab, f
  <2>4. F!Named(tab2, x) = F!Named(tab, x) + (IF x = f THEN 1 ELSE 0)
    <3>1. CASE x = f
      BY <1>2, <2>3, <3>1, NamedSet
    <3>2. CASE x # f
      <4>1. F!Named(tab2, x) = F!Named(tab, x)
        BY <1>2, <2>3, <3>2, NamedSet
      <4> QED
        BY <2>1, <3>2, <4>1
    <3> QED
      BY <3>1, <3>2
  <2> HIDE DEF tab2
  <2> QED
    BY <1>1, <2>1, <2>2, <2>4
<1> HIDE DEF tab2
<1>13. TaskStep(t, "ref", c, f, tab2)
  BY <1>1, <1>2, <1>3, <1>5, <1>6, <1>8, <1>9, <1>10, <1>12 DEF TaskStep, Places
<1> QED
  BY <1>13, StepTask

(* sys_dup and the end of sys_dup3                                         *)
LEMMA StepDup ==
  ASSUME FtParameters, FtInv, NEW t \in F!FtTasks, F!Dup(t)
  PROVE  FtInv'
<1> DEFINE c == ftCall[t]
<1>1. ftAt[t] = "dup" /\ UNCHANGED <<tableOf, tableRefs, file, vec, ftCall, got, ftCalls, trail, bytes>>
  BY DEF F!Dup
<1>2. CASE c.op = "dup" /\ F!FreeFds(t) = {} /\ F!FtReturn(t) /\ UNCHANGED fds
  <2>1. ftAt' = [ftAt EXCEPT ![t] = "user"] /\ fds' = fds
    BY <1>2 DEF F!FtReturn, F!FtGoto
  <2>2. /\ ftCall = [ftCall EXCEPT ![t] = c] /\ got = [got EXCEPT ![t] = got[t]]
        /\ got[t] \in OpenFiles \cup {NoFile} /\ CallOk(c)
    BY Unmoved
  <2>3. PlaceOk("user", c) /\ UseOk("user", c, got[t], F!Table(t)) /\ Busy(ftAt[t])
    BY <1>1 DEF PlaceOk, UseOk, InUse, Busy
  <2>4. file \in [OpenFiles -> Descriptions] /\ VecOk(vec, bytes)
    BY DEF FtInv, FtTypes
  <2>5. QuietStep(t, "user", c, got[t])
    BY <1>1, <2>1, <2>2, <2>3, <2>4 DEF QuietStep, Places
  <2> QED
    BY <2>5, StepQuiet
<1>3. CASE c.op = "dup" /\ F!FreeFds(t) # {} /\ F!SetFd(t, F!LowestFree(t), got[t]) /\ F!FtGoto(t, "ref")
  <2>1. F!LowestFree(t) \in F!Fds /\ F!Table(t)[F!LowestFree(t)] = NoFile
    BY <1>3, LowestFd
  <2> QED
    BY <1>1, <1>3, <2>1, StepNamed DEF F!FtGoto
<1>4. CASE c.op = "dup3" /\ F!Table(t)[c.new] = NoFile /\ F!SetFd(t, c.new, got[t]) /\ F!FtGoto(t, "ref")
  <2>1. c.new \in F!Fds
    BY <1>4, Unmoved DEF CallOk
  <2> QED
    BY <1>1, <1>4, <2>1, StepNamed DEF F!FtGoto
<1> QED
  BY <1>2, <1>3, <1>4 DEF F!Dup

(* ... and the reference taken then.                                       *)
LEMMA StepDupRef ==
  ASSUME FtParameters, FtInv, NEW t \in F!FtTasks, F!DupRef(t)
  PROVE  FtInv'
<1> DEFINE c == ftCall[t]
           tab == F!Table(t)
           f == got[t]
<1>1. /\ ftAt[t] = "ref" /\ tableOf' = tableOf /\ vec' = vec /\ got' = got /\ fds' = fds
      /\ ftCall' = ftCall /\ ftCalls' = ftCalls /\ bytes' = bytes /\ ftAt' = [ftAt EXCEPT ![t] = "user"]
      /\ file' = [file EXCEPT ![f].refs = @ + 1]
  BY DEF F!DupRef, F!FtReturn, F!FtGoto
<1>2. /\ Busy(ftAt[t]) /\ ftAt[t] # "absent" /\ tab \in Descriptors /\ f \in OpenFiles
  BY <1>1, UsesFd DEF InUse, Places
<1>3. /\ ftCall = [ftCall EXCEPT ![t] = c] /\ got = [got EXCEPT ![t] = f]
      /\ fds = [fds EXCEPT ![tableOf[t]] = tab] /\ CallOk(c)
  BY <1>2, Unmoved
<1>4. PlaceOk("user", c) /\ UseOk("user", c, f, tab)
  BY DEF PlaceOk, UseOk, InUse
<1>5. file \in [OpenFiles -> Descriptions] /\ VecOk(vec', bytes')
  BY <1>1 DEF FtInv, FtTypes
<1>6. \A x \in OpenFiles : OwedBy(t, x) = (IF x = f THEN 1 ELSE 0) /\ Owed("user", c, f, tab, x) = 0
  BY <1>1 DEF OwedBy, Owed
<1>7. /\ file' \in [OpenFiles -> Descriptions]
      /\ \A x \in OpenFiles : file'[x].refs = file[x].refs + (IF x = f THEN 1 ELSE 0)
  <2> HIDE DEF f
  <2>1. file' \in [OpenFiles -> Descriptions]
    BY <1>1, <1>2, <1>5 DEF Descriptions
  <2>2. ASSUME NEW x \in OpenFiles PROVE file'[x].refs = file[x].refs + (IF x = f THEN 1 ELSE 0)
    <3>1. file[x].refs \in Int
      BY <1>5 DEF Descriptions
    <3>2. CASE x = f
      BY <1>1, <1>2, <1>5, <3>2 DEF Descriptions
    <3>3. CASE x # f
      <4>1. file'[x] = file[x]
        BY <1>1, <1>2, <1>5, <3>3
      <4> QED
        BY <3>1, <3>3, <4>1
    <3> QED
      BY <3>2, <3>3
  <2> QED
    BY <2>1, <2>2
<1>8. ASSUME NEW x \in OpenFiles
      PROVE  file'[x].refs = file[x].refs + (F!Named(tab, x) - F!Named(tab, x))
                               - (Owed("user", c, f, tab, x) - OwedBy(t, x))
  <2>1. F!Named(tab, x) \in Nat /\ file[x].refs \in Int
    BY <1>5, NamedCount DEF Descriptions
  <2>2. /\ OwedBy(t, x) = (IF x = f THEN 1 ELSE 0) /\ Owed("user", c, f, tab, x) = 0
        /\ file'[x].refs = file[x].refs + (IF x = f THEN 1 ELSE 0)
    BY <1>6, <1>7
  <2> HIDE DEF tab, f, c
  <2> QED
    BY <2>1, <2>2
<1> HIDE DEF tab
<1>9. TaskStep(t, "user", c, f, tab)
  BY <1>1, <1>2, <1>3, <1>4, <1>5, <1>7, <1>8 DEF TaskStep, Places, tab
<1> QED
  BY <1>9, StepTask

(* sys_dup3                                                                *)
LEMMA StepDup3 ==
  ASSUME FtParameters, FtInv, NEW t \in F!FtTasks, F!Dup3(t)
  PROVE  FtInv'
<1> DEFINE c == ftCall[t]
           tab == F!Table(t)
           g == tab[c.new]
<1>1. /\ ftAt[t] = "dup3" /\ tableOf' = tableOf /\ vec' = vec /\ got' = got /\ fds' = fds
      /\ ftCall' = ftCall /\ ftCalls' = ftCalls /\ bytes' = bytes
  BY DEF F!Dup3
<1>2. /\ c.fd \in F!Fds /\ Busy(ftAt[t]) /\ ftAt[t] # "absent" /\ tab \in Descriptors
      /\ got[t] \in OpenFiles /\ tab[c.fd] = got[t]
  BY <1>1, UsesFd DEF InUse, Places
<1>3. /\ ftCall = [ftCall EXCEPT ![t] = c] /\ got = [got EXCEPT ![t] = got[t]]
      /\ fds = [fds EXCEPT ![tableOf[t]] = tab] /\ CallOk(c) /\ PlaceOk("dup3", c)
  BY <1>1, <1>2, Unmoved
<1>4. c.op = "dup3" /\ F!Changes(c) /\ c.new \in F!Fds
  BY <1>3 DEF PlaceOk, CallOk, F!Changes
<1>5. g \in OpenFiles \cup {NoFile}
  BY <1>2, <1>4 DEF Descriptors
<1>6. file \in [OpenFiles -> Descriptions] /\ FtTypes /\ VecOk(vec', bytes')
  BY <1>1 DEF FtInv, FtTypes
<1>7. CASE c.fd = c.new /\ F!FtReturn(t) /\ UNCHANGED file
  <2>1. PlaceOk("user", c) /\ UseOk("user", c, got[t], tab)
    BY DEF PlaceOk, UseOk, InUse
  <2>2. ftAt' = [ftAt EXCEPT ![t] = "user"] /\ file' = file
    BY <1>7 DEF F!FtReturn, F!FtGoto
  <2>3. QuietStep(t, "user", c, got[t])
    BY <1>1, <1>2, <1>3, <1>6, <2>1, <2>2 DEF QuietStep, Places
  <2> QED
    BY <2>3, StepQuiet
<1>8. CASE c.fd # c.new /\ g = NoFile /\ F!FtGoto(t, "dup") /\ UNCHANGED file
  <2>1. PlaceOk("dup", c) /\ UseOk("dup", c, got[t], tab)
    BY <1>2, <1>4, <1>8 DEF PlaceOk, UseOk
  <2>2. ftAt' = [ftAt EXCEPT ![t] = "dup"] /\ file' = file
    BY <1>8 DEF F!FtGoto
  <2>3. QuietStep(t, "dup", c, got[t])
    BY <1>1, <1>2, <1>3, <1>6, <2>1, <2>2 DEF QuietStep, Places
  <2> QED
    BY <2>3, StepQuiet
<1>9. CASE c.fd # c.new /\ g # NoFile /\ F!FtGoto(t, "free") /\ file' = F!Dropped(g)
  <2>1. g \in OpenFiles
    BY <1>5, <1>9
  <2>2. PlaceOk("free", c) /\ UseOk("free", c, got[t], tab)
    BY <1>2, <1>4, <1>9, <2>1 DEF PlaceOk, UseOk
  <2>3. \A x \in OpenFiles : /\ OwedBy(t, x) = 0
                             /\ Owed("free", c, got[t], tab, x) = (IF x = g THEN 1 ELSE 0)
    BY <1>1, <1>4 DEF OwedBy, Owed
  <2>4. file[g].refs >= 1
    <3>1. F!Named(tab, g) >= 1 /\ F!Named(tab, g) \in Nat
      BY <1>4, NamedSome, NamedCount
    <3>2. file[g].refs >= F!Named(tab, g) - OwedBy(t, g) /\ file[g].refs \in Int
      BY <1>2, <1>4, <1>6, <2>1, OtherRefs DEF Descriptions
    <3>3. OwedBy(t, g) = 0
      BY <2>1, <2>3
    <3> HIDE DEF tab, g
    <3> QED
      BY <3>1, <3>2, <3>3
  <2>5. /\ file' \in [OpenFiles -> Descriptions] /\ file'[g].refs = file[g].refs - 1
        /\ \A x \in OpenFiles : x # g => file'[x] = file[x]
    <3> DEFINE h == file'
    <3>1. h = F!Dropped(g)
      BY <1>9
    <3> HIDE DEF g, h
    <3>2. DropOk(h, g)
      BY <1>6, <2>1, <2>4, <3>1, DroppedFile DEF Referenced
    <3> QED
      BY <3>2 DEF h, DropOk
  <2>6. ASSUME NEW x \in OpenFiles
        PROVE  file'[x].refs = file[x].refs + (F!Named(tab, x) - F!Named(tab, x))
                                 - (Owed("free", c, got[t], tab, x) - OwedBy(t, x))
    <3>1. F!Named(tab, x) \in Nat /\ file[x].refs \in Int
      BY <1>6, NamedCount DEF Descriptions
    <3>2. OwedBy(t, x) = 0 /\ Owed("free", c, got[t], tab, x) = (IF x = g THEN 1 ELSE 0)
      BY <2>3
    <3> HIDE DEF tab, g, c
    <3>3. file'[x].refs = file[x].refs - (IF x = g THEN 1 ELSE 0)
      <4>1. CASE x = g
        BY <2>5, <4>1
      <4>2. CASE x # g
        BY <2>5, <3>1, <4>2
      <4> QED
        BY <4>1, <4>2
    <3> QED
      BY <3>1, <3>2, <3>3
  <2>7. ftAt' = [ftAt EXCEPT ![t] = "free"]
    BY <1>9 DEF F!FtGoto
  <2> HIDE DEF tab
  <2>8. TaskStep(t, "free", c, got[t], tab)
    BY <1>1, <1>2, <1>3, <1>4, <1>6, <2>2, <2>5, <2>6, <2>7 DEF TaskStep, Places, tab
  <2> QED
    BY <2>8, StepTask
<1> QED
  BY <1>7, <1>8, <1>9 DEF F!Dup3

(* files_unref with the last task.                                         *)
LEMMA StepExit ==
  ASSUME FtParameters, FtInv, NEW t \in F!FtTasks, F!Exit(t)
  PROVE  FtInv'
<1> DEFINE c == ftCall[t]
           tab == F!Table(t)
           tab2 == [d \in F!Fds |-> NoFile]
<1>1. /\ ftAt[t] = "begin" /\ c.op = "exit" /\ tableOf' = tableOf /\ vec' = vec /\ got' = got
      /\ ftCall' = ftCall /\ ftCalls' = ftCalls /\ bytes' = bytes /\ ftAt' = [ftAt EXCEPT ![t] = "exited"]
  BY DEF F!Exit, F!FtGoto
<1>2. Busy(ftAt[t]) /\ ftAt[t] # "absent" /\ F!Changes(c)
  BY <1>1 DEF Busy, F!Changes
<1>3. tab \in Descriptors /\ tab = fds[tableOf[t]] /\ tableOf[t] \in F!FtTasks
  BY <1>2, BusyTable
<1>4. /\ ftCall = [ftCall EXCEPT ![t] = c] /\ got = [got EXCEPT ![t] = got[t]]
      /\ got[t] \in OpenFiles \cup {NoFile} /\ CallOk(c)
  BY Unmoved
<1>5. PlaceOk("exited", c) /\ \A x : UseOk("exited", c, got[t], x)
  BY DEF PlaceOk, UseOk, InUse
<1>6. file \in [OpenFiles -> Descriptions] /\ VecOk(vec', bytes')
  BY <1>1 DEF FtInv, FtTypes
<1>7. CASE fds' = fds /\ file' = file
  <2>1. QuietStep(t, "exited", c, got[t])
    BY <1>1, <1>2, <1>4, <1>5, <1>6, <1>7 DEF QuietStep, Places
  <2> QED
    BY <2>1, StepQuiet
<1> DEFINE n(f) == F!Named(tab, f)
           left(f) == IF n(f) >= file[f].refs THEN F!Closed ELSE [file[f] EXCEPT !.refs = file[f].refs - n(f)]
<1>8. CASE fds' = [fds EXCEPT ![tableOf[t]] = tab2] /\ file' = [f \in OpenFiles |-> left(f)]
  <2>1. tab2 \in Descriptors
    BY DEF Descriptors
  <2>2. ASSUME NEW f \in OpenFiles
        PROVE  /\ n(f) \in Nat /\ file[f].refs \in Int /\ file[f].refs >= n(f) /\ OwedBy(t, f) = 0
               /\ left(f) \in Descriptions /\ left(f).refs = file[f].refs - n(f)
    <3>1. n(f) \in Nat /\ file[f] \in Descriptions /\ file[f].refs \in Int
      BY <1>6, NamedCount DEF Descriptions
    <3>2. OwedBy(t, f) = 0
      BY <1>1 DEF OwedBy, Owed
    <3>3. file[f].refs >= n(f) - OwedBy(t, f)
      BY <1>2, OtherRefs
    <3> HIDE DEF n
    <3>4. file[f].refs >= n(f)
      BY <3>1, <3>2, <3>3
    <3>5. CASE n(f) >= file[f].refs
      <4>1. left(f) = F!Closed /\ file[f].refs - n(f) = 0
        BY <3>1, <3>4, <3>5
      <4>2. F!Closed \in Descriptions /\ F!Closed.refs = 0
        BY DEF F!Closed, Descriptions
      <4> HIDE DEF left
      <4> QED
        BY <3>1, <3>2, <3>4, <4>1, <4>2
    <3>6. CASE ~(n(f) >= file[f].refs)
      <4> DEFINE m == file[f].refs - n(f)
      <4>1. left(f) = [file[f] EXCEPT !.refs = m] /\ m \in Int
        BY <3>1, <3>6
      <4> HIDE DEF left, m
      <4>2. left(f) \in Descriptions /\ left(f).refs = m
        BY <3>1, <4>1 DEF Descriptions
      <4> QED
        BY <3>1, <3>2, <3>4, <4>2 DEF m
    <3> QED
      BY <3>5, <3>6
  <2>3. \A f \in OpenFiles : F!Named(tab2, f) = 0 /\ Owed("exited", c, got[t], tab2, f) = 0
    <3> SUFFICES ASSUME NEW f \in OpenFiles
                 PROVE  F!Named(tab2, f) = 0 /\ Owed("exited", c, got[t], tab2, f) = 0
      OBVIOUS
    <3>1. {d \in F!Fds : tab2[d] = f} = {}
      BY DEF FtParameters
    <3>2. F!Named(tab2, f) = Cardinality({d \in F!Fds : tab2[d] = f})
      BY NamedCount, Zenon
    <3>3. F!Named(tab2, f) = 0
      BY <3>1, <3>2, FS_EmptySet, Zenon
    <3> QED
      BY <3>3 DEF Owed
  <2> HIDE DEF n, left, tab2
  <2>4. file' \in [OpenFiles -> Descriptions] /\ \A f \in OpenFiles : file'[f] = left(f)
    BY <1>8, <2>2
  <2>5. ASSUME NEW x \in OpenFiles
        PROVE  file'[x].refs = file[x].refs + (F!Named(tab2, x) - F!Named(tab, x))
                                 - (Owed("exited", c, got[t], tab2, x) - OwedBy(t, x))
    <3>1. file'[x].refs = file[x].refs - n(x) /\ n(x) \in Nat /\ file[x].refs \in Int /\ OwedBy(t, x) = 0
      BY <2>2, <2>4
    <3>2. F!Named(tab2, x) = 0 /\ Owed("exited", c, got[t], tab2, x) = 0 /\ F!Named(tab, x) = n(x)
      BY <2>3 DEF n
    <3> QED
      BY <3>1, <3>2
  <2>6. TaskStep(t, "exited", c, got[t], tab2)
    BY <1>1, <1>2, <1>4, <1>5, <1>6, <1>8, <2>1, <2>4, <2>5 DEF TaskStep, Places
  <2> QED
    BY <2>6, StepTask
<1> QED
  BY <1>7, <1>8 DEF F!Exit

(* Steps of reading, writing and seeking: with a description in use, its   *)
(* table and its references stay.                                          *)
DataPlaces == {"lock", "part", "transfer", "advance", "pwrite", "ftruncate", "stat", "seek"}

DataStep(t, a2, c2) ==
  /\ ftAt[t] \in DataPlaces /\ a2 \in DataPlaces \cup {"user"}
  /\ tableOf' = tableOf /\ fds' = fds /\ ftCalls' = ftCalls /\ got' = got
  /\ ftAt' = [ftAt EXCEPT ![t] = a2] /\ ftCall' = [ftCall EXCEPT ![t] = c2]
  /\ c2.op = ftCall[t].op /\ c2.fd = ftCall[t].fd /\ CallOk(c2) /\ PlaceOk(a2, c2)
  /\ file' \in [OpenFiles -> Descriptions] /\ \A f \in OpenFiles : file'[f].refs = file[f].refs
  /\ VecOk(vec', bytes')

(* Such a step is a quiet one.                                             *)
LEMMA StepData ==
  ASSUME FtParameters, FtInv, NEW t \in F!FtTasks, NEW a2, NEW c2, DataStep(t, a2, c2)
  PROVE  FtInv'
<1> USE DEF DataStep
<1>1. ftAt[t] \in InUse
  BY DEF DataPlaces, InUse, Places
<1>2. Busy(ftAt[t]) /\ got[t] \in OpenFiles /\ F!Table(t)[ftCall[t].fd] = got[t]
  <2>1. ftAt[t] # "get"
    BY DEF DataPlaces
  <2> QED
    BY <1>1, <2>1, UsesFd
<1>3. UseOk(a2, c2, got[t], F!Table(t))
  <2>1. a2 \notin {"free", "dup", "ref"}
    BY DEF DataPlaces
  <2> QED
    BY <1>2, <2>1 DEF UseOk
<1>4. got' = [got EXCEPT ![t] = got[t]]
  BY Unmoved
<1>5. a2 \in Places \ {"absent", "free", "ref"} /\ ftAt[t] \notin {"free", "ref"}
  BY DEF DataPlaces, Places
<1>6. QuietStep(t, a2, c2, got[t])
  BY <1>2, <1>3, <1>4, <1>5 DEF QuietStep
<1> QED
  BY <1>6, StepQuiet

(* What such a step starts from.                                           *)
LEMMA DataUse ==
  ASSUME FtParameters, FtInv, NEW t \in F!FtTasks, ftAt[t] \in DataPlaces
  PROVE  /\ got[t] \in OpenFiles /\ CallOk(ftCall[t]) /\ PlaceOk(ftAt[t], ftCall[t])
         /\ ftCall = [ftCall EXCEPT ![t] = ftCall[t]] /\ FtTypes /\ VecOk(vec, bytes)
         /\ file \in [OpenFiles -> Descriptions]
<1>1. ftAt[t] \in InUse /\ ftAt[t] # "get"
  BY DEF DataPlaces, InUse, Places
<1>2. got[t] \in OpenFiles
  BY <1>1, UsesFd
<1>3. FtTypes /\ VecOk(vec, bytes) /\ file \in [OpenFiles -> Descriptions]
  BY DEF FtInv, FtTypes
<1> QED
  BY <1>2, <1>3, Unmoved

(* The lock of the offset is taken.                                        *)
LEMMA StepLockOffset ==
  ASSUME FtParameters, FtInv, NEW t \in F!FtTasks, F!LockOffset(t)
  PROVE  FtInv'
<1> DEFINE c == ftCall[t]
           f == got[t]
           a2 == CASE F!Vectored(t) -> "part"
                   [] c.op \in {"read", "write"} -> "transfer"
                   [] OTHER -> "seek"
           g == file'
<1>1. /\ ftAt[t] = "lock" /\ tableOf' = tableOf /\ fds' = fds /\ vec' = vec /\ got' = got
      /\ ftCall' = ftCall /\ ftCalls' = ftCalls /\ bytes' = bytes /\ ftAt' = [ftAt EXCEPT ![t] = a2]
  BY DEF F!LockOffset, F!FtGoto
<1>2. g = F!Locked(f, t)
  BY DEF F!LockOffset
<1>3. ftAt[t] \in DataPlaces
  BY <1>1 DEF DataPlaces
<1>4. /\ f \in OpenFiles /\ CallOk(c) /\ PlaceOk("lock", c) /\ FtTypes /\ VecOk(vec, bytes)
      /\ ftCall = [ftCall EXCEPT ![t] = c]
  BY <1>1, <1>3, DataUse
<1>5. c.op \in Transfers \cup Seeks /\ (c.op \in {"read", "write"} => c.parts # <<>>)
  BY <1>4 DEF PlaceOk
<1>6. /\ c.op \in {"readv", "writev"} => a2 = "part"
      /\ c.op \in {"read", "write"} => a2 = "transfer"
      /\ c.op \notin Transfers => a2 = "seek"
  BY DEF F!Vectored, Transfers
<1> HIDE DEF a2, g
<1>7. PlaceOk(a2, c) /\ a2 \in DataPlaces
  <2>1. CASE c.op \in {"readv", "writev"}
    BY <1>6, <2>1 DEF PlaceOk, DataPlaces
  <2>2. CASE c.op \in {"read", "write"}
    BY <1>5, <1>6, <2>2 DEF PlaceOk, DataPlaces, Transfers
  <2>3. CASE c.op \notin Transfers
    BY <1>5, <1>6, <2>3 DEF PlaceOk, DataPlaces
  <2> QED
    BY <2>1, <2>2, <2>3 DEF Transfers
<1>8. g \in [OpenFiles -> Descriptions] /\ \A x \in OpenFiles : g[x].refs = file[x].refs
  <2>1. /\ g \in [OpenFiles -> Descriptions] /\ \A x \in OpenFiles : x # f => g[x] = file[x]
        /\ g[f].refs = file[f].refs
    BY <1>2, <1>4, LockedFile
  <2> QED
    BY <2>1
<1>9. DataStep(t, a2, c)
  BY <1>1, <1>3, <1>4, <1>7, <1>8 DEF DataStep, g
<1> QED
  BY <1>9, StepData

(* The next part of a vector.                                              *)
LEMMA StepPart ==
  ASSUME FtParameters, FtInv, NEW t \in F!FtTasks, F!Part(t)
  PROVE  FtInv'
<1> DEFINE c == ftCall[t]
           f == got[t]
           g == file'
<1>1. /\ ftAt[t] = "part" /\ tableOf' = tableOf /\ fds' = fds /\ vec' = vec /\ got' = got
      /\ ftCall' = ftCall /\ ftCalls' = ftCalls /\ bytes' = bytes
  BY DEF F!Part
<1>3. ftAt[t] \in DataPlaces
  BY <1>1 DEF DataPlaces
<1>4. /\ f \in OpenFiles /\ CallOk(c) /\ PlaceOk("part", c) /\ FtTypes /\ VecOk(vec, bytes)
      /\ ftCall = [ftCall EXCEPT ![t] = c]
  BY <1>1, <1>3, DataUse
<1>5. c.op \in {"readv", "writev"}
  BY <1>4 DEF PlaceOk
<1>6. CASE c.parts # <<>> /\ g = F!Locked(f, t) /\ ftAt' = [ftAt EXCEPT ![t] = "transfer"]
  <2> HIDE DEF g
  <2>1. /\ g \in [OpenFiles -> Descriptions] /\ \A x \in OpenFiles : x # f => g[x] = file[x]
        /\ g[f].refs = file[f].refs
    BY <1>4, <1>6, LockedFile
  <2>2. PlaceOk("transfer", c)
    BY <1>5, <1>6 DEF PlaceOk, Transfers
  <2>3. DataStep(t, "transfer", c)
    BY <1>1, <1>3, <1>4, <1>6, <2>1, <2>2 DEF DataStep, g, DataPlaces
  <2> QED
    BY <2>3, StepData
<1>7. CASE g = F!Unlocked(f) /\ ftAt' = [ftAt EXCEPT ![t] = "user"]
  <2> HIDE DEF g
  <2>1. /\ g \in [OpenFiles -> Descriptions] /\ \A x \in OpenFiles : x # f => g[x] = file[x]
        /\ g[f].refs = file[f].refs
    BY <1>4, <1>7, UnlockedFile
  <2>2. PlaceOk("user", c)
    BY DEF PlaceOk
  <2>3. DataStep(t, "user", c)
    BY <1>1, <1>3, <1>4, <1>7, <2>1, <2>2 DEF DataStep, g
  <2> QED
    BY <2>3, StepData
<1> QED
  BY <1>6, <1>7 DEF F!Part, F!FtGoto, F!FtReturn

(* What a call writes.                                                     *)
LEMMA PayloadSeq ==
  ASSUME FtParameters, FtTypes, NEW t \in F!FtTasks, NEW n \in Nat
  PROVE  /\ F!Payload(t, n) \in Seq(Nat) /\ Len(F!Payload(t, n)) = n
         /\ \A k \in 1..n : F!Payload(t, n)[k] = 2 * ftCalls[t] + (IF t = FirstTask THEN 0 ELSE 1)
<1> DEFINE w == 2 * ftCalls[t] + (IF t = FirstTask THEN 0 ELSE 1)
<1>1. ftCalls[t] \in Nat
  BY DEF FtTypes
<1>2. w \in Nat
  BY <1>1
<1>3. F!Payload(t, n) = [k \in 1..n |-> w]
  BY DEF F!Payload
<1> HIDE DEF w
<1>4. [k \in 1..n |-> w] \in Seq(Nat) /\ Len([k \in 1..n |-> w]) = n
  BY <1>2
<1>5. \A k \in 1..n : [x \in 1..n |-> w][k] = w
  OBVIOUS
<1> QED
  BY <1>3, <1>4, <1>5 DEF w

(* A read moves no more than was asked for.                                *)
LEMMA ReadCount ==
  ASSUME NEW v, NEW b, VecOk(v, b), NEW n \in Nat, NEW off \in Nat
  PROVE  F!PreadCount(v, n, off) \in Nat /\ F!PreadCount(v, n, off) <= n
<1>1. v.size \in Nat
  BY DEF VecOk
<1> QED
  BY <1>1 DEF F!PreadCount

(* The call, with what it moved.                                           *)
MovedOk(t, n, c2) ==
  /\ c2.op = ftCall[t].op /\ c2.fd = ftCall[t].fd /\ c2.parts = ftCall[t].parts /\ c2.moved = n
  /\ CallOk(c2) /\ c2.op \in Transfers /\ c2.parts \in Seq(Nat) /\ c2.parts # <<>>
  /\ Head(c2.parts) \in Nat
  /\ [ftCall EXCEPT ![t].moved = n] = [ftCall EXCEPT ![t] = c2]

(* It is one of the same kind, with the same parts.                        *)
LEMMA MovedCall ==
  ASSUME FtParameters, FtInv, NEW t \in F!FtTasks, ftAt[t] \in {"transfer", "advance"},
         NEW n \in Nat
  PROVE  MovedOk(t, n, [ftCall[t] EXCEPT !.moved = n])
<1> DEFINE c2 == [ftCall[t] EXCEPT !.moved = n]
<1> DEFINE c == ftCall[t]
<1>1. CallOk(c) /\ PlaceOk(ftAt[t], c)
  BY Unmoved
<1>2. c.op \in Transfers /\ c.parts # <<>>
  BY <1>1 DEF PlaceOk
<1>3. c \in [op : Transfers, fd : F!Fds, parts : Seq(Nat), moved : Nat]
  BY <1>1, <1>2 DEF CallOk
<1>4. [ftCall EXCEPT ![t].moved = n] = [ftCall EXCEPT ![t] = c2]
  OBVIOUS
<1> HIDE DEF c
<1>5. /\ c2 \in [op : Transfers, fd : F!Fds, parts : Seq(Nat), moved : Nat]
      /\ c2.op = c.op /\ c2.fd = c.fd /\ c2.parts = c.parts /\ c2.moved = n
  BY <1>3 DEF c
<1>6. CallOk(c2)
  BY <1>2, <1>5 DEF CallOk, Transfers, Seeks
<1>7. c2.parts \in Seq(Nat) /\ c2.parts # <<>>
  BY <1>2, <1>3, <1>5
<1> HIDE DEF c2
<1>8. Head(c2.parts) \in Nat
  BY <1>7
<1> QED
  BY <1>2, <1>4, <1>5, <1>6, <1>7, <1>8 DEF c, c2, MovedOk

(* file_pread or file_pwrite at the offset.                                *)
LEMMA StepTransfer ==
  ASSUME FtParameters, FtInv, NEW t \in F!FtTasks, F!Transfer(t)
  PROVE  FtInv'
<1> DEFINE c == ftCall[t]
           f == got[t]
           n == Head(c.parts)
           s == F!Payload(t, n)
           r == F!Pwrite(vec, s, file[f].offset)
<1>1. ftAt[t] = "transfer" /\ tableOf' = tableOf /\ fds' = fds /\ got' = got /\ ftCalls' = ftCalls
  BY DEF F!Transfer
<1>2. ftAt[t] \in DataPlaces
  BY <1>1 DEF DataPlaces
<1>3. /\ f \in OpenFiles /\ CallOk(c) /\ PlaceOk("transfer", c) /\ FtTypes /\ VecOk(vec, bytes)
      /\ ftCall = [ftCall EXCEPT ![t] = c] /\ file \in [OpenFiles -> Descriptions]
  BY <1>1, <1>2, DataUse
<1>4. n \in Nat /\ c.op \in Transfers /\ c.parts # <<>>
  <2>1. c.op \in Transfers /\ c.parts # <<>>
    BY <1>3 DEF PlaceOk
  <2>2. c.parts \in Seq(Nat)
    BY <1>3, <2>1 DEF CallOk
  <2> QED
    BY <2>1, <2>2
<1>5. file[f].offset \in Nat /\ file[f].refs \in Int
  BY <1>3 DEF Descriptions
<1>6. CASE F!Writes(t) /\ r.ok /\ vec' = r.v /\ bytes' = F!Overwritten(bytes, s, file[f].offset)
           /\ ftCall' = [ftCall EXCEPT ![t].moved = n] /\ ftAt' = [ftAt EXCEPT ![t] = "advance"] /\ file' = file
  <2> DEFINE c2 == [c EXCEPT !.moved = n]
  <2>1. /\ c2.op = c.op /\ c2.fd = c.fd /\ c2.parts = c.parts /\ c2.moved = n
        /\ CallOk(c2) /\ c2.op \in Transfers /\ c2.parts # <<>>
        /\ [ftCall EXCEPT ![t].moved = n] = [ftCall EXCEPT ![t] = c2]
    <3>1. ftAt[t] \in {"transfer", "advance"}
      BY <1>1
    <3> HIDE DEF n
    <3>2. MovedOk(t, n, c2)
      BY <1>4, <3>1, MovedCall
    <3> QED
      BY <3>2 DEF MovedOk
  <2> HIDE DEF c2
  <2>2. PlaceOk("advance", c2)
    <3>1. n <= Head(c2.parts) /\ n = Head(c2.parts)
      BY <1>4, <2>1
    <3> HIDE DEF n
    <3> QED
      BY <2>1, <3>1 DEF PlaceOk
  <2>3. VecOk(r.v, F!Overwritten(bytes, s, file[f].offset))
    <3>1. s \in Seq(Nat)
      BY <1>3, <1>4, PayloadSeq
    <3>2. PageSize \in Nat \ {0}
      BY DEF FtParameters
    <3> HIDE DEF s
    <3> QED
      BY <1>3, <1>5, <1>6, <3>1, <3>2, PwriteExact
  <2> HIDE DEF r, s, n
  <2>4. VecOk(vec', bytes')
    BY <1>6, <2>3
  <2>5. DataStep(t, "advance", c2)
    BY <1>1, <1>2, <1>3, <1>6, <2>1, <2>2, <2>4 DEF DataStep, DataPlaces
  <2> QED
    BY <2>5, StepData
<1>7. CASE file' = [file EXCEPT ![f].depth = 0, ![f].owner = NoFile] /\ ftAt' = [ftAt EXCEPT ![t] = "user"]
           /\ vec' = vec /\ bytes' = bytes /\ ftCall' = ftCall
  <2>1. file' \in [OpenFiles -> Descriptions] /\ \A x \in OpenFiles : file'[x].refs = file[x].refs
    <3> DEFINE m == [file EXCEPT ![f].depth = 0]
               g == file'
    <3>1. m \in [OpenFiles -> Descriptions] /\ \A x \in OpenFiles : m[x].refs = file[x].refs
      BY <1>3 DEF Descriptions
    <3>2. g = [m EXCEPT ![f].owner = NoFile]
      BY <1>7
    <3> HIDE DEF m, g
    <3>3. g \in [OpenFiles -> Descriptions] /\ \A x \in OpenFiles : g[x].refs = m[x].refs
      BY <1>3, <3>1, <3>2 DEF Descriptions
    <3> QED
      BY <3>1, <3>3 DEF g
  <2>2. PlaceOk("user", c)
    BY DEF PlaceOk
  <2>3. DataStep(t, "user", c)
    BY <1>1, <1>2, <1>3, <1>7, <2>1, <2>2 DEF DataStep
  <2> QED
    BY <2>3, StepData
<1>8. CASE ~F!Writes(t) /\ ftCall' = [ftCall EXCEPT ![t].moved = F!PreadCount(vec, n, file[f].offset)]
           /\ ftAt' = [ftAt EXCEPT ![t] = "advance"] /\ file' = file /\ vec' = vec /\ bytes' = bytes
  <2> DEFINE k == F!PreadCount(vec, n, file[f].offset)
             c2 == [c EXCEPT !.moved = k]
  <2>1. k \in Nat /\ k <= n
    <3> HIDE DEF n
    <3> QED
      BY <1>3, <1>4, <1>5, ReadCount
  <2>2. ftCall' = [ftCall EXCEPT ![t].moved = k]
    BY <1>8
  <2> HIDE DEF k
  <2>3. /\ c2.op = c.op /\ c2.fd = c.fd /\ c2.parts = c.parts /\ c2.moved = k
        /\ CallOk(c2) /\ c2.op \in Transfers /\ c2.parts # <<>>
        /\ [ftCall EXCEPT ![t].moved = k] = [ftCall EXCEPT ![t] = c2]
    <3>1. ftAt[t] \in {"transfer", "advance"}
      BY <1>1
    <3>2. MovedOk(t, k, c2)
      BY <2>1, <3>1, MovedCall
    <3> QED
      BY <3>2 DEF MovedOk
  <2> HIDE DEF c2
  <2>4. PlaceOk("advance", c2)
    <3>1. k <= Head(c2.parts) /\ c2.op \notin {"write", "writev"}
      BY <1>8, <2>1, <2>3 DEF F!Writes
    <3> QED
      BY <2>3, <3>1 DEF PlaceOk
  <2>5. DataStep(t, "advance", c2)
    BY <1>1, <1>2, <1>3, <1>8, <2>2, <2>3, <2>4 DEF DataStep, DataPlaces
  <2> QED
    BY <2>5, StepData
<1> QED
  BY <1>6, <1>7, <1>8 DEF F!Transfer, F!FtGoto, F!FtReturn

(* What a vector has left after a part.                                    *)
LEMMA PartsLeft ==
  ASSUME NEW p \in Seq(Nat), p # <<>>, NEW n \in Nat, n <= Head(p)
  PROVE  (IF Head(p) - n = 0 \/ n = 0 THEN Tail(p) ELSE <<Head(p) - n>> \o Tail(p)) \in Seq(Nat)
<1>1. Head(p) \in Nat /\ Tail(p) \in Seq(Nat)
  OBVIOUS
<1>2. Head(p) - n \in Nat
  BY <1>1
<1> DEFINE x == Head(p) - n
           y == Tail(p)
<1>3. <<x>> \in Seq(Nat)
  BY <1>2
<1> HIDE DEF x, y
<1>4. <<x>> \o y \in Seq(Nat)
  BY <1>1, <1>3 DEF y
<1> QED
  BY <1>1, <1>4 DEF x, y

(* The offset advances.                                                    *)
LEMMA StepAdvance ==
  ASSUME FtParameters, FtInv, NEW t \in F!FtTasks, F!Advance(t)
  PROVE  FtInv'
<1> DEFINE c == ftCall[t]
           f == got[t]
           n == c.moved
           left == Head(c.parts) - n
           p2 == IF left = 0 \/ n = 0 THEN Tail(c.parts) ELSE <<left>> \o Tail(c.parts)
           c2 == [c EXCEPT !.parts = p2]
           a2 == IF F!Vectored(t) THEN "part" ELSE "user"
           u == F!Unlocked(f)
           g == file'
<1>1. /\ ftAt[t] = "advance" /\ tableOf' = tableOf /\ fds' = fds /\ got' = got /\ ftCalls' = ftCalls
      /\ vec' = vec /\ bytes' = bytes /\ ftAt' = [ftAt EXCEPT ![t] = a2]
  BY DEF F!Advance, F!FtGoto
<1>2. ftCall' = [ftCall EXCEPT ![t].parts = p2]
  BY DEF F!Advance
<1>3. g = [u EXCEPT ![f].offset = u[f].offset + n]
  BY DEF F!Advance
<1>4. ftAt[t] \in DataPlaces
  BY <1>1 DEF DataPlaces
<1>5. /\ f \in OpenFiles /\ CallOk(c) /\ PlaceOk("advance", c) /\ FtTypes /\ VecOk(vec, bytes)
      /\ ftCall = [ftCall EXCEPT ![t] = c] /\ file \in [OpenFiles -> Descriptions]
  BY <1>1, <1>4, DataUse
<1>6. c.op \in Transfers /\ c.parts # <<>> /\ n <= Head(c.parts)
  BY <1>5 DEF PlaceOk
<1>7. c \in [op : Transfers, fd : F!Fds, parts : Seq(Nat), moved : Nat]
  BY <1>5, <1>6 DEF CallOk
<1>8. p2 \in Seq(Nat)
  <2>1. c.parts \in Seq(Nat) /\ n \in Nat
    BY <1>7
  <2> QED
    BY <1>6, <2>1, PartsLeft, Zenon
<1>9. ftCall' = [ftCall EXCEPT ![t] = c2]
  BY <1>2
<1> HIDE DEF p2
<1>10. /\ c2 \in [op : Transfers, fd : F!Fds, parts : Seq(Nat), moved : Nat]
       /\ c2.op = c.op /\ c2.fd = c.fd /\ c2.parts = p2
  BY <1>7, <1>8
<1> HIDE DEF c2
<1>11. CallOk(c2)
  BY <1>6, <1>10 DEF CallOk, Transfers, Seeks
<1>12. PlaceOk(a2, c2) /\ a2 \in DataPlaces \cup {"user"}
  <2>1. CASE F!Vectored(t)
    BY <1>10, <2>1 DEF PlaceOk, F!Vectored, DataPlaces
  <2>2. CASE ~F!Vectored(t)
    BY <2>2 DEF PlaceOk
  <2> QED
    BY <2>1, <2>2
<1>13. g \in [OpenFiles -> Descriptions] /\ \A x \in OpenFiles : g[x].refs = file[x].refs
  <2>1. /\ u \in [OpenFiles -> Descriptions] /\ \A x \in OpenFiles : x # f => u[x] = file[x]
        /\ u[f].refs = file[f].refs
    BY <1>5, UnlockedFile
  <2>2. n \in Nat
    BY <1>7
  <2> HIDE DEF u, n, g
  <2>3. u[f].offset + n \in Nat
    BY <1>5, <2>1, <2>2 DEF Descriptions
  <2>4. g \in [OpenFiles -> Descriptions] /\ \A x \in OpenFiles : g[x].refs = u[x].refs
    BY <1>3, <1>5, <2>1, <2>3 DEF Descriptions
  <2> QED
    BY <1>5, <2>1, <2>4
<1> HIDE DEF a2, g
<1>14. DataStep(t, a2, c2)
  BY <1>1, <1>4, <1>5, <1>9, <1>10, <1>11, <1>12, <1>13 DEF DataStep, g
<1> QED
  BY <1>14, StepData

(* pwrite                                                                  *)
LEMMA StepPwriteAt ==
  ASSUME FtParameters, FtInv, NEW t \in F!FtTasks, F!PwriteAt(t)
  PROVE  FtInv'
<1> DEFINE c == ftCall[t]
           s == F!Payload(t, c.count)
           r == F!Pwrite(vec, s, c.offset)
<1>1. /\ ftAt[t] = "pwrite" /\ tableOf' = tableOf /\ fds' = fds /\ got' = got /\ ftCalls' = ftCalls
      /\ file' = file /\ ftCall' = ftCall /\ ftAt' = [ftAt EXCEPT ![t] = "user"]
      /\ vec' = r.v /\ bytes' = IF r.ok THEN F!Overwritten(bytes, s, c.offset) ELSE bytes
  BY DEF F!PwriteAt, F!FtReturn, F!FtGoto
<1>2. ftAt[t] \in DataPlaces
  BY <1>1 DEF DataPlaces
<1>3. /\ CallOk(c) /\ PlaceOk("pwrite", c) /\ FtTypes /\ VecOk(vec, bytes)
      /\ ftCall = [ftCall EXCEPT ![t] = c] /\ file \in [OpenFiles -> Descriptions]
  BY <1>1, <1>2, DataUse
<1>4. c.offset \in Nat /\ c.count \in Nat
  BY <1>3 DEF PlaceOk, CallOk
<1>5. s \in Seq(Nat)
  BY <1>3, <1>4, PayloadSeq
<1>6. PageSize \in Nat \ {0}
  BY DEF FtParameters
<1> HIDE DEF s
<1>7. r.ok \in BOOLEAN /\ (r.ok => VecOk(r.v, F!Overwritten(bytes, s, c.offset))) /\ (~r.ok => r.v = vec)
  BY <1>3, <1>4, <1>5, <1>6, PwriteExact
<1> HIDE DEF r
<1>8. VecOk(vec', bytes')
  BY <1>1, <1>3, <1>7
<1>9. PlaceOk("user", c)
  BY DEF PlaceOk
<1>10. DataStep(t, "user", c)
  BY <1>1, <1>2, <1>3, <1>8, <1>9 DEF DataStep
<1> QED
  BY <1>10, StepData

(* ftruncate                                                               *)
LEMMA StepFtruncate ==
  ASSUME FtParameters, FtInv, NEW t \in F!FtTasks, F!Ftruncate(t)
  PROVE  FtInv'
<1> DEFINE c == ftCall[t]
           n == c.length
           r == F!Resize(vec, n)
<1>1. /\ ftAt[t] = "ftruncate" /\ tableOf' = tableOf /\ fds' = fds /\ got' = got /\ ftCalls' = ftCalls
      /\ file' = file /\ ftCall' = ftCall /\ ftAt' = [ftAt EXCEPT ![t] = "user"]
      /\ vec' = r.v /\ bytes' = IF r.ok THEN SubSeq(F!Padded(bytes, n), 1, n) ELSE bytes
  BY DEF F!Ftruncate, F!FtReturn, F!FtGoto
<1>2. ftAt[t] \in DataPlaces
  BY <1>1 DEF DataPlaces
<1>3. /\ CallOk(c) /\ PlaceOk("ftruncate", c) /\ FtTypes /\ VecOk(vec, bytes)
      /\ ftCall = [ftCall EXCEPT ![t] = c] /\ file \in [OpenFiles -> Descriptions]
  BY <1>1, <1>2, DataUse
<1>4. n \in Nat
  BY <1>3 DEF PlaceOk, CallOk
<1>5. PageSize \in Nat \ {0}
  BY DEF FtParameters
<1> HIDE DEF n
<1>6. (r.ok => VecOk(r.v, SubSeq(F!Padded(bytes, n), 1, n))) /\ (~r.ok => r.v = vec)
  BY <1>3, <1>4, <1>5, ResizeExact
<1> HIDE DEF r
<1>7. VecOk(vec', bytes')
  BY <1>1, <1>3, <1>6
<1>8. PlaceOk("user", c)
  BY DEF PlaceOk
<1>9. DataStep(t, "user", c)
  BY <1>1, <1>2, <1>3, <1>7, <1>8 DEF DataStep
<1> QED
  BY <1>9, StepData

(* The size for SEEK_END.                                                  *)
LEMMA StepSeekStat ==
  ASSUME FtParameters, FtInv, NEW t \in F!FtTasks, F!SeekStat(t)
  PROVE  FtInv'
<1> DEFINE c == ftCall[t]
           to == c.offset + vec.size
           c2 == [c EXCEPT !.offset = to]
<1>1. /\ ftAt[t] = "stat" /\ tableOf' = tableOf /\ fds' = fds /\ got' = got /\ ftCalls' = ftCalls
      /\ file' = file /\ vec' = vec /\ bytes' = bytes /\ ftAt' = [ftAt EXCEPT ![t] = "lock"]
      /\ ftCall' = [ftCall EXCEPT ![t].offset = to]
  BY DEF F!SeekStat, F!FtGoto
<1>2. ftAt[t] \in DataPlaces
  BY <1>1 DEF DataPlaces
<1>3. /\ CallOk(c) /\ PlaceOk("stat", c) /\ FtTypes /\ VecOk(vec, bytes)
      /\ file \in [OpenFiles -> Descriptions]
  BY <1>1, <1>2, DataUse
<1>4. c.op = "lseek_end"
  BY <1>3 DEF PlaceOk
<1>5. c \in [op : Seeks, fd : F!Fds, offset : Int, count : Nat]
  BY <1>3, <1>4 DEF CallOk, Seeks
<1>6. to \in Int
  BY <1>3, <1>5 DEF VecOk
<1>7. ftCall' = [ftCall EXCEPT ![t] = c2]
  BY <1>1
<1> HIDE DEF to
<1>8. c2 \in [op : Seeks, fd : F!Fds, offset : Int, count : Nat] /\ c2.op = c.op /\ c2.fd = c.fd
  BY <1>5, <1>6
<1> HIDE DEF c2
<1>9. CallOk(c2) /\ PlaceOk("lock", c2)
  BY <1>4, <1>8 DEF CallOk, PlaceOk, Transfers, Seeks
<1>10. DataStep(t, "lock", c2)
  BY <1>1, <1>2, <1>3, <1>7, <1>8, <1>9 DEF DataStep, DataPlaces
<1> QED
  BY <1>10, StepData

(* lseek                                                                   *)
LEMMA StepSeek ==
  ASSUME FtParameters, FtInv, NEW t \in F!FtTasks, F!Seek(t)
  PROVE  FtInv'
<1> DEFINE c == ftCall[t]
           f == got[t]
           to == c.offset + IF c.op = "lseek_cur" THEN file[f].offset ELSE 0
           u == F!Unlocked(f)
           g == file'
<1>1. /\ ftAt[t] = "seek" /\ tableOf' = tableOf /\ fds' = fds /\ got' = got /\ ftCalls' = ftCalls
      /\ ftCall' = ftCall /\ vec' = vec /\ bytes' = bytes /\ ftAt' = [ftAt EXCEPT ![t] = "user"]
  BY DEF F!Seek, F!FtReturn, F!FtGoto
<1>2. g = u \/ (to >= 0 /\ g = [u EXCEPT ![f].offset = to])
  BY DEF F!Seek
<1>3. ftAt[t] \in DataPlaces
  BY <1>1 DEF DataPlaces
<1>4. /\ f \in OpenFiles /\ CallOk(c) /\ PlaceOk("seek", c) /\ FtTypes /\ VecOk(vec, bytes)
      /\ ftCall = [ftCall EXCEPT ![t] = c] /\ file \in [OpenFiles -> Descriptions]
  BY <1>1, <1>3, DataUse
<1>5. to \in Int
  <2>1. c.op \in Seeks
    BY <1>4 DEF PlaceOk
  <2>2. c.offset \in Int
    BY <1>4, <2>1 DEF CallOk
  <2>3. file[f].offset \in Nat
    BY <1>4 DEF Descriptions
  <2> QED
    BY <2>2, <2>3
<1>6. g \in [OpenFiles -> Descriptions] /\ \A x \in OpenFiles : g[x].refs = file[x].refs
  <2>1. /\ u \in [OpenFiles -> Descriptions] /\ \A x \in OpenFiles : x # f => u[x] = file[x]
        /\ u[f].refs = file[f].refs
    BY <1>4, UnlockedFile
  <2> HIDE DEF u, to, g
  <2>2. CASE g = u
    BY <1>4, <2>1, <2>2
  <2>3. CASE to >= 0 /\ g = [u EXCEPT ![f].offset = to]
    <3>1. to \in Nat
      BY <1>5, <2>3
    <3>2. g \in [OpenFiles -> Descriptions] /\ \A x \in OpenFiles : g[x].refs = u[x].refs
      BY <1>4, <2>1, <2>3, <3>1 DEF Descriptions
    <3> QED
      BY <1>4, <2>1, <3>2
  <2> QED
    BY <1>2, <2>2, <2>3
<1>7. PlaceOk("user", c)
  BY DEF PlaceOk
<1> HIDE DEF g
<1>8. DataStep(t, "user", c)
  BY <1>1, <1>3, <1>4, <1>6, <1>7 DEF DataStep, g
<1> QED
  BY <1>8, StepData

(* A call begins, where no call on the same table is in its way.           *)
LEMMA StepFileCall ==
  ASSUME FtParameters, FtInv, NEW t \in F!FtTasks, F!FileCall(t)
  PROVE  FtInv'
<1>1. /\ ftAt[t] = "user" /\ ftCalls[t] < Len(FileCalls[t])
      /\ ftCalls' = [ftCalls EXCEPT ![t] = ftCalls[t] + 1]
      /\ tableOf' = tableOf /\ fds' = fds /\ file' = file /\ vec' = vec /\ bytes' = bytes
  BY DEF F!FileCall
<1>2. PICK c \in FileCalls[t][ftCalls[t] + 1] :
        /\ F!Apart(t, c) /\ ftCall' = [ftCall EXCEPT ![t] = c] /\ got' = [got EXCEPT ![t] = NoFile]
        /\ ftAt' = [ftAt EXCEPT ![t] = IF c.op \in {"open", "clone", "exit"} THEN "begin" ELSE "get"]
  BY DEF F!FileCall, F!FtGoto
<1> DEFINE a2 == IF c.op \in {"open", "clone", "exit"} THEN "begin" ELSE "get"
<1>3. FtTypes /\ FtTables /\ FtCallsOk /\ FtApart /\ FtCounted /\ VecOk(vec, bytes)
  BY DEF FtInv
<1>4. c.op \in FileOps /\ CallOk(c) /\ (c.op \in {"read", "write"} => c.parts # <<>>)
  <2>1. ftCalls[t] \in Nat
    BY <1>3 DEF FtTypes
  <2>2. ftCalls[t] + 1 \in 1..Len(FileCalls[t])
    BY <1>1, <2>1
  <2> QED
    BY <1>2, <2>2 DEF FtParameters
<1>5. PlaceOk(a2, c) /\ a2 \in {"begin", "get"}
  BY <1>4 DEF PlaceOk, FileOps
<1>6. \A x : UseOk(a2, c, NoFile, x) /\ \A f : Owed(a2, c, NoFile, x, f) = 0
  BY <1>5 DEF UseOk, InUse, Owed
<1>7. ftAt' = [ftAt EXCEPT ![t] = a2]
  BY <1>2
<1> HIDE DEF a2
<1>8. /\ ftAt'[t] = a2 /\ ftCall'[t] = c /\ got'[t] = NoFile
      /\ \A u \in F!FtTasks : u # t => ftAt'[u] = ftAt[u] /\ ftCall'[u] = ftCall[u] /\ got'[u] = got[u]
  BY <1>2, <1>3, <1>7 DEF FtTypes
<1>9. FtTypes'
  <2>1. ftAt' \in [F!FtTasks -> Places] /\ got' \in [F!FtTasks -> OpenFiles \cup {NoFile}]
    <3>1. a2 \in Places
      BY <1>5 DEF Places
    <3> QED
      BY <1>2, <1>3, <1>7, <3>1 DEF FtTypes
  <2>2. ftCalls' \in [F!FtTasks -> Nat]
    BY <1>1, <1>3 DEF FtTypes
  <2>3. ftCall' = [u \in F!FtTasks |-> ftCall'[u]]
    BY <1>2, <1>3 DEF FtTypes
  <2> QED
    BY <1>1, <1>3, <2>1, <2>2, <2>3 DEF FtTypes
<1>10. FtTables'
  <2>1. ftAt'[FirstTask] # "absent" /\ (ftAt'[SecondTask] = "absent" <=> ftAt[SecondTask] = "absent")
    BY <1>1, <1>3, <1>5, <1>8 DEF FtTables, F!FtTasks
  <2> QED
    BY <1>1, <1>3, <2>1 DEF FtTables
<1>11. FtCallsOk'
  <2> SUFFICES ASSUME NEW u \in F!FtTasks
               PROVE  /\ CallOk(ftCall'[u]) /\ PlaceOk(ftAt'[u], ftCall'[u])
                      /\ UseOk(ftAt'[u], ftCall'[u], got'[u], F!Table(u))
    BY <1>1 DEF FtCallsOk, F!Table
  <2>1. CASE u = t
    BY <1>4, <1>5, <1>6, <1>8, <2>1
  <2>2. CASE u # t
    BY <1>3, <1>8, <2>2 DEF FtCallsOk
  <2> QED
    BY <2>1, <2>2
<1>12. FtApart'
  <2> SUFFICES ASSUME NEW x \in F!FtTasks, NEW y \in F!FtTasks, x # y, tableOf[x] = tableOf[y],
                      Busy(ftAt'[x]), Busy(ftAt'[y])
               PROVE  ~F!Changes(ftCall'[x])
    BY <1>1 DEF FtApart, F!Changes
  <2>1. CASE x = t
    <3>1. ftAt[y] \notin {"user", "exited"}
      BY <1>8, <2>1 DEF Busy
    <3> QED
      BY <1>2, <1>8, <2>1, <3>1 DEF F!Apart
  <2>2. CASE y = t
    <3>1. ftAt[x] \notin {"user", "exited"}
      BY <1>8, <2>2 DEF Busy
    <3> QED
      BY <1>2, <1>8, <2>2, <3>1 DEF F!Apart
  <2>3. CASE x # t /\ y # t
    BY <1>3, <1>8, <2>3 DEF FtApart
  <2> QED
    BY <2>1, <2>2, <2>3
<1>13. FtCounted'
  <2> SUFFICES ASSUME NEW f \in OpenFiles
               PROVE  file[f].refs = F!NamedBy(f)
                        - (Owed(ftAt'[FirstTask], ftCall'[FirstTask], got'[FirstTask], F!Table(FirstTask), f)
                           + Owed(ftAt'[SecondTask], ftCall'[SecondTask], got'[SecondTask], F!Table(SecondTask), f))
    BY <1>1 DEF FtCounted, F!NamedBy, OwedBy, F!Table, F!Named
  <2>1. ASSUME NEW u \in F!FtTasks
        PROVE  Owed(ftAt'[u], ftCall'[u], got'[u], F!Table(u), f) = OwedBy(u, f)
    <3>1. CASE u = t
      <4>1. OwedBy(u, f) = 0
        BY <1>1, <3>1 DEF OwedBy, Owed
      <4> QED
        BY <1>6, <1>8, <3>1, <4>1
    <3>2. CASE u # t
      BY <1>8, <3>2 DEF OwedBy
    <3> QED
      BY <3>1, <3>2
  <2>2. FirstTask \in F!FtTasks /\ SecondTask \in F!FtTasks
    BY DEF F!FtTasks
  <2>3. file[f].refs = F!NamedBy(f) - (OwedBy(FirstTask, f) + OwedBy(SecondTask, f))
    BY <1>3 DEF FtCounted
  <2> QED
    BY <2>1, <2>2, <2>3
<1>14. VecOk(vec', bytes')
  BY <1>1, <1>3
<1> QED
  BY <1>9, <1>10, <1>11, <1>12, <1>13, <1>14 DEF FtInv

(* clone: the second task shares the table, or has a copy of it whose      *)
(* descriptors count.                                                      *)
LEMMA StepClone ==
  ASSUME FtParameters, FtInv, NEW t \in F!FtTasks, F!Clone(t)
  PROVE  FtInv'
<1>1. /\ ftAt[t] = "begin" /\ ftCall[t].op = "clone" /\ ftAt[SecondTask] = "absent"
      /\ ftAt' = [ftAt EXCEPT ![t] = "user", ![SecondTask] = "user"]
      /\ vec' = vec /\ ftCall' = ftCall /\ got' = got /\ ftCalls' = ftCalls /\ bytes' = bytes
  BY DEF F!Clone
<1>2. FtTypes /\ FtTables /\ FtCallsOk /\ FtApart /\ FtCounted /\ VecOk(vec, bytes)
  BY DEF FtInv
<1>3. FirstTask \in F!FtTasks /\ SecondTask \in F!FtTasks /\ FirstTask # SecondTask
      /\ \A u \in F!FtTasks : u = FirstTask \/ u = SecondTask
  BY DEF F!FtTasks, FtParameters
<1>4. t = FirstTask /\ tableOf[t] = FirstTask
  BY <1>1, <1>2, <1>3 DEF FtTables
<1>5. ftAt'[FirstTask] = "user" /\ ftAt'[SecondTask] = "user" /\ ftAt' \in [F!FtTasks -> Places]
  <2>1. "user" \in Places
    BY DEF Places
  <2> QED
    BY <1>1, <1>2, <1>3, <1>4, <2>1 DEF FtTypes
<1>6. F!Table(t) = fds[FirstTask] /\ fds[FirstTask] \in Descriptors
  BY <1>2, <1>3, <1>4 DEF F!Table, FtTypes
<1>7. \A f : OwedBy(FirstTask, f) = 0 /\ OwedBy(SecondTask, f) = 0
  BY <1>1, <1>4 DEF OwedBy, Owed
<1>8. \A f \in OpenFiles : F!Named(fds[SecondTask], f) = 0
  <2> SUFFICES ASSUME NEW f \in OpenFiles PROVE F!Named(fds[SecondTask], f) = 0
    OBVIOUS
  <2> DEFINE tab == fds[SecondTask]
  <2>1. tab = [d \in F!Fds |-> NoFile]
    BY <1>1, <1>2 DEF FtTables
  <2>2. {d \in F!Fds : tab[d] = f} = {}
    BY <2>1 DEF FtParameters
  <2>3. F!Named(tab, f) = Cardinality({d \in F!Fds : tab[d] = f})
    BY NamedCount, Zenon
  <2> QED
    BY <2>2, <2>3, FS_EmptySet, Zenon
<1>9. \A f \in OpenFiles : file[f].refs = F!Named(fds[FirstTask], f)
  <2> SUFFICES ASSUME NEW f \in OpenFiles PROVE file[f].refs = F!Named(fds[FirstTask], f)
    OBVIOUS
  <2>1. file[f].refs = (F!Named(fds[FirstTask], f) + F!Named(fds[SecondTask], f)) - (0 + 0)
    BY <1>2, <1>7 DEF FtCounted, F!NamedBy
  <2>2. F!Named(fds[FirstTask], f) \in Nat
    BY NamedCount
  <2> QED
    BY <1>8, <2>1, <2>2
<1>10. FtCallsOk'
  <2>1. \A u \in F!FtTasks : CallOk(ftCall[u])
    BY <1>2 DEF FtCallsOk
  <2>2. \A c, g, tab : PlaceOk("user", c) /\ UseOk("user", c, g, tab)
    BY DEF PlaceOk, UseOk, InUse
  <2>3. \A u \in F!FtTasks : ftAt'[u] = "user"
    BY <1>3, <1>5
  <2> QED
    BY <1>1, <2>1, <2>2, <2>3 DEF FtCallsOk
<1>11. FtApart'
  <2>1. \A u \in F!FtTasks : ~Busy(ftAt'[u])
    BY <1>3, <1>5 DEF Busy
  <2> QED
    BY <2>1 DEF FtApart
<1>12. ASSUME NEW f PROVE /\ Owed(ftAt'[FirstTask], ftCall'[FirstTask], got'[FirstTask], F!Table(FirstTask)', f) = 0
                          /\ Owed(ftAt'[SecondTask], ftCall'[SecondTask], got'[SecondTask], F!Table(SecondTask)', f) = 0
  BY <1>5 DEF Owed
<1>13. ASSUME fds' \in [F!FtTasks -> Descriptors], file' \in [OpenFiles -> Descriptions],
              NEW s \in F!FtTasks, tableOf' = [tableOf EXCEPT ![SecondTask] = s],
              \A f \in OpenFiles : file'[f].refs = F!Named(fds'[FirstTask], f) + F!Named(fds'[SecondTask], f)
       PROVE  FtInv'
  <2>1. tableOf' \in [F!FtTasks -> F!FtTasks \cup {NoFile}] /\ tableOf'[SecondTask] = s
        /\ tableOf'[FirstTask] = FirstTask
    BY <1>2, <1>3, <1>13 DEF FtTypes, FtTables
  <2>2. FtTypes'
    BY <1>1, <1>2, <1>5, <1>13, <2>1 DEF FtTypes
  <2>3. s # NoFile
    BY <1>13 DEF FtParameters, F!FtTasks
  <2>4. FtTables'
    BY <1>5, <2>1, <2>3 DEF FtTables
  <2>5. FtCounted'
    <3> SUFFICES ASSUME NEW f \in OpenFiles
                 PROVE  file'[f].refs = (F!Named(fds'[FirstTask], f) + F!Named(fds'[SecondTask], f))
                          - (Owed(ftAt'[FirstTask], ftCall'[FirstTask], got'[FirstTask], F!Table(FirstTask)', f)
                             + Owed(ftAt'[SecondTask], ftCall'[SecondTask], got'[SecondTask], F!Table(SecondTask)', f))
      BY DEF FtCounted, F!NamedBy, OwedBy, F!Named
    <3> DEFINE x == F!Named(fds'[FirstTask], f)
               y == F!Named(fds'[SecondTask], f)
    <3>1. x \in Nat /\ y \in Nat
      BY NamedCount
    <3>2. file'[f].refs = x + y
      BY <1>13
    <3> HIDE DEF x, y
    <3>3. file'[f].refs = (x + y) - (0 + 0)
      BY <3>1, <3>2
    <3> QED
      BY <1>12, <3>3 DEF x, y
  <2>6. VecOk(vec', bytes')
    BY <1>1, <1>2
  <2> QED
    BY <1>10, <1>11, <2>2, <2>4, <2>5, <2>6 DEF FtInv
<1>14. CASE tableOf' = [tableOf EXCEPT ![SecondTask] = FirstTask] /\ fds' = fds /\ file' = file
  <2>1. fds' \in [F!FtTasks -> Descriptors] /\ file' \in [OpenFiles -> Descriptions]
    BY <1>2, <1>14 DEF FtTypes
  <2>2. \A f \in OpenFiles : file'[f].refs = F!Named(fds'[FirstTask], f) + F!Named(fds'[SecondTask], f)
    <3> SUFFICES ASSUME NEW f \in OpenFiles
                 PROVE  file[f].refs = F!Named(fds[FirstTask], f) + F!Named(fds[SecondTask], f)
      BY <1>14
    <3>1. F!Named(fds[FirstTask], f) \in Nat
      BY NamedCount
    <3> QED
      BY <1>8, <1>9, <3>1
  <2> QED
    BY <1>3, <1>13, <1>14, <2>1, <2>2
<1>15. CASE /\ tableOf' = [tableOf EXCEPT ![SecondTask] = SecondTask]
            /\ fds' = [fds EXCEPT ![SecondTask] = fds[FirstTask]]
            /\ file' = [f \in OpenFiles |-> [file[f] EXCEPT !.refs = @ + F!Named(fds[FirstTask], f)]]
  <2>1. /\ fds' \in [F!FtTasks -> Descriptors] /\ fds'[FirstTask] = fds[FirstTask]
        /\ fds'[SecondTask] = fds[FirstTask]
    BY <1>2, <1>3, <1>6, <1>15 DEF FtTypes
  <2>2. ASSUME NEW f \in OpenFiles
        PROVE  /\ file'[f] \in Descriptions
               /\ file'[f].refs = F!Named(fds[FirstTask], f) + F!Named(fds[FirstTask], f)
    <3> DEFINE n == F!Named(fds[FirstTask], f)
    <3>1. n \in Nat /\ file[f].refs = n /\ file[f] \in Descriptions
      BY <1>2, <1>9, NamedCount DEF FtTypes
    <3>2. file'[f] = [file[f] EXCEPT !.refs = file[f].refs + n]
      BY <1>15
    <3> HIDE DEF n
    <3>3. file'[f] \in Descriptions /\ file'[f].refs = n + n
      BY <3>1, <3>2 DEF Descriptions
    <3> QED
      BY <3>3 DEF n
  <2>3. file' \in [OpenFiles -> Descriptions]
    BY <1>15, <2>2
  <2>4. \A f \in OpenFiles : file'[f].refs = F!Named(fds'[FirstTask], f) + F!Named(fds'[SecondTask], f)
    BY <2>1, <2>2
  <2> QED
    BY <1>3, <1>13, <1>15, <2>1, <2>3, <2>4
<1> QED
  BY <1>4, <1>6, <1>14, <1>15 DEF F!Clone

(* The invariant holds at first.                                           *)
LEMMA InitFtInv == FtParameters /\ F!Init => FtInv
<1> SUFFICES ASSUME FtParameters, F!Init PROVE FtInv
  OBVIOUS
<1> USE DEF F!Init
<1> DEFINE none == [d \in F!Fds |-> NoFile]
<1>1. FirstTask \in F!FtTasks /\ SecondTask \in F!FtTasks /\ FirstTask # SecondTask
      /\ \A u \in F!FtTasks : u = FirstTask \/ u = SecondTask
  BY DEF F!FtTasks, FtParameters
<1>2. /\ ftAt[FirstTask] = "user" /\ ftAt[SecondTask] = "absent" /\ tableOf[FirstTask] = FirstTask
      /\ tableOf[SecondTask] = NoFile /\ fds[FirstTask] = none /\ fds[SecondTask] = none
  BY <1>1
<1>3. none \in Descriptors /\ F!Closed \in Descriptions /\ F!Closed.refs = 0
  BY DEF Descriptors, Descriptions, F!Closed
<1>4. FtTypes
  <2>1. fds \in [F!FtTasks -> Descriptors] /\ file \in [OpenFiles -> Descriptions]
    BY <1>3
  <2>2. /\ tableOf \in [F!FtTasks -> F!FtTasks \cup {NoFile}] /\ ftAt \in [F!FtTasks -> Places]
        /\ got \in [F!FtTasks -> OpenFiles \cup {NoFile}] /\ ftCalls \in [F!FtTasks -> Nat]
    BY <1>1 DEF Places
  <2>3. ftCall = [u \in F!FtTasks |-> ftCall[u]]
    OBVIOUS
  <2> QED
    BY <2>1, <2>2, <2>3 DEF FtTypes
<1>5. FtTables
  BY <1>2 DEF FtTables
<1>6. FtCallsOk
  <2> SUFFICES ASSUME NEW t \in F!FtTasks
               PROVE  /\ CallOk(ftCall[t]) /\ PlaceOk(ftAt[t], ftCall[t])
                      /\ UseOk(ftAt[t], ftCall[t], got[t], F!Table(t))
    BY DEF FtCallsOk
  <2>1. ftCall[t].op = "none" /\ ftAt[t] \in {"user", "absent"}
    BY <1>1, <1>2
  <2> QED
    BY <2>1 DEF CallOk, PlaceOk, UseOk, InUse, Transfers, Seeks
<1>7. FtApart
  BY <1>1, <1>2 DEF FtApart, Busy
<1>8. FtCounted
  <2> SUFFICES ASSUME NEW f \in OpenFiles
               PROVE  file[f].refs = F!NamedBy(f) - (OwedBy(FirstTask, f) + OwedBy(SecondTask, f))
    BY DEF FtCounted
  <2>1. {d \in F!Fds : none[d] = f} = {}
    BY DEF FtParameters
  <2>2. F!Named(none, f) = Cardinality({d \in F!Fds : none[d] = f})
    BY NamedCount, Zenon
  <2>3. F!Named(none, f) = 0
    BY <2>1, <2>2, FS_EmptySet, Zenon
  <2>4. OwedBy(FirstTask, f) = 0 /\ OwedBy(SecondTask, f) = 0
    BY <1>2 DEF OwedBy, Owed
  <2>5. file[f].refs = 0
    BY <1>3
  <2> QED
    BY <1>2, <2>3, <2>4, <2>5 DEF F!NamedBy
<1>9. VecOk(vec, bytes)
  BY DEF VecOk
<1> QED
  BY <1>4, <1>5, <1>6, <1>7, <1>8, <1>9 DEF FtInv

(* And every step keeps it.                                                *)
LEMMA NextFtInv == FtParameters /\ FtInv /\ [F!Next]_(F!ftVars) => FtInv'
<1> SUFFICES ASSUME FtParameters, FtInv, [F!Next]_(F!ftVars) PROVE FtInv'
  OBVIOUS
<1>1. ASSUME UNCHANGED F!ftVars PROVE FtInv'
  BY <1>1 DEF F!ftVars, FtInv, FtTypes, FtTables, FtCallsOk, FtApart, FtCounted, F!NamedBy, OwedBy, F!Table,
              F!Named, F!Changes
<1>2. ASSUME NEW t \in F!FtTasks, F!FileCall(t) \/ F!FileStep(t) PROVE FtInv'
  <2>1. CASE F!FileCall(t)
    BY <2>1, StepFileCall
  <2>2. CASE F!FileStep(t)
    <3>1. CASE F!SysOpen(t)
      BY <3>1, StepSysOpen
    <3>2. CASE F!GetFile(t)
      BY <3>2, StepGetFile
    <3>3. CASE F!CloseDrop(t)
      BY <3>3, StepCloseDrop
    <3>4. CASE F!CloseFree(t)
      BY <3>4, StepCloseFree
    <3>5. CASE F!Dup(t)
      BY <3>5, StepDup
    <3>6. CASE F!DupRef(t)
      BY <3>6, StepDupRef
    <3>7. CASE F!Dup3(t)
      BY <3>7, StepDup3
    <3>8. CASE F!Clone(t)
      BY <3>8, StepClone
    <3>9. CASE F!Exit(t)
      BY <3>9, StepExit
    <3>10. CASE F!LockOffset(t)
      BY <3>10, StepLockOffset
    <3>11. CASE F!Part(t)
      BY <3>11, StepPart
    <3>12. CASE F!Transfer(t)
      BY <3>12, StepTransfer
    <3>13. CASE F!Advance(t)
      BY <3>13, StepAdvance
    <3>14. CASE F!PwriteAt(t)
      BY <3>14, StepPwriteAt
    <3>15. CASE F!Ftruncate(t)
      BY <3>15, StepFtruncate
    <3>16. CASE F!SeekStat(t)
      BY <3>16, StepSeekStat
    <3>17. CASE F!Seek(t)
      BY <3>17, StepSeek
    <3> QED
      BY <2>2, <3>1, <3>2, <3>3, <3>4, <3>5, <3>6, <3>7, <3>8, <3>9, <3>10, <3>11, <3>12, <3>13, <3>14,
         <3>15, <3>16, <3>17 DEF F!FileStep
  <2> QED
    BY <1>2, <2>1, <2>2
<1> QED
  BY <1>1, <1>2 DEF F!Next

(* One or none of two tasks.                                               *)
LEMMA CountTwo ==
  ASSUME FtParameters, NEW P, P \subseteq F!FtTasks
  PROVE  F!Cardinality(P) = (IF FirstTask \in P THEN 1 ELSE 0) + (IF SecondTask \in P THEN 1 ELSE 0)
<1>1. F!Cardinality(P) = Cardinality(P)
  BY DEF F!Cardinality, Cardinality, F!IsFiniteSet, IsFiniteSet
<1>2. FirstTask # SecondTask /\ P \subseteq {FirstTask, SecondTask}
  BY DEF FtParameters, F!FtTasks
<1>3. CASE FirstTask \in P /\ SecondTask \in P
  <2>1. P = {FirstTask, SecondTask}
    BY <1>2, <1>3
  <2>2. Cardinality({FirstTask}) = 1 /\ IsFiniteSet({FirstTask})
    BY FS_Singleton
  <2>3. Cardinality({FirstTask} \cup {SecondTask}) = 1 + 1
    BY <1>2, <2>2, FS_AddElement
  <2>4. P = {FirstTask} \cup {SecondTask}
    BY <2>1
  <2> QED
    BY <1>1, <1>3, <2>3, <2>4
<1>4. CASE FirstTask \in P /\ SecondTask \notin P
  <2>1. P = {FirstTask}
    BY <1>2, <1>4
  <2> QED
    BY <1>1, <1>4, <2>1, FS_Singleton
<1>5. CASE FirstTask \notin P /\ SecondTask \in P
  <2>1. P = {SecondTask}
    BY <1>2, <1>5
  <2> QED
    BY <1>1, <1>5, <2>1, FS_Singleton
<1>6. CASE FirstTask \notin P /\ SecondTask \notin P
  <2>1. P = {}
    BY <1>2, <1>6
  <2> QED
    BY <1>1, <1>6, <2>1, FS_EmptySet
<1> QED
  BY <1>3, <1>4, <1>5, <1>6

(* What is owed is what is being closed and what is being duplicated.      *)
LEMMA OwedExact ==
  ASSUME FtParameters, NEW f
  PROVE  F!Closing(f) \in Int /\ F!Duping(f) \in Int
         /\ F!Closing(f) + F!Duping(f) = OwedBy(FirstTask, f) + OwedBy(SecondTask, f)
<1> DEFINE A(t) == ftAt[t] = "free" /\ f = F!Table(t)[IF ftCall[t].op = "close" THEN ftCall[t].fd ELSE ftCall[t].new]
           B(t) == ftAt[t] = "ref" /\ got[t] = f
           P == {t \in F!FtTasks : A(t)}
           Q == {t \in F!FtTasks : B(t)}
<1>1. FirstTask \in F!FtTasks /\ SecondTask \in F!FtTasks
  BY DEF F!FtTasks
<1>2. F!Closing(f) = F!Cardinality(P) /\ F!Duping(f) = F!Cardinality(Q)
  BY DEF F!Closing, F!Duping
<1>3. F!Closing(f) = (IF A(FirstTask) THEN 1 ELSE 0) + (IF A(SecondTask) THEN 1 ELSE 0)
  <2>1. P \subseteq F!FtTasks /\ (FirstTask \in P <=> A(FirstTask)) /\ (SecondTask \in P <=> A(SecondTask))
    BY <1>1
  <2> HIDE DEF P, A
  <2> QED
    BY <1>2, <2>1, CountTwo
<1>4. F!Duping(f) = (IF B(FirstTask) THEN 1 ELSE 0) + (IF B(SecondTask) THEN 1 ELSE 0)
  <2>1. Q \subseteq F!FtTasks /\ (FirstTask \in Q <=> B(FirstTask)) /\ (SecondTask \in Q <=> B(SecondTask))
    BY <1>1
  <2> HIDE DEF Q, B
  <2> QED
    BY <1>2, <2>1, CountTwo
<1>5. ASSUME NEW t PROVE /\ OwedBy(t, f) = (IF A(t) THEN 1 ELSE 0) + (IF B(t) THEN 1 ELSE 0)
  BY DEF OwedBy, Owed
<1> HIDE DEF A, B
<1>6. OwedBy(FirstTask, f) = (IF A(FirstTask) THEN 1 ELSE 0) + (IF B(FirstTask) THEN 1 ELSE 0)
  BY <1>5
<1>7. OwedBy(SecondTask, f) = (IF A(SecondTask) THEN 1 ELSE 0) + (IF B(SecondTask) THEN 1 ELSE 0)
  BY <1>5
<1> QED
  BY <1>3, <1>4, <1>6, <1>7

(* The invariant is what the property needs.                               *)
LEMMA FtInvLive == FtParameters /\ FtInv => DescriptorsLive
<1> SUFFICES ASSUME FtParameters, FtInv, NEW f \in OpenFiles
             PROVE  file[f].refs = (F!NamedBy(f) - F!Closing(f)) - F!Duping(f)
  BY DEF DescriptorsLive, F!DescriptorsLive
<1>1. file[f].refs = F!NamedBy(f) - (OwedBy(FirstTask, f) + OwedBy(SecondTask, f))
  BY DEF FtInv, FtCounted
<1>2. F!Closing(f) \in Int /\ F!Duping(f) \in Int
      /\ F!Closing(f) + F!Duping(f) = OwedBy(FirstTask, f) + OwedBy(SecondTask, f)
  BY OwedExact
<1>3. F!NamedBy(f) \in Int
  <2>1. F!Named(fds[FirstTask], f) \in Nat /\ F!Named(fds[SecondTask], f) \in Nat
    BY NamedCount
  <2> QED
    BY <2>1 DEF F!NamedBy
<1> QED
  BY <1>1, <1>2, <1>3

(* A description has as many references as descriptors name it, less those *)
(* about to be cleared and those made without a reference so far, whatever *)
(* calls two tasks make on shared or copied tables: no descriptor a task   *)
(* can use names a description that was freed.                             *)
THEOREM DescriptorsStayLive == ASSUME FtParameters PROVE F!Spec => []DescriptorsLive
<1>1. F!Init => FtInv
  BY InitFtInv
<1>2. FtInv /\ [F!Next]_(F!ftVars) => FtInv'
  BY NextFtInv
<1>3. FtInv => DescriptorsLive
  BY FtInvLive
<1> QED
  BY <1>1, <1>2, <1>3, PTL DEF F!Spec

-----------------------------------------------------------------------------
(* What is written through a description.  The lock of the offset is held  *)
(* by the task that uses it, once, or twice within a part of a vector; what*)
(* was written through a description and not moved since is the whole file *)
(* and ends where its offset is, up to the part a holder has just written; *)
(* a call's own bytes lie together, the newest at the end, and no byte has *)
(* the mark of a call to come.                                             *)
HoldPlaces == {"part", "transfer", "advance", "seek"}
InParts == {"part", "transfer", "advance"}
Before == {"get", "stat", "lock"}

Deep(a, c) == IF a \in {"transfer", "advance"} /\ c.op \in {"readv", "writev"} THEN 2 ELSE 1
HoldOk(t, a, c, d) == a \in HoldPlaces => d.owner = t /\ d.depth = Deep(a, c)
HoldInv ==
  /\ \A t \in F!FtTasks : HoldOk(t, ftAt[t], ftCall[t], file[got[t]])
  /\ \A f \in OpenFiles : file[f].owner = NoFile => file[f].depth = 0

Mark(t, n) == 2 * n + (IF t = FirstTask THEN 0 ELSE 1)
Contiguous(s) == \A i, j, k \in DOMAIN s : i < j /\ j < k /\ s[i] = s[k] => s[j] = s[i]
EndsWith(s, w) == \A i \in DOMAIN s : s[i] = w => s[Len(s)] = w
Lacks(s, w) == \A i \in DOMAIN s : s[i] # w
NoneToCome(s, t, n) == \A i \in DOMAIN s : \A m \in Nat : s[i] = Mark(t, m) => m <= n

TrailInv ==
  /\ trail \in [OpenFiles -> Seq(Nat) \cup {F!Moved}]
  /\ \A f \in OpenFiles : Contiguous(trail[f])
  /\ \A f \in OpenFiles : \A t \in F!FtTasks : NoneToCome(trail[f], t, ftCalls[t])
  /\ \A f \in OpenFiles : \A t \in F!FtTasks :
       ftAt[t] \in Before => Lacks(trail[f], Mark(t, ftCalls[t]))
  /\ \A t \in F!FtTasks : ftAt[t] \in InParts => EndsWith(trail[got[t]], Mark(t, ftCalls[t]))

Writing(a, c, g, f) == a = "advance" /\ c.op \in {"write", "writev"} /\ g = f
WritingOf(t, f) == Writing(ftAt[t], ftCall[t], got[t], f)
KeptOf(f) ==
  file[f].refs > 0 /\ trail[f] # F!Moved =>
    /\ file[f].offset = Len(trail[f])
    /\ \A t \in F!FtTasks : WritingOf(t, f) => bytes = trail[f] \o F!Payload(t, ftCall[t].moved)
    /\ (\A t \in F!FtTasks : ~WritingOf(t, f)) => bytes = trail[f]
KeptInv == \A f \in OpenFiles : KeptOf(f)

(* The marks of two calls differ.                                          *)
LEMMA Marks ==
  ASSUME FtParameters, NEW t \in F!FtTasks, NEW n \in Nat
  PROVE  /\ Mark(t, n) \in Nat
         /\ \A u \in F!FtTasks : \A m \in Nat : Mark(t, n) = Mark(u, m) => t = u /\ n = m
<1>1. Mark(t, n) \in Nat
  BY DEF Mark
<1>2. ASSUME NEW u \in F!FtTasks, NEW m \in Nat, Mark(t, n) = Mark(u, m) PROVE t = u /\ n = m
  <2>1. (t = FirstTask) <=> (u = FirstTask)
    BY <1>2 DEF Mark
  <2>2. t = u
    BY <2>1 DEF F!FtTasks
  <2> QED
    BY <1>2, <2>2 DEF Mark
<1> QED
  BY <1>1, <1>2

(* A trail nothing was written to.                                         *)
LEMMA BareTrail ==
  ASSUME FtParameters, NEW s \in {<<>>, F!Moved}
  PROVE  /\ Contiguous(s) /\ \A w \in Nat : Lacks(s, w) /\ EndsWith(s, w)
         /\ \A t \in F!FtTasks : \A n \in Nat : NoneToCome(s, t, n)
<1>1. \A i \in DOMAIN s : i = 1 /\ s[i] = -1
  BY DEF F!Moved
<1>2. Contiguous(s)
  BY <1>1 DEF Contiguous
<1>3. ASSUME NEW w \in Nat PROVE Lacks(s, w) /\ EndsWith(s, w)
  <2>1. w # -1
    OBVIOUS
  <2> QED
    BY <1>1, <2>1 DEF Lacks, EndsWith
<1>4. ASSUME NEW t \in F!FtTasks, NEW n \in Nat PROVE NoneToCome(s, t, n)
  <2>1. \A m \in Nat : Mark(t, m) # -1
    BY DEF Mark
  <2> QED
    BY <1>1, <2>1 DEF NoneToCome
<1> QED
  BY <1>2, <1>3, <1>4

(* Two files with the same bytes are the same.                             *)
LEMMA SameBytes ==
  ASSUME NEW a \in Seq(Nat), NEW b \in Seq(Nat), Len(a) = Len(b), \A k \in 1..Len(a) : a[k] = b[k]
  PROVE  a = b
<1>1. a = [k \in 1..Len(a) |-> a[k]]
  OBVIOUS
<1>2. b = [k \in 1..Len(b) |-> b[k]]
  OBVIOUS
<1>3. [k \in 1..Len(a) |-> a[k]] = [k \in 1..Len(b) |-> b[k]]
  OBVIOUS
<1> QED
  BY <1>1, <1>2, <1>3, Zenon

(* Writing behind the last byte appends.                                   *)
LEMMA WrittenAtEnd ==
  ASSUME NEW b \in Seq(Nat), NEW s \in Seq(Nat)
  PROVE  F!Overwritten(b, s, Len(b)) = b \o s
<1> DEFINE o == F!Overwritten(b, s, Len(b))
           j == b \o s
           n == Len(b)
           m == Len(s)
<1>1. n \in Nat /\ m \in Nat
  OBVIOUS
<1>2. /\ o \in Seq(Nat) /\ Len(o) = F!Max2(n, n + m)
      /\ \A k \in 1..m : o[n + k] = s[k]
      /\ \A k \in 1..n : k <= n => o[k] = b[k]
  <2> DEFINE to == n + m
  <2>1. n \in Nat /\ to = n + Len(s) /\ o = F!Overwritten(b, s, n) /\ Len(b) = n /\ Len(s) = m
    BY <1>1
  <2> HIDE DEF to, n, m, o
  <2>2. n \in Nat /\ to = n + Len(s) /\ o = F!Overwritten(b, s, n)
    BY <2>1
  <2>3. /\ o \in Seq(Nat) /\ Len(o) = F!Max2(Len(b), to)
        /\ \A k \in 1..Len(s) : o[n + k] = s[k]
        /\ \A k \in 1..Len(b) : k <= n \/ k > to => o[k] = b[k]
    <3>1. Over(o, b, s, n, to)
      BY <2>2, OverwrittenBytes
    <3> QED
      BY <3>1 DEF Over
  <2> QED
    BY <2>1, <2>3 DEF to
<1>3. /\ j \in Seq(Nat) /\ Len(j) = n + m
      /\ \A k \in 1..n : j[k] = b[k]
      /\ \A k \in 1..m : j[n + k] = s[k]
  BY Joined, SMTT(30)
<1> HIDE DEF o, j, n, m
<1>4. Len(o) = n + m
  BY <1>1, <1>2 DEF F!Max2
<1>5. ASSUME NEW k \in 1..Len(o) PROVE o[k] = j[k]
  <2>1. CASE k <= n
    <3>1. k \in 1..n
      BY <1>1, <1>4, <2>1
    <3> QED
      BY <1>2, <1>3, <2>1, <3>1
  <2>2. CASE k > n
    <3>1. k - n \in 1..m /\ n + (k - n) = k
      BY <1>1, <1>4, <2>2
    <3>2. o[n + (k - n)] = s[k - n] /\ j[n + (k - n)] = s[k - n]
      BY <1>2, <1>3, <3>1
    <3> QED
      BY <3>1, <3>2
  <2> QED
    BY <1>1, <1>4, <2>1, <2>2
<1>6. o = j
  BY <1>2, <1>3, <1>4, <1>5, SameBytes
<1> QED
  BY <1>6 DEF o, j

(* A part of a call's bytes appended to a trail that ends with the others. *)
LEMMA TrailGrows ==
  ASSUME NEW s \in Seq(Nat), NEW p \in Seq(Nat), NEW w \in Nat, \A k \in 1..Len(p) : p[k] = w,
         Contiguous(s), EndsWith(s, w)
  PROVE  /\ s \o p \in Seq(Nat) /\ Len(s \o p) = Len(s) + Len(p)
         /\ Contiguous(s \o p) /\ EndsWith(s \o p, w)
         /\ \A i \in DOMAIN (s \o p) : (s \o p)[i] = w \/ (i \in DOMAIN s /\ (s \o p)[i] = s[i])
<1> DEFINE j == s \o p
           n == Len(s)
           m == Len(p)
<1>1. n \in Nat /\ m \in Nat /\ DOMAIN s = 1..n
  OBVIOUS
<1>2. /\ j \in Seq(Nat) /\ Len(j) = n + m
      /\ \A k \in 1..n : j[k] = s[k]
      /\ \A k \in 1..m : j[n + k] = p[k]
  BY Joined, SMTT(30)
<1>3. \A k \in 1..m : p[k] = w
  OBVIOUS
<1> HIDE DEF j, n, m
<1>4. DOMAIN j = 1..(n + m)
  BY <1>2
<1>5. ASSUME NEW k \in 1..(n + m), k > n PROVE j[k] = w
  <2>1. k - n \in 1..m /\ n + (k - n) = k
    BY <1>1, <1>5
  <2> QED
    BY <1>2, <1>3, <2>1
<1>6. ASSUME NEW k \in 1..(n + m), ~(k > n) PROVE k \in 1..n /\ j[k] = s[k]
  <2>1. k \in 1..n
    BY <1>1, <1>6
  <2> QED
    BY <1>2, <2>1
<1>7. ASSUME NEW i \in 1..n, s[i] = w, NEW k \in 1..n, i < k PROVE s[k] = w
  <2>0. n = Len(s) /\ i \in DOMAIN s
    BY <1>1, <1>7 DEF n
  <2>1. n \in 1..n /\ s[n] = w
    <3>1. s[Len(s)] = w
      BY <1>7, <2>0 DEF EndsWith
    <3> QED
      BY <1>1, <2>0, <3>1
  <2>2. CASE k = n
    BY <2>1, <2>2
  <2>3. CASE k # n
    <3>1. k < n
      BY <1>1, <2>3
    <3> QED
      BY <1>1, <1>7, <2>1, <3>1 DEF Contiguous
  <2> QED
    BY <2>2, <2>3
<1>8. Contiguous(j)
  <2> SUFFICES ASSUME NEW a \in 1..(n + m), NEW b \in 1..(n + m), NEW c \in 1..(n + m),
                      a < b, b < c, j[a] = j[c]
               PROVE  j[b] = j[a]
    BY <1>4 DEF Contiguous
  <2>1. CASE a > n
    <3>1. b > n
      BY <1>1, <2>1
    <3> QED
      BY <1>5, <2>1, <3>1
  <2>2. CASE ~(a > n) /\ c > n
    <3>1. a \in 1..n /\ s[a] = w /\ j[a] = w
      BY <1>5, <1>6, <2>2
    <3>2. CASE b > n
      BY <1>5, <3>1, <3>2
    <3>3. CASE ~(b > n)
      <4>1. b \in 1..n /\ j[b] = s[b]
        BY <1>6, <3>3
      <4>2. s[b] = w
        BY <1>7, <3>1, <4>1
      <4> QED
        BY <3>1, <4>1, <4>2
    <3> QED
      BY <3>2, <3>3
  <2>3. CASE ~(a > n) /\ ~(c > n)
    <3>1. ~(b > n)
      BY <1>1, <2>3
    <3>2. a \in 1..n /\ b \in 1..n /\ c \in 1..n /\ j[a] = s[a] /\ j[b] = s[b] /\ j[c] = s[c]
      BY <1>6, <2>3, <3>1
    <3> QED
      BY <1>1, <3>2 DEF Contiguous
  <2> QED
    BY <2>1, <2>2, <2>3
<1>9. EndsWith(j, w)
  <2> SUFFICES ASSUME NEW i \in 1..(n + m), j[i] = w PROVE j[n + m] = w
    BY <1>2, <1>4 DEF EndsWith
  <2>0. n + m \in 1..(n + m)
    BY <1>1
  <2>1. CASE m > 0
    <3>1. n + m > n
      BY <1>1, <2>1
    <3> QED
      BY <1>5, <2>0, <3>1
  <2>2. CASE ~(m > 0)
    <3>1. n + m = n /\ ~(i > n) /\ ~(n + m > n)
      BY <1>1, <2>2
    <3>2. i \in 1..n /\ s[i] = w
      BY <1>6, <3>1
    <3>3. s[n] = w
      <4>1. n = Len(s) /\ i \in DOMAIN s
        BY <1>1, <3>2 DEF n
      <4> QED
        BY <3>2, <4>1 DEF EndsWith
    <3> QED
      BY <1>6, <2>0, <3>1, <3>3
  <2> QED
    BY <2>1, <2>2
<1>10. ASSUME NEW i \in DOMAIN j PROVE j[i] = w \/ (i \in DOMAIN s /\ j[i] = s[i])
  BY <1>1, <1>4, <1>5, <1>6
<1> QED
  BY <1>2, <1>8, <1>9, <1>10 DEF j, n, m

(* Steps that append nothing: a trail stays, begins anew or is given up.   *)
TrailStep ==
  /\ trail' \in [OpenFiles -> Seq(Nat) \cup {F!Moved}] /\ ftCalls' = ftCalls
  /\ \A f \in OpenFiles : trail'[f] = trail[f] \/ trail'[f] \in {<<>>, F!Moved}
  /\ \A u \in F!FtTasks : ftAt'[u] \in Before => ftAt[u] \in Before
  /\ \A u \in F!FtTasks : ftAt'[u] \in InParts =>
       ftAt[u] \in InParts \cup Before /\ got'[u] = got[u] /\ got[u] \in OpenFiles

(* Such a step keeps what is known of the trails.                          *)
LEMMA StepTrail ==
  ASSUME FtParameters, FtTypes, TrailInv, TrailStep
  PROVE  TrailInv'
<1> USE DEF TrailStep
<1>1. \A t \in F!FtTasks : ftCalls[t] \in Nat /\ Mark(t, ftCalls[t]) \in Nat
  BY Marks DEF FtTypes
<1> DEFINE tr == trail'
<1> HIDE DEF tr
<1>2. ASSUME NEW f \in OpenFiles
      PROVE  /\ Contiguous(tr[f])
             /\ \A t \in F!FtTasks : /\ NoneToCome(tr[f], t, ftCalls[t])
                                     /\ Lacks(trail[f], Mark(t, ftCalls[t])) => Lacks(tr[f], Mark(t, ftCalls[t]))
                                     /\ EndsWith(trail[f], Mark(t, ftCalls[t])) => EndsWith(tr[f], Mark(t, ftCalls[t]))
  <2>1. CASE tr[f] = trail[f]
    BY <2>1 DEF TrailInv
  <2>2. CASE tr[f] \in {<<>>, F!Moved}
    BY <1>1, <2>2, BareTrail
  <2> QED
    BY <2>1, <2>2 DEF tr
<1>3. ASSUME NEW f \in OpenFiles, NEW t \in F!FtTasks, ftAt'[t] \in Before
      PROVE  Lacks(tr[f], Mark(t, ftCalls[t]))
  BY <1>2, <1>3 DEF TrailInv
<1>4. ASSUME NEW s, NEW w, Lacks(s, w) PROVE EndsWith(s, w)
  BY <1>4 DEF Lacks, EndsWith
<1>5. ASSUME NEW t \in F!FtTasks, ftAt'[t] \in InParts PROVE EndsWith(tr[got[t]], Mark(t, ftCalls[t]))
  <2>1. got[t] \in OpenFiles /\ ftAt[t] \in InParts \cup Before
    BY <1>5
  <2>2. EndsWith(trail[got[t]], Mark(t, ftCalls[t]))
    BY <1>4, <2>1 DEF TrailInv
  <2> QED
    BY <1>2, <2>1, <2>2
<1>6. \A t \in F!FtTasks : ftAt'[t] \in InParts => EndsWith(tr[got'[t]], Mark(t, ftCalls[t]))
  BY <1>5
<1>7. /\ tr \in [OpenFiles -> Seq(Nat) \cup {F!Moved}]
      /\ \A f \in OpenFiles : Contiguous(tr[f])
      /\ \A f \in OpenFiles : \A t \in F!FtTasks : NoneToCome(tr[f], t, ftCalls[t])
      /\ \A f \in OpenFiles : \A t \in F!FtTasks :
           ftAt'[t] \in Before => Lacks(tr[f], Mark(t, ftCalls[t]))
  BY <1>2, <1>3 DEF tr
<1> QED
  BY <1>6, <1>7 DEF TrailInv, tr

(* Steps that write nothing and leave the locks to their holders.          *)
CalmTask(u) ==
  \/ /\ ftAt'[u] = ftAt[u] /\ ftCall'[u] = ftCall[u] /\ got'[u] = got[u]
     /\ ftAt[u] \in HoldPlaces => file'[got[u]].owner = file[got[u]].owner /\ file'[got[u]].depth = file[got[u]].depth
  \/ /\ ftAt[u] \notin HoldPlaces /\ ftAt'[u] \notin HoldPlaces
     /\ ftAt'[u] \in Before => ftAt[u] \in Before
CalmFile(f) ==
  \/ file'[f].owner = NoFile /\ file'[f].depth = 0 /\ file'[f].refs = 0
  \/ /\ file'[f].owner = file[f].owner /\ file'[f].depth = file[f].depth
     /\ file'[f].offset = file[f].offset /\ (file'[f].refs > 0 => file[f].refs > 0)
CalmStep ==
  /\ trail' = trail /\ bytes' = bytes /\ ftCalls' = ftCalls
  /\ \A u \in F!FtTasks : CalmTask(u)
  /\ \A f \in OpenFiles : CalmFile(f)

WriteInv == HoldInv /\ TrailInv /\ KeptInv

(* A task with a description in use.                                       *)
LEMMA Using ==
  ASSUME FtParameters, FtInv, NEW t \in F!FtTasks, ftAt[t] \in DataPlaces
  PROVE  got[t] \in OpenFiles
BY DataUse

(* Such a step keeps the invariant.                                        *)
LEMMA StepCalm ==
  ASSUME FtParameters, FtInv, WriteInv, CalmStep
  PROVE  WriteInv'
<1> USE DEF CalmStep
<1>1. HoldInv'
  <2> SUFFICES /\ \A t \in F!FtTasks : HoldOk(t, ftAt'[t], ftCall'[t], file'[got'[t]])
               /\ \A f \in OpenFiles : file'[f].owner = NoFile => file'[f].depth = 0
    BY DEF HoldInv, HoldOk
  <2>1. ASSUME NEW t \in F!FtTasks PROVE HoldOk(t, ftAt'[t], ftCall'[t], file'[got'[t]])
    <3>1. CASE ftAt'[t] \in HoldPlaces
      <4>1. /\ ftAt'[t] = ftAt[t] /\ ftCall'[t] = ftCall[t] /\ got'[t] = got[t]
            /\ file'[got[t]].owner = file[got[t]].owner /\ file'[got[t]].depth = file[got[t]].depth
        BY <3>1 DEF CalmTask
      <4>2. HoldOk(t, ftAt[t], ftCall[t], file[got[t]])
        BY DEF WriteInv, HoldInv
      <4> QED
        BY <4>1, <4>2 DEF HoldOk
    <3>2. CASE ftAt'[t] \notin HoldPlaces
      BY <3>2 DEF HoldOk
    <3> QED
      BY <3>1, <3>2
  <2>2. ASSUME NEW f \in OpenFiles, file'[f].owner = NoFile PROVE file'[f].depth = 0
    BY <2>2 DEF CalmFile, WriteInv, HoldInv
  <2> QED
    BY <2>1, <2>2
<1>2. TrailInv'
  <2>1. InParts \subseteq HoldPlaces /\ InParts \subseteq DataPlaces
    BY DEF InParts, HoldPlaces, DataPlaces
  <2>2. TrailStep
    BY <2>1, Using DEF TrailStep, CalmTask, WriteInv, TrailInv
  <2> QED
    BY <2>2, StepTrail DEF FtInv, WriteInv
<1>3. KeptInv'
  <2>1. ASSUME NEW t \in F!FtTasks, NEW f
        PROVE  /\ Writing(ftAt'[t], ftCall'[t], got'[t], f) <=> WritingOf(t, f)
               /\ WritingOf(t, f) => ftCall'[t].moved = ftCall[t].moved
    BY DEF CalmTask, WritingOf, Writing, HoldPlaces
  <2> SUFFICES ASSUME NEW f \in OpenFiles, file'[f].refs > 0, trail[f] # F!Moved
               PROVE  /\ file'[f].offset = Len(trail[f])
                      /\ \A t \in F!FtTasks : Writing(ftAt'[t], ftCall'[t], got'[t], f)
                           => bytes = trail[f] \o F!Payload(t, ftCall'[t].moved)
                      /\ (\A t \in F!FtTasks : ~Writing(ftAt'[t], ftCall'[t], got'[t], f)) => bytes = trail[f]
    BY DEF KeptInv, KeptOf, WritingOf, F!Payload
  <2>2. file'[f].offset = file[f].offset /\ file[f].refs > 0
    BY DEF CalmFile
  <2>3. /\ file[f].offset = Len(trail[f])
        /\ \A t \in F!FtTasks : WritingOf(t, f) => bytes = trail[f] \o F!Payload(t, ftCall[t].moved)
        /\ (\A t \in F!FtTasks : ~WritingOf(t, f)) => bytes = trail[f]
    BY <2>2 DEF WriteInv, KeptInv, KeptOf
  <2> QED
    BY <2>1, <2>2, <2>3
<1> QED
  BY <1>1, <1>2, <1>3 DEF WriteInv

(* A calm step is one task's, the descriptions' holders aside.             *)
CalmMove(t, a2) ==
  /\ ftAt' = [ftAt EXCEPT ![t] = a2] /\ ftAt[t] \notin HoldPlaces /\ a2 \notin HoldPlaces
  /\ a2 \in Before => ftAt[t] \in Before
  /\ \A u \in F!FtTasks : u # t => ftCall'[u] = ftCall[u] /\ got'[u] = got[u]
  /\ trail' = trail /\ bytes' = bytes /\ ftCalls' = ftCalls
HoldersStay(t) ==
  \A u \in F!FtTasks : u # t /\ ftAt[u] \in HoldPlaces =>
    file'[got[u]].owner = file[got[u]].owner /\ file'[got[u]].depth = file[got[u]].depth

(* Such a step keeps the invariant.                                        *)
LEMMA MoveCalm ==
  ASSUME FtParameters, FtInv, WriteInv, NEW t \in F!FtTasks, NEW a2, CalmMove(t, a2), HoldersStay(t),
         \A f \in OpenFiles : CalmFile(f)
  PROVE  WriteInv'
<1>1. ftAt'[t] = a2 /\ \A u \in F!FtTasks : u # t => ftAt'[u] = ftAt[u]
  BY DEF CalmMove, FtInv, FtTypes
<1>2. ASSUME NEW u \in F!FtTasks PROVE CalmTask(u)
  <2>1. CASE u = t
    BY <1>1, <2>1 DEF CalmTask, CalmMove
  <2>2. CASE u # t
    BY <1>1, <2>2 DEF CalmTask, CalmMove, HoldersStay
  <2> QED
    BY <2>1, <2>2
<1>3. CalmStep
  BY <1>2 DEF CalmStep, CalmMove
<1> QED
  BY <1>3, StepCalm

(* It does so when the descriptions do not change.                         *)
LEMMA MoveStill ==
  ASSUME FtParameters, FtInv, WriteInv, NEW t \in F!FtTasks, NEW a2, CalmMove(t, a2), file' = file
  PROVE  WriteInv'
<1>1. HoldersStay(t) /\ \A f \in OpenFiles : CalmFile(f)
  BY DEF HoldersStay, CalmFile
<1> QED
  BY <1>1, MoveCalm

(* Nobody who holds a description's lock loses it when another descriptor  *)
(* of it is closed: the holder's own counts, too.                          *)
LEMMA DropCalm ==
  ASSUME FtParameters, FtInv, NEW t \in F!FtTasks, Busy(ftAt[t]), F!Changes(ftCall[t]),
         ftAt[t] \notin {"free", "ref"}, NEW d \in F!Fds, NEW f \in OpenFiles, F!Table(t)[d] = f,
         file' = F!Dropped(f)
  PROVE  HoldersStay(t) /\ \A x \in OpenFiles : CalmFile(x)
<1> DEFINE tab == F!Table(t)
           g == file'
           n == F!Named(tab, f)
<1>1. n >= 1 /\ n \in Nat
  BY NamedSome, NamedCount
<1>2. /\ file[f].refs >= n - OwedBy(t, f)
      /\ \A u \in F!FtTasks : u # t /\ ftAt[u] \in InUse \ {"free", "ref"} /\ got[u] = f
           => file[f].refs >= n - OwedBy(t, f) + 1
  BY OtherRefs
<1>3. OwedBy(t, f) = 0 /\ file[f].refs \in Int /\ file[f] \in Descriptions /\ FtTypes
  BY DEF OwedBy, Owed, FtInv, FtTypes, Descriptions
<1> HIDE DEF n, g
<1>4. file[f].refs >= 1
  BY <1>1, <1>2, <1>3
<1>5. DropOk(g, f)
  <2>1. g = F!Dropped(f)
    BY DEF g
  <2> QED
    BY <1>3, <1>4, <2>1, DroppedFile DEF Referenced
<1>6. ASSUME file[f].refs > 1
      PROVE  /\ g[f].owner = file[f].owner /\ g[f].depth = file[f].depth /\ g[f].offset = file[f].offset
  BY <1>3, <1>5, <1>6 DEF DropOk, Descriptions
<1>7. ASSUME ~(file[f].refs > 1) PROVE g[f].owner = NoFile /\ g[f].depth = 0 /\ g[f].refs = 0
  <2>1. g[f] = F!Closed
    BY <1>5, <1>7 DEF DropOk
  <2>2. F!Closed.owner = NoFile /\ F!Closed.depth = 0 /\ F!Closed.refs = 0
    BY DEF F!Closed
  <2> QED
    BY <2>1, <2>2
<1>8. ASSUME NEW x \in OpenFiles PROVE CalmFile(x)
  <2>1. CASE x # f
    BY <1>5, <2>1 DEF DropOk, CalmFile, g
  <2>2. CASE x = f
    BY <1>3, <1>4, <1>6, <1>7, <2>2 DEF CalmFile, g
  <2> QED
    BY <2>1, <2>2
<1>9. ASSUME NEW u \in F!FtTasks, u # t, ftAt[u] \in HoldPlaces
      PROVE  g[got[u]].owner = file[got[u]].owner /\ g[got[u]].depth = file[got[u]].depth
  <2>1. got[u] \in OpenFiles /\ ftAt[u] \in InUse \ {"free", "ref"}
    <3>1. ftAt[u] \in DataPlaces /\ ftAt[u] \in InUse \ {"free", "ref"}
      BY <1>9 DEF HoldPlaces, DataPlaces, InUse, Places
    <3> QED
      BY <3>1, Using
  <2>2. CASE got[u] # f
    BY <1>5, <2>1, <2>2 DEF DropOk
  <2>3. CASE got[u] = f
    <3>1. file[f].refs > 1
      BY <1>1, <1>2, <1>3, <1>9, <2>1, <2>3
    <3> QED
      BY <1>6, <2>3, <3>1
  <2> QED
    BY <2>2, <2>3
<1> QED
  BY <1>8, <1>9 DEF HoldersStay, g

(* The calls on descriptors write nothing.                                 *)
LEMMA KeptByGetFile ==
  ASSUME FtParameters, FtInv, WriteInv, NEW t \in F!FtTasks, F!GetFile(t)
  PROVE  WriteInv'
<1>1. /\ ftAt[t] = "get" /\ file' = file /\ ftCall' = ftCall /\ ftCalls' = ftCalls /\ trail' = trail /\ bytes' = bytes
      /\ \A u \in F!FtTasks : u # t => got'[u] = got[u]
  BY DEF F!GetFile, FtInv, FtTypes
<1>2. PICK a2 \in {"user"} \cup {F!Begins(ftCall[t].op)} : ftAt' = [ftAt EXCEPT ![t] = a2]
  BY DEF F!GetFile, F!FtReturn, F!FtGoto
<1>3. a2 \notin HoldPlaces
  BY <1>2 DEF F!Begins, HoldPlaces
<1>4. CalmMove(t, a2)
  BY <1>1, <1>2, <1>3 DEF CalmMove, Before, HoldPlaces
<1> QED
  BY <1>1, <1>4, MoveStill

(* Nor do these.                                                           *)
LEMMA KeptByClose ==
  ASSUME FtParameters, FtInv, WriteInv, NEW t \in F!FtTasks,
         F!CloseDrop(t) \/ F!CloseFree(t)
  PROVE  WriteInv'
<1>1. CASE F!CloseDrop(t)
  <2>1. /\ ftAt[t] = "close" /\ ftAt' = [ftAt EXCEPT ![t] = "free"] /\ file' = F!Dropped(got[t])
        /\ UNCHANGED <<ftCall, got, ftCalls, trail, bytes>>
    BY <1>1 DEF F!CloseDrop, F!FtGoto
  <2>2. CalmMove(t, "free")
    BY <2>1 DEF CalmMove, HoldPlaces, Before
  <2>3. /\ ftCall[t].fd \in F!Fds /\ Busy(ftAt[t]) /\ got[t] \in OpenFiles /\ F!Table(t)[ftCall[t].fd] = got[t]
    BY <2>1, UsesFd DEF InUse, Places
  <2>4. F!Changes(ftCall[t])
    BY <2>1, Unmoved DEF PlaceOk, F!Changes
  <2>5. HoldersStay(t) /\ \A x \in OpenFiles : CalmFile(x)
    BY <2>1, <2>3, <2>4, DropCalm
  <2> QED
    BY <2>2, <2>5, MoveCalm
<1>2. CASE F!CloseFree(t)
  <2>1. ftAt[t] = "free" /\ file' = file /\ UNCHANGED <<ftCall, got, ftCalls, trail, bytes>>
    BY <1>2 DEF F!CloseFree
  <2>2. PICK a2 \in {"user", "dup"} : ftAt' = [ftAt EXCEPT ![t] = a2]
    BY <1>2 DEF F!CloseFree, F!FtReturn, F!FtGoto
  <2>3. CalmMove(t, a2)
    BY <2>1, <2>2 DEF CalmMove, HoldPlaces, Before
  <2> QED
    BY <2>1, <2>3, MoveStill
<1> QED
  BY <1>1, <1>2

(* A description whose second descriptor has no reference so far has one   *)
(* for the first.                                                          *)
LEMMA DupingRefs ==
  ASSUME FtParameters, FtInv, NEW t \in F!FtTasks, ftAt[t] = "ref"
  PROVE  got[t] \in OpenFiles /\ file[got[t]].refs >= 1 /\ file[got[t]] \in Descriptions
<1> DEFINE tab == F!Table(t)
           f == got[t]
           S == {d \in F!Fds : tab[d] = f}
<1>1. /\ ftCall[t].fd \in F!Fds /\ Busy(ftAt[t]) /\ f \in OpenFiles /\ tab[ftCall[t].fd] = f
  BY UsesFd DEF InUse, Places
<1>2. PlaceOk("ref", ftCall[t]) /\ UseOk("ref", ftCall[t], f, tab)
  BY Unmoved
<1>3. F!Changes(ftCall[t])
  BY <1>2 DEF PlaceOk, F!Changes
<1>4. PICK d \in F!Fds : d # ftCall[t].fd /\ tab[d] = f
  BY <1>2 DEF UseOk
<1>5. F!Named(tab, f) = Cardinality(S) /\ IsFiniteSet(S) /\ Cardinality(S) \in Nat
  BY NamedCount
<1>6. ftCall[t].fd \in S /\ d \in S
  BY <1>1, <1>4
<1>7. file[f].refs >= F!Named(tab, f) - OwedBy(t, f) /\ file[f] \in Descriptions /\ file[f].refs \in Int
  BY <1>1, <1>3, OtherRefs DEF FtInv, FtTypes, Descriptions
<1>8. OwedBy(t, f) = 1
  BY DEF OwedBy, Owed
<1> HIDE DEF S
<1>9. Cardinality(S) >= 2
  <2> DEFINE e == ftCall[t].fd
             T == S \ {e}
  <2>1. IsFiniteSet(T) /\ Cardinality(T) = Cardinality(S) - 1
    BY <1>5, <1>6, FS_RemoveElement
  <2>2. d \in T
    BY <1>4, <1>6
  <2> HIDE DEF T
  <2>3. Cardinality(T) # 0 /\ Cardinality(T) \in Nat
    BY <2>1, <2>2, FS_EmptySet, FS_CardinalityType
  <2> QED
    BY <1>5, <2>1, <2>3
<1> HIDE DEF f, tab
<1>10. file[f].refs >= 1
  BY <1>5, <1>7, <1>8, <1>9
<1> QED
  BY <1>1, <1>7, <1>10 DEF f

(* dup and dup3                                                            *)
LEMMA KeptByDup ==
  ASSUME FtParameters, FtInv, WriteInv, NEW t \in F!FtTasks,
         F!Dup(t) \/ F!DupRef(t) \/ F!Dup3(t)
  PROVE  WriteInv'
<1>1. CASE F!Dup(t)
  <2>1. ftAt[t] = "dup" /\ file' = file /\ UNCHANGED <<ftCall, got, ftCalls, trail, bytes>>
    BY <1>1 DEF F!Dup
  <2>2. PICK a2 \in {"user", "ref"} : ftAt' = [ftAt EXCEPT ![t] = a2]
    BY <1>1 DEF F!Dup, F!FtReturn, F!FtGoto
  <2>3. CalmMove(t, a2)
    BY <2>1, <2>2 DEF CalmMove, HoldPlaces, Before
  <2> QED
    BY <2>1, <2>3, MoveStill
<1>2. CASE F!DupRef(t)
  <2> DEFINE f == got[t]
  <2>1. /\ ftAt[t] = "ref" /\ ftAt' = [ftAt EXCEPT ![t] = "user"] /\ UNCHANGED <<ftCall, got, ftCalls, trail, bytes>>
        /\ file' = [file EXCEPT ![f].refs = @ + 1]
    BY <1>2 DEF F!DupRef, F!FtReturn, F!FtGoto
  <2>2. CalmMove(t, "user")
    BY <2>1 DEF CalmMove, HoldPlaces, Before
  <2>3. f \in OpenFiles /\ file[f].refs >= 1 /\ file[f] \in Descriptions
    BY <2>1, DupingRefs
  <2>4. file \in [OpenFiles -> Descriptions] /\ file[f].refs \in Int
    BY <2>3 DEF FtInv, FtTypes, Descriptions
  <2> HIDE DEF f
  <2>5. ASSUME NEW x \in OpenFiles
        PROVE  /\ file'[x].owner = file[x].owner /\ file'[x].depth = file[x].depth
               /\ file'[x].offset = file[x].offset /\ (file'[x].refs > 0 => file[x].refs > 0)
    <3>1. CASE x = f
      <4>1. file[f].refs > 0
        BY <2>3, <2>4
      <4> QED
        BY <2>1, <2>3, <2>4, <3>1, <4>1 DEF Descriptions
    <3>2. CASE x # f
      BY <2>1, <2>4, <3>2
    <3> QED
      BY <3>1, <3>2
  <2>6. \A u \in F!FtTasks : ftAt[u] \in HoldPlaces => got[u] \in OpenFiles
    BY Using DEF HoldPlaces, DataPlaces
  <2>7. HoldersStay(t) /\ \A x \in OpenFiles : CalmFile(x)
    BY <2>5, <2>6 DEF HoldersStay, CalmFile
  <2> QED
    BY <2>2, <2>7, MoveCalm
<1>3. CASE F!Dup3(t)
  <2>1. ftAt[t] = "dup3" /\ UNCHANGED <<ftCall, got, ftCalls, trail, bytes>>
    BY <1>3 DEF F!Dup3
  <2>2. PICK a2 \in {"user", "dup", "free"} :
          /\ ftAt' = [ftAt EXCEPT ![t] = a2]
          /\ \/ file' = file
             \/ F!Table(t)[ftCall[t].new] # NoFile /\ file' = F!Dropped(F!Table(t)[ftCall[t].new])
    BY <1>3 DEF F!Dup3, F!FtReturn, F!FtGoto
  <2>3. CalmMove(t, a2)
    BY <2>1, <2>2 DEF CalmMove, HoldPlaces, Before
  <2>4. CASE file' = file
    BY <2>3, <2>4, MoveStill
  <2>5. CASE F!Table(t)[ftCall[t].new] # NoFile /\ file' = F!Dropped(F!Table(t)[ftCall[t].new])
    <3> DEFINE g == F!Table(t)[ftCall[t].new]
    <3>1. CallOk(ftCall[t]) /\ PlaceOk("dup3", ftCall[t])
      BY <2>1, Unmoved
    <3>2. ftCall[t].new \in F!Fds /\ F!Changes(ftCall[t])
      BY <3>1 DEF CallOk, PlaceOk, F!Changes
    <3>3. Busy(ftAt[t]) /\ F!Table(t) \in Descriptors
      BY <2>1, UsesFd DEF InUse, Places
    <3>4. g \in OpenFiles
      BY <2>5, <3>2, <3>3 DEF Descriptors
    <3>5. HoldersStay(t) /\ \A x \in OpenFiles : CalmFile(x)
      BY <2>1, <2>5, <3>2, <3>3, <3>4, DropCalm
    <3> QED
      BY <2>3, <3>5, MoveCalm
  <2> QED
    BY <2>2, <2>4, <2>5
<1> QED
  BY <1>1, <1>2, <1>3

(* exit                                                                    *)
LEMMA KeptByExit ==
  ASSUME FtParameters, FtInv, WriteInv, NEW t \in F!FtTasks, F!Exit(t)
  PROVE  WriteInv'
<1> DEFINE tab == F!Table(t)
           n(f) == F!Named(tab, f)
           left(f) == IF n(f) >= file[f].refs THEN F!Closed ELSE [file[f] EXCEPT !.refs = file[f].refs - n(f)]
<1>1. /\ ftAt[t] = "begin" /\ ftCall[t].op = "exit" /\ ftAt' = [ftAt EXCEPT ![t] = "exited"]
      /\ UNCHANGED <<ftCall, got, ftCalls, trail, bytes>>
  BY DEF F!Exit, F!FtGoto
<1>2. CalmMove(t, "exited")
  BY <1>1 DEF CalmMove, HoldPlaces, Before
<1>3. CASE file' = file
  BY <1>2, <1>3, MoveStill
<1>4. CASE file' = [f \in OpenFiles |-> left(f)]
  <2>1. Busy(ftAt[t]) /\ F!Changes(ftCall[t])
    BY <1>1 DEF Busy, F!Changes
  <2>2. ASSUME NEW f \in OpenFiles
        PROVE  /\ n(f) \in Nat /\ file[f] \in Descriptions /\ file[f].refs \in Int /\ file'[f] = left(f)
               /\ \A u \in F!FtTasks : u # t /\ ftAt[u] \in InUse \ {"free", "ref"} /\ got[u] = f
                    => file[f].refs >= n(f) + 1
    <3>1. n(f) \in Nat /\ file[f] \in Descriptions /\ file[f].refs \in Int
      BY NamedCount DEF FtInv, FtTypes, Descriptions
    <3>2. OwedBy(t, f) = 0
      BY <1>1 DEF OwedBy, Owed
    <3>3. \A u \in F!FtTasks : u # t /\ ftAt[u] \in InUse \ {"free", "ref"} /\ got[u] = f
            => file[f].refs >= n(f) - OwedBy(t, f) + 1
      BY <2>1, OtherRefs
    <3> HIDE DEF n
    <3> QED
      BY <1>4, <3>1, <3>2, <3>3
  <2> HIDE DEF n
  <2>3. ASSUME NEW f \in OpenFiles, ~(n(f) >= file[f].refs)
        PROVE  /\ file'[f].owner = file[f].owner /\ file'[f].depth = file[f].depth
               /\ file'[f].offset = file[f].offset /\ file[f].refs > 0
    <3>1. file'[f] = [file[f] EXCEPT !.refs = file[f].refs - n(f)]
      BY <2>2, <2>3
    <3>2. file[f].refs > 0
      <4>1. n(f) \in Nat /\ file[f].refs \in Int
        BY <2>2
      <4> QED
        BY <2>3, <4>1
    <3> QED
      BY <2>2, <3>1, <3>2 DEF Descriptions
  <2>4. ASSUME NEW f \in OpenFiles, n(f) >= file[f].refs
        PROVE  file'[f].owner = NoFile /\ file'[f].depth = 0 /\ file'[f].refs = 0
    <3>1. file'[f] = F!Closed
      BY <2>2, <2>4
    <3>2. F!Closed.owner = NoFile /\ F!Closed.depth = 0 /\ F!Closed.refs = 0
      BY DEF F!Closed
    <3> QED
      BY <3>1, <3>2
  <2>5. \A f \in OpenFiles : CalmFile(f)
    BY <2>3, <2>4 DEF CalmFile
  <2>6. ASSUME NEW u \in F!FtTasks, u # t, ftAt[u] \in HoldPlaces
        PROVE  file'[got[u]].owner = file[got[u]].owner /\ file'[got[u]].depth = file[got[u]].depth
    <3>1. got[u] \in OpenFiles /\ ftAt[u] \in InUse \ {"free", "ref"}
      <4>1. ftAt[u] \in DataPlaces /\ ftAt[u] \in InUse \ {"free", "ref"}
        BY <2>6 DEF HoldPlaces, DataPlaces, InUse, Places
      <4> QED
        BY <4>1, Using
    <3>2. ~(n(got[u]) >= file[got[u]].refs)
      <4> DEFINE f == got[u]
      <4>1. f \in OpenFiles
        BY <3>1
      <4>2. n(f) \in Nat /\ file[f].refs \in Int
        BY <2>2, <4>1
      <4>3. file[f].refs >= n(f) + 1
        BY <2>2, <2>6, <3>1, <4>1
      <4> HIDE DEF f
      <4> QED
        BY <4>2, <4>3 DEF f
    <3> QED
      BY <2>3, <3>1, <3>2
  <2>7. HoldersStay(t)
    BY <2>6 DEF HoldersStay
  <2> QED
    BY <1>2, <2>5, <2>7, MoveCalm
<1> QED
  BY <1>3, <1>4 DEF F!Exit

(* clone                                                                   *)
LEMMA KeptByClone ==
  ASSUME FtParameters, FtInv, WriteInv, NEW t \in F!FtTasks, F!Clone(t)
  PROVE  WriteInv'
<1>1. /\ ftAt[t] = "begin" /\ ftCall[t].op = "clone" /\ ftAt[SecondTask] = "absent"
      /\ ftAt' = [ftAt EXCEPT ![t] = "user", ![SecondTask] = "user"]
      /\ UNCHANGED <<ftCall, got, ftCalls, trail, bytes>>
  BY DEF F!Clone
<1>2. t = FirstTask /\ \A u \in F!FtTasks : u = FirstTask \/ u = SecondTask
  BY <1>1 DEF F!FtTasks
<1>3. \A u \in F!FtTasks : ftAt[u] \in {"begin", "absent"} /\ ftAt'[u] = "user"
  BY <1>1, <1>2 DEF FtInv, FtTypes
<1>4. \A u \in F!FtTasks : CalmTask(u)
  BY <1>3 DEF CalmTask, HoldPlaces, Before
<1>5. ASSUME NEW f \in OpenFiles PROVE CalmFile(f)
  <2>1. CASE file' = file
    BY <2>1 DEF CalmFile
  <2>2. CASE file' = [x \in OpenFiles |-> [file[x] EXCEPT !.refs = @ + F!Named(F!Table(t), x)]]
    <3> DEFINE n == F!Named(F!Table(t), f)
    <3>1. file'[f] = [file[f] EXCEPT !.refs = file[f].refs + n]
      BY <2>2
    <3>2. n \in Nat /\ file[f] \in Descriptions /\ file[f].refs \in Int
      BY NamedCount DEF FtInv, FtTypes, Descriptions
    <3>3. file[f].refs >= n
      <4>1. Busy(ftAt[t]) /\ F!Changes(ftCall[t])
        BY <1>1 DEF Busy, F!Changes
      <4>2. file[f].refs >= n - OwedBy(t, f)
        BY <4>1, OtherRefs
      <4>3. OwedBy(t, f) = 0
        BY <1>1 DEF OwedBy, Owed
      <4> HIDE DEF n
      <4> QED
        BY <3>2, <4>2, <4>3
    <3> HIDE DEF n
    <3>4. /\ file'[f].owner = file[f].owner /\ file'[f].depth = file[f].depth
          /\ file'[f].offset = file[f].offset /\ file'[f].refs = file[f].refs + n
      BY <3>1, <3>2 DEF Descriptions
    <3>5. file'[f].refs > 0 => file[f].refs > 0
      BY <3>2, <3>3, <3>4
    <3> QED
      BY <3>4, <3>5 DEF CalmFile
  <2> QED
    BY <2>1, <2>2 DEF F!Clone
<1>6. CalmStep
  BY <1>1, <1>4, <1>5 DEF CalmStep
<1> QED
  BY <1>6, StepCalm

(* open: a new description begins at the start, with a trail when the file *)
(* is empty.                                                               *)
LEMMA KeptByOpen ==
  ASSUME FtParameters, FtInv, WriteInv, NEW t \in F!FtTasks, F!SysOpen(t)
  PROVE  WriteInv'
<1> DEFINE f == CHOOSE g \in OpenFiles : file[g].refs = 0
           tr == IF vec.size = 0 THEN <<>> ELSE F!Moved
           new == [F!Closed EXCEPT !.refs = 1]
<1>1. /\ ftAt[t] = "begin" /\ ftCall[t].op = "open" /\ ftAt' = [ftAt EXCEPT ![t] = "user"]
      /\ UNCHANGED <<ftCall, got, ftCalls, bytes>> /\ \E g \in OpenFiles : file[g].refs = 0
  BY DEF F!SysOpen, F!FtReturn, F!FtGoto
<1>2. CASE file' = file /\ trail' = trail
  <2>1. CalmMove(t, "user")
    BY <1>1, <1>2 DEF CalmMove, HoldPlaces, Before
  <2> QED
    BY <1>2, <2>1, MoveStill
<1>3. CASE file' = [file EXCEPT ![f] = new] /\ trail' = [trail EXCEPT ![f] = tr]
  <2>1. f \in OpenFiles /\ file[f].refs = 0
    BY <1>1, Zenon
  <2> HIDE DEF f
  <2>2. Busy(ftAt[t]) /\ F!Changes(ftCall[t]) /\ OwedBy(t, f) = 0
    BY <1>1 DEF Busy, F!Changes, OwedBy, Owed
  <2>3. ASSUME NEW u \in F!FtTasks, ftAt[u] \in DataPlaces
        PROVE  u # t /\ got[u] \in OpenFiles /\ got[u] # f
    <3>1. u # t
      BY <1>1, <2>3 DEF DataPlaces
    <3>2. got[u] \in OpenFiles
      BY <2>3, Using
    <3>3. ftAt[u] \in InUse \ {"free", "ref"}
      BY <2>3 DEF DataPlaces, InUse, Places
    <3>4. got[u] = f => file[f].refs >= F!Named(F!Table(t), f) - OwedBy(t, f) + 1
      BY <2>1, <2>2, <3>1, <3>3, OtherRefs
    <3>5. F!Named(F!Table(t), f) \in Nat
      BY NamedCount
    <3>6. got[u] # f
      <4> DEFINE n == F!Named(F!Table(t), f)
      <4> HIDE DEF n
      <4>1. n \in Nat /\ (got[u] = f => 0 >= n - 0 + 1)
        BY <2>1, <2>2, <3>4, <3>5 DEF n
      <4> QED
        BY <4>1
    <3> QED
      BY <3>1, <3>2, <3>6
  <2>4. file \in [OpenFiles -> Descriptions] /\ trail \in [OpenFiles -> Seq(Nat) \cup {F!Moved}]
    BY DEF FtInv, FtTypes, WriteInv, TrailInv
  <2>5. /\ new.refs = 1 /\ new.owner = NoFile /\ new.depth = 0 /\ new.offset = 0
    BY DEF F!Closed
  <2>6. tr \in {<<>>, F!Moved} /\ tr \in Seq(Nat) \cup {F!Moved} /\ (tr # F!Moved => vec.size = 0 /\ tr = <<>>)
    BY DEF F!Moved
  <2> HIDE DEF new, tr
  <2>7. /\ file'[f] = new /\ trail'[f] = tr
        /\ \A x \in OpenFiles : x # f => file'[x] = file[x] /\ trail'[x] = trail[x]
    BY <1>3, <2>1, <2>4
  <2>8. \A u \in F!FtTasks : ftAt'[u] = (IF u = t THEN "user" ELSE ftAt[u])
    BY <1>1 DEF FtInv, FtTypes
  <2>9. HoldInv'
    <3> SUFFICES /\ \A u \in F!FtTasks : HoldOk(u, ftAt'[u], ftCall[u], file'[got[u]])
                 /\ \A x \in OpenFiles : file'[x].owner = NoFile => file'[x].depth = 0
      BY <1>1 DEF HoldInv, HoldOk
    <3>1. ASSUME NEW u \in F!FtTasks PROVE HoldOk(u, ftAt'[u], ftCall[u], file'[got[u]])
      <4>1. CASE ftAt'[u] \notin HoldPlaces
        BY <4>1 DEF HoldOk
      <4>2. CASE ftAt'[u] \in HoldPlaces
        <5>1. ftAt'[u] = ftAt[u] /\ ftAt[u] \in DataPlaces
          BY <2>8, <4>2 DEF HoldPlaces, DataPlaces
        <5>2. file'[got[u]] = file[got[u]]
          BY <2>3, <2>7, <5>1
        <5>3. HoldOk(u, ftAt[u], ftCall[u], file[got[u]])
          BY DEF WriteInv, HoldInv
        <5> QED
          BY <5>1, <5>2, <5>3
      <4> QED
        BY <4>1, <4>2
    <3>2. ASSUME NEW x \in OpenFiles, file'[x].owner = NoFile PROVE file'[x].depth = 0
      <4>1. CASE x = f
        BY <2>5, <2>7, <4>1
      <4>2. CASE x # f
        BY <2>7, <3>2, <4>2 DEF WriteInv, HoldInv
      <4> QED
        BY <4>1, <4>2
    <3> QED
      BY <3>1, <3>2
  <2>10. TrailInv'
    <3>1. trail' \in [OpenFiles -> Seq(Nat) \cup {F!Moved}]
      BY <1>3, <2>1, <2>4, <2>6
    <3>2. \A x \in OpenFiles : trail'[x] = trail[x] \/ trail'[x] \in {<<>>, F!Moved}
      BY <2>6, <2>7
    <3>3. \A u \in F!FtTasks : ftAt'[u] \in Before => ftAt[u] \in Before
      BY <2>8 DEF Before
    <3>4. \A u \in F!FtTasks : ftAt'[u] \in InParts => ftAt[u] \in InParts /\ ftAt[u] \in DataPlaces
      BY <2>8 DEF InParts, DataPlaces
    <3>5. TrailStep
      BY <1>1, <2>3, <3>1, <3>2, <3>3, <3>4 DEF TrailStep
    <3> QED
      BY <3>5, StepTrail DEF FtInv, WriteInv
  <2>11. KeptInv'
    <3>1. ASSUME NEW u \in F!FtTasks, NEW x PROVE Writing(ftAt'[u], ftCall[u], got[u], x) <=> WritingOf(u, x)
      BY <1>1, <2>8 DEF WritingOf, Writing
    <3>2. \A u \in F!FtTasks : ~WritingOf(u, f)
      BY <2>3 DEF WritingOf, Writing, DataPlaces
    <3> SUFFICES ASSUME NEW x \in OpenFiles, file'[x].refs > 0, trail'[x] # F!Moved
                 PROVE  /\ file'[x].offset = Len(trail'[x])
                        /\ \A u \in F!FtTasks : Writing(ftAt'[u], ftCall[u], got[u], x)
                             => bytes = trail'[x] \o F!Payload(u, ftCall[u].moved)
                        /\ (\A u \in F!FtTasks : ~Writing(ftAt'[u], ftCall[u], got[u], x)) => bytes = trail'[x]
      BY <1>1 DEF KeptInv, KeptOf, WritingOf, F!Payload
    <3>3. CASE x = f
      <4>1. tr = <<>> /\ vec.size = 0
        BY <2>6, <2>7, <3>3
      <4>2. bytes \in Seq(Nat) /\ Len(bytes) = 0
        BY <4>1 DEF FtInv, VecOk
      <4>3. bytes = <<>>
        BY <4>2
      <4>4. file'[x].offset = 0 /\ trail'[x] = <<>>
        BY <2>5, <2>7, <3>3, <4>1
      <4>5. \A u \in F!FtTasks : ~Writing(ftAt'[u], ftCall[u], got[u], x)
        BY <3>1, <3>2, <3>3
      <4> QED
        BY <4>3, <4>4, <4>5
    <3>4. CASE x # f
      <4>1. file'[x] = file[x] /\ trail'[x] = trail[x]
        BY <2>7, <3>4
      <4>2. /\ file[x].offset = Len(trail[x])
            /\ \A u \in F!FtTasks : WritingOf(u, x) => bytes = trail[x] \o F!Payload(u, ftCall[u].moved)
            /\ (\A u \in F!FtTasks : ~WritingOf(u, x)) => bytes = trail[x]
        BY <4>1 DEF WriteInv, KeptInv, KeptOf
      <4> QED
        BY <3>1, <4>1, <4>2
    <3> QED
      BY <3>3, <3>4
  <2> QED
    BY <2>9, <2>10, <2>11 DEF WriteInv
<1> QED
  BY <1>2, <1>3 DEF F!SysOpen

(* A call begins: no byte has its mark.                                    *)
LEMMA KeptByFileCall ==
  ASSUME FtParameters, FtInv, WriteInv, NEW t \in F!FtTasks, F!FileCall(t)
  PROVE  WriteInv'
<1> DEFINE n == ftCalls[t]
<1>1. /\ ftAt[t] = "user" /\ ftCalls' = [ftCalls EXCEPT ![t] = n + 1]
      /\ file' = file /\ bytes' = bytes /\ trail' = trail
  BY DEF F!FileCall
<1>0. PICK c \in FileCalls[t][ftCalls[t] + 1] :
        /\ ftCall' = [ftCall EXCEPT ![t] = c] /\ got' = [got EXCEPT ![t] = NoFile]
        /\ ftAt' = [ftAt EXCEPT ![t] = IF c.op \in {"open", "clone", "exit"} THEN "begin" ELSE "get"]
  BY DEF F!FileCall, F!FtGoto
<1> DEFINE a2 == IF c.op \in {"open", "clone", "exit"} THEN "begin" ELSE "get"
<1>2. /\ a2 \in {"begin", "get"} /\ ftCall' = [ftCall EXCEPT ![t] = c] /\ got' = [got EXCEPT ![t] = NoFile]
      /\ ftAt' = [ftAt EXCEPT ![t] = a2]
  BY <1>0
<1> HIDE DEF a2
<1>3. FtTypes /\ n \in Nat
  BY DEF FtInv, FtTypes
<1>4. /\ ftAt'[t] = a2 /\ ftCalls'[t] = n + 1
      /\ \A u \in F!FtTasks : u # t => /\ ftAt'[u] = ftAt[u] /\ ftCall'[u] = ftCall[u] /\ got'[u] = got[u]
                                       /\ ftCalls'[u] = ftCalls[u]
  BY <1>1, <1>2, <1>3 DEF FtTypes
<1> HIDE DEF n
<1>5. HoldInv'
  <2>1. ASSUME NEW u \in F!FtTasks PROVE HoldOk(u, ftAt'[u], ftCall'[u], file[got'[u]])
    <3>1. CASE u = t
      BY <1>2, <1>4, <3>1 DEF HoldOk, HoldPlaces
    <3>2. CASE u # t
      BY <1>4, <3>2 DEF WriteInv, HoldInv
    <3> QED
      BY <3>1, <3>2
  <2> QED
    BY <1>1, <2>1 DEF HoldInv, HoldOk, WriteInv
<1>6. TrailInv'
  <2>1. ASSUME NEW f \in OpenFiles, NEW u \in F!FtTasks
        PROVE  /\ NoneToCome(trail[f], u, ftCalls'[u])
               /\ ftAt'[u] \in Before => Lacks(trail[f], Mark(u, ftCalls'[u]))
    <3>1. /\ NoneToCome(trail[f], u, ftCalls[u])
          /\ ftAt[u] \in Before => Lacks(trail[f], Mark(u, ftCalls[u]))
      BY DEF WriteInv, TrailInv
    <3>2. CASE u = t
      <4>1. NoneToCome(trail[f], t, n)
        BY <3>1, <3>2 DEF n
      <4>2. \A m \in Nat : m <= n => m <= n + 1 /\ m # n + 1
        BY <1>3
      <4>3. NoneToCome(trail[f], t, n + 1)
        BY <4>1, <4>2 DEF NoneToCome
      <4>4. Lacks(trail[f], Mark(t, n + 1))
        <5>1. n + 1 \in Nat
          BY <1>3
        <5> QED
          BY <4>1, <4>2, <5>1 DEF NoneToCome, Lacks
      <4> QED
        BY <1>4, <3>2, <4>3, <4>4
    <3>3. CASE u # t
      BY <1>4, <3>1, <3>3
    <3> QED
      BY <3>2, <3>3
  <2>2. ASSUME NEW u \in F!FtTasks, ftAt'[u] \in InParts PROVE EndsWith(trail[got'[u]], Mark(u, ftCalls'[u]))
    <3>1. u # t
      BY <1>2, <1>4, <2>2 DEF InParts
    <3> QED
      BY <1>4, <2>2, <3>1 DEF WriteInv, TrailInv
  <2>3. trail \in [OpenFiles -> Seq(Nat) \cup {F!Moved}] /\ \A f \in OpenFiles : Contiguous(trail[f])
    BY DEF WriteInv, TrailInv
  <2> QED
    BY <1>1, <2>1, <2>2, <2>3 DEF TrailInv, NoneToCome, Lacks, EndsWith, Mark
<1>7. KeptInv'
  <2>1. ASSUME NEW u \in F!FtTasks, NEW f PROVE Writing(ftAt'[u], ftCall'[u], got'[u], f) <=> WritingOf(u, f)
    <3>1. CASE u = t
      BY <1>1, <1>2, <1>4, <3>1 DEF WritingOf, Writing
    <3>2. CASE u # t
      BY <1>4, <3>2 DEF WritingOf, Writing
    <3> QED
      BY <3>1, <3>2
  <2>2. ASSUME NEW u \in F!FtTasks, NEW f, WritingOf(u, f)
        PROVE  F!Payload(u, ftCall[u].moved)' = F!Payload(u, ftCall[u].moved)
    <3>1. u # t
      BY <1>1, <2>2 DEF WritingOf, Writing
    <3>2. ftCalls'[u] = ftCalls[u] /\ ftCall'[u] = ftCall[u]
      BY <1>4, <3>1
    <3> QED
      BY <3>2 DEF F!Payload
  <2> SUFFICES ASSUME NEW f \in OpenFiles, file[f].refs > 0, trail[f] # F!Moved
               PROVE  /\ file[f].offset = Len(trail[f])
                      /\ \A u \in F!FtTasks : Writing(ftAt'[u], ftCall'[u], got'[u], f)
                           => bytes = trail[f] \o F!Payload(u, ftCall[u].moved)'
                      /\ (\A u \in F!FtTasks : ~Writing(ftAt'[u], ftCall'[u], got'[u], f)) => bytes = trail[f]
    BY <1>1 DEF KeptInv, KeptOf, WritingOf
  <2>3. /\ file[f].offset = Len(trail[f])
        /\ \A u \in F!FtTasks : WritingOf(u, f) => bytes = trail[f] \o F!Payload(u, ftCall[u].moved)
        /\ (\A u \in F!FtTasks : ~WritingOf(u, f)) => bytes = trail[f]
    BY DEF WriteInv, KeptInv, KeptOf
  <2> QED
    BY <2>1, <2>2, <2>3
<1> QED
  BY <1>5, <1>6, <1>7 DEF WriteInv

(* Steps of a call that has a description in use, under its lock.          *)
LockStep(t, a2, c2) ==
  /\ ftAt[t] \in DataPlaces /\ ftAt' = [ftAt EXCEPT ![t] = a2] /\ ftCall' = [ftCall EXCEPT ![t] = c2]
  /\ got' = got /\ ftCalls' = ftCalls
  /\ ftAt[t] \in HoldPlaces \/ file[got[t]].owner = NoFile \/ file' = file
  /\ \A x \in OpenFiles : x # got[t] => file'[x] = file[x]
  /\ HoldOk(t, a2, c2, file'[got[t]])
  /\ file'[got[t]].owner = NoFile => file'[got[t]].depth = 0
  /\ a2 \in Before => ftAt[t] \in Before
  /\ a2 \in InParts => ftAt[t] \in InParts \cup Before

(* What such a step leaves alone: the other holders, who hold another      *)
(* description.                                                            *)
LEMMA LockApart ==
  ASSUME FtParameters, FtInv, WriteInv, NEW t \in F!FtTasks, NEW a2, NEW c2, LockStep(t, a2, c2)
  PROVE  /\ got[t] \in OpenFiles /\ ftAt'[t] = a2 /\ ftCall'[t] = c2
         /\ \A u \in F!FtTasks : u # t => ftAt'[u] = ftAt[u] /\ ftCall'[u] = ftCall[u]
         /\ \A u \in F!FtTasks : u # t /\ ftAt[u] \in HoldPlaces => file'[got[u]] = file[got[u]]
         /\ \A u \in F!FtTasks : u # t /\ ftAt[u] \in HoldPlaces /\ ftAt[t] \in HoldPlaces => got[u] # got[t]
<1>1. got[t] \in OpenFiles
  BY Using DEF LockStep
<1>2. /\ ftAt'[t] = a2 /\ ftCall'[t] = c2
      /\ \A u \in F!FtTasks : u # t => ftAt'[u] = ftAt[u] /\ ftCall'[u] = ftCall[u]
  BY DEF LockStep, FtInv, FtTypes
<1>3. ASSUME NEW u \in F!FtTasks, ftAt[u] \in HoldPlaces
      PROVE  file[got[u]].owner = u /\ got[u] \in OpenFiles /\ u # NoFile
  <2>1. got[u] \in OpenFiles
    BY <1>3, Using DEF HoldPlaces, DataPlaces
  <2>2. file[got[u]].owner = u
    BY <1>3 DEF WriteInv, HoldInv, HoldOk
  <2> QED
    BY <2>1, <2>2 DEF FtParameters, F!FtTasks
<1>4. ASSUME NEW u \in F!FtTasks, u # t, ftAt[u] \in HoldPlaces PROVE file'[got[u]] = file[got[u]]
  <2>1. CASE file' = file
    BY <2>1
  <2>2. CASE ftAt[t] \in HoldPlaces \/ file[got[t]].owner = NoFile
    <3>1. got[u] # got[t]
      BY <1>3, <1>4, <2>2
    <3> QED
      BY <1>3, <1>4, <3>1 DEF LockStep
  <2> QED
    BY <2>1, <2>2 DEF LockStep
<1> QED
  BY <1>1, <1>2, <1>3, <1>4

(* Such a step keeps what is known of the locks.                           *)
LEMMA StepHold ==
  ASSUME FtParameters, FtInv, WriteInv, NEW t \in F!FtTasks, NEW a2, NEW c2, LockStep(t, a2, c2)
  PROVE  HoldInv'
<1>1. /\ got[t] \in OpenFiles /\ ftAt'[t] = a2 /\ ftCall'[t] = c2
      /\ \A u \in F!FtTasks : u # t => ftAt'[u] = ftAt[u] /\ ftCall'[u] = ftCall[u]
      /\ \A u \in F!FtTasks : u # t /\ ftAt[u] \in HoldPlaces => file'[got[u]] = file[got[u]]
  BY LockApart
<1>2. ASSUME NEW u \in F!FtTasks PROVE HoldOk(u, ftAt'[u], ftCall'[u], file'[got[u]])
  <2>1. CASE u = t
    BY <1>1, <2>1 DEF LockStep
  <2>2. CASE u # t
    <3>1. HoldOk(u, ftAt[u], ftCall[u], file[got[u]])
      BY DEF WriteInv, HoldInv
    <3> QED
      BY <1>1, <2>2, <3>1 DEF HoldOk
  <2> QED
    BY <2>1, <2>2
<1>3. ASSUME NEW f \in OpenFiles, file'[f].owner = NoFile PROVE file'[f].depth = 0
  BY <1>3 DEF LockStep, WriteInv, HoldInv
<1> QED
  BY <1>2, <1>3 DEF HoldInv, HoldOk, LockStep

(* And of the trails, when it appends nothing.                             *)
LEMMA StepHoldTrail ==
  ASSUME FtParameters, FtInv, WriteInv, NEW t \in F!FtTasks, NEW a2, NEW c2, LockStep(t, a2, c2),
         trail' \in [OpenFiles -> Seq(Nat) \cup {F!Moved}],
         \A f \in OpenFiles : trail'[f] = trail[f] \/ trail'[f] \in {<<>>, F!Moved}
  PROVE  TrailInv'
<1>1. /\ got[t] \in OpenFiles /\ ftAt'[t] = a2
      /\ \A u \in F!FtTasks : u # t => ftAt'[u] = ftAt[u]
  BY LockApart
<1>2. ASSUME NEW u \in F!FtTasks, ftAt'[u] \in InParts
      PROVE  ftAt[u] \in InParts \cup Before /\ got[u] \in OpenFiles
  <2>1. CASE u = t
    BY <1>1, <1>2, <2>1 DEF LockStep
  <2>2. CASE u # t
    <3>1. ftAt[u] \in InParts /\ ftAt[u] \in DataPlaces
      BY <1>1, <1>2, <2>2 DEF InParts, DataPlaces
    <3> QED
      BY <3>1, Using
  <2> QED
    BY <2>1, <2>2
<1>3. ASSUME NEW u \in F!FtTasks, ftAt'[u] \in Before PROVE ftAt[u] \in Before
  BY <1>1, <1>3 DEF LockStep
<1>4. TrailStep
  BY <1>2, <1>3 DEF TrailStep, LockStep
<1> QED
  BY <1>4, StepTrail DEF FtInv, WriteInv

(* And of the content, of a description it does not touch.                 *)
LEMMA StepHoldOthers ==
  ASSUME FtParameters, FtInv, WriteInv, NEW t \in F!FtTasks, NEW a2, NEW c2, LockStep(t, a2, c2),
         bytes' = bytes, NEW f \in OpenFiles, trail'[f] = trail[f],
         file'[f].refs = file[f].refs, file'[f].offset = file[f].offset,
         ~WritingOf(t, f), ~Writing(a2, c2, got[t], f)
  PROVE  KeptOf(f)'
<1>1. /\ ftAt'[t] = a2 /\ ftCall'[t] = c2
      /\ \A u \in F!FtTasks : u # t => ftAt'[u] = ftAt[u] /\ ftCall'[u] = ftCall[u]
  BY LockApart
<1>2. ASSUME NEW u \in F!FtTasks
      PROVE  /\ Writing(ftAt'[u], ftCall'[u], got[u], f) <=> WritingOf(u, f)
             /\ WritingOf(u, f) => ftCall'[u] = ftCall[u]
  <2>1. CASE u = t
    BY <1>1, <2>1
  <2>2. CASE u # t
    BY <1>1, <2>2 DEF WritingOf, Writing
  <2> QED
    BY <2>1, <2>2
<1>3. got' = got /\ ftCalls' = ftCalls
  BY DEF LockStep
<1> SUFFICES ASSUME file[f].refs > 0, trail[f] # F!Moved
             PROVE  /\ file[f].offset = Len(trail[f])
                    /\ \A u \in F!FtTasks : Writing(ftAt'[u], ftCall'[u], got[u], f)
                         => bytes = trail[f] \o F!Payload(u, ftCall'[u].moved)
                    /\ (\A u \in F!FtTasks : ~Writing(ftAt'[u], ftCall'[u], got[u], f)) => bytes = trail[f]
  BY <1>3 DEF KeptOf, WritingOf, F!Payload
<1>4. /\ file[f].offset = Len(trail[f])
      /\ \A u \in F!FtTasks : WritingOf(u, f) => bytes = trail[f] \o F!Payload(u, ftCall[u].moved)
      /\ (\A u \in F!FtTasks : ~WritingOf(u, f)) => bytes = trail[f]
  BY DEF WriteInv, KeptInv, KeptOf
<1> QED
  BY <1>2, <1>4

(* Steps that neither write nor move an offset.                            *)
LEMMA StepHoldQuiet ==
  ASSUME FtParameters, FtInv, WriteInv, NEW t \in F!FtTasks, NEW a2, NEW c2, LockStep(t, a2, c2),
         bytes' = bytes, trail' = trail,
         \A f \in OpenFiles : file'[f].refs = file[f].refs /\ file'[f].offset = file[f].offset,
         \A f \in OpenFiles : ~WritingOf(t, f) /\ ~Writing(a2, c2, got[t], f)
  PROVE  WriteInv'
<1>1. HoldInv'
  BY StepHold
<1>2. TrailInv'
  <2>1. trail' \in [OpenFiles -> Seq(Nat) \cup {F!Moved}]
    BY DEF WriteInv, TrailInv
  <2> QED
    BY <2>1, StepHoldTrail
<1>3. ASSUME NEW f \in OpenFiles PROVE KeptOf(f)'
  BY StepHoldOthers
<1>4. KeptInv'
  BY <1>3 DEF KeptInv
<1> QED
  BY <1>1, <1>2, <1>4 DEF WriteInv

(* The lock is taken: nobody held it.                                      *)
LEMMA KeptByLockOffset ==
  ASSUME FtParameters, FtInv, WriteInv, NEW t \in F!FtTasks, F!LockOffset(t)
  PROVE  WriteInv'
<1> DEFINE c == ftCall[t]
           f == got[t]
           a2 == CASE F!Vectored(t) -> "part"
                   [] c.op \in {"read", "write"} -> "transfer"
                   [] OTHER -> "seek"
           g == file'
<1>1. /\ ftAt[t] = "lock" /\ file[f].owner = NoFile /\ got' = got /\ trail' = trail
      /\ ftCall' = ftCall /\ ftCalls' = ftCalls /\ bytes' = bytes /\ ftAt' = [ftAt EXCEPT ![t] = a2]
  BY DEF F!LockOffset, F!FtGoto
<1>2. g = F!Locked(f, t)
  BY DEF F!LockOffset
<1>3. ftAt[t] \in DataPlaces
  BY <1>1 DEF DataPlaces
<1>4. f \in OpenFiles /\ FtTypes /\ ftCall = [ftCall EXCEPT ![t] = c]
  BY <1>3, DataUse
<1>5. a2 \in {"part", "transfer", "seek"} /\ (a2 = "transfer" => c.op \in {"read", "write"})
  BY DEF F!Vectored
<1> HIDE DEF a2, g
<1>6. /\ \A x \in OpenFiles : x # f => g[x] = file[x]
      /\ g[f].refs = file[f].refs /\ g[f].offset = file[f].offset
      /\ g[f].owner = t /\ g[f].depth = file[f].depth + 1
  BY <1>2, <1>4, LockedFile
<1>7. g[f].depth = 1 /\ t # NoFile
  BY <1>1, <1>4, <1>6 DEF WriteInv, HoldInv, FtParameters, F!FtTasks
<1>8. Deep(a2, c) = 1
  BY <1>5 DEF Deep
<1>9. LockStep(t, a2, c)
  BY <1>1, <1>3, <1>4, <1>5, <1>6, <1>7, <1>8 DEF LockStep, HoldOk, Before, InParts, g
<1>10. \A x \in OpenFiles : g[x].refs = file[x].refs /\ g[x].offset = file[x].offset
  BY <1>4, <1>6
<1>11. \A x \in OpenFiles : ~WritingOf(t, x) /\ ~Writing(a2, c, got[t], x)
  BY <1>1, <1>5 DEF WritingOf, Writing
<1> QED
  BY <1>1, <1>9, <1>10, <1>11, StepHoldQuiet DEF g

(* The parts of a vector.                                                  *)
LEMMA KeptByPart ==
  ASSUME FtParameters, FtInv, WriteInv, NEW t \in F!FtTasks, F!Part(t)
  PROVE  WriteInv'
<1> DEFINE c == ftCall[t]
           f == got[t]
           g == file'
<1>1. /\ ftAt[t] = "part" /\ got' = got /\ trail' = trail
      /\ ftCall' = ftCall /\ ftCalls' = ftCalls /\ bytes' = bytes
  BY DEF F!Part
<1>2. ftAt[t] \in DataPlaces /\ ftAt[t] \in HoldPlaces
  BY <1>1 DEF DataPlaces, HoldPlaces
<1>3. f \in OpenFiles /\ FtTypes /\ ftCall = [ftCall EXCEPT ![t] = c] /\ PlaceOk("part", c)
  BY <1>1, <1>2, DataUse
<1>4. file[f].owner = t /\ file[f].depth = 1 /\ c.op \in {"readv", "writev"}
  <2>1. HoldOk(t, ftAt[t], c, file[f])
    BY DEF WriteInv, HoldInv
  <2> QED
    BY <1>1, <1>3, <2>1 DEF HoldOk, HoldPlaces, Deep, PlaceOk
<1>5. t # NoFile
  BY DEF FtParameters, F!FtTasks
<1>6. CASE g = F!Locked(f, t) /\ ftAt' = [ftAt EXCEPT ![t] = "transfer"]
  <2> HIDE DEF g
  <2>1. /\ \A x \in OpenFiles : x # f => g[x] = file[x]
        /\ g[f].refs = file[f].refs /\ g[f].offset = file[f].offset
        /\ g[f].owner = t /\ g[f].depth = file[f].depth + 1
    BY <1>3, <1>6, LockedFile
  <2>2. g[f].depth = 2 /\ Deep("transfer", c) = 2
    BY <1>4, <2>1 DEF Deep
  <2>3. LockStep(t, "transfer", c)
    BY <1>1, <1>2, <1>3, <1>5, <1>6, <2>1, <2>2 DEF LockStep, HoldOk, Before, InParts, g
  <2>4. \A x \in OpenFiles : g[x].refs = file[x].refs /\ g[x].offset = file[x].offset
    BY <1>3, <2>1
  <2>5. \A x \in OpenFiles : ~WritingOf(t, x) /\ ~Writing("transfer", c, got[t], x)
    BY <1>1 DEF WritingOf, Writing
  <2> QED
    BY <1>1, <2>3, <2>4, <2>5, StepHoldQuiet DEF g
<1>7. CASE g = F!Unlocked(f) /\ ftAt' = [ftAt EXCEPT ![t] = "user"]
  <2> HIDE DEF g
  <2>1. /\ \A x \in OpenFiles : x # f => g[x] = file[x]
        /\ g[f].refs = file[f].refs /\ g[f].offset = file[f].offset
        /\ g[f].depth = file[f].depth - 1
    BY <1>3, <1>7, UnlockedFile
  <2>2. g[f].depth = 0
    BY <1>4, <2>1
  <2>3. LockStep(t, "user", c)
    BY <1>1, <1>2, <1>3, <1>7, <2>1, <2>2 DEF LockStep, HoldOk, HoldPlaces, Before, InParts, g
  <2>4. \A x \in OpenFiles : g[x].refs = file[x].refs /\ g[x].offset = file[x].offset
    BY <1>3, <2>1
  <2>5. \A x \in OpenFiles : ~WritingOf(t, x) /\ ~Writing("user", c, got[t], x)
    BY <1>1 DEF WritingOf, Writing
  <2> QED
    BY <1>1, <2>3, <2>4, <2>5, StepHoldQuiet DEF g
<1> QED
  BY <1>6, <1>7 DEF F!Part, F!FtGoto, F!FtReturn

(* pwrite and ftruncate: what was written through the descriptions is not  *)
(* the file any more.                                                      *)
LEMMA KeptByMoved ==
  ASSUME FtParameters, FtInv, WriteInv, NEW t \in F!FtTasks, F!PwriteAt(t) \/ F!Ftruncate(t)
  PROVE  WriteInv'
<1>1. /\ ftAt[t] \in {"pwrite", "ftruncate"} /\ got' = got /\ ftCalls' = ftCalls /\ file' = file
      /\ ftCall' = ftCall /\ ftAt' = [ftAt EXCEPT ![t] = "user"] /\ trail' = [f \in OpenFiles |-> F!Moved]
  BY DEF F!PwriteAt, F!Ftruncate, F!FtReturn, F!FtGoto
<1>2. ftAt[t] \in DataPlaces
  BY <1>1 DEF DataPlaces
<1>3. got[t] \in OpenFiles /\ ftCall = [ftCall EXCEPT ![t] = ftCall[t]]
  BY <1>2, DataUse
<1>4. file[got[t]].owner = NoFile => file[got[t]].depth = 0
  BY <1>3 DEF WriteInv, HoldInv
<1>5. LockStep(t, "user", ftCall[t])
  BY <1>1, <1>2, <1>3, <1>4 DEF LockStep, HoldOk, HoldPlaces, Before, InParts
<1>6. HoldInv'
  BY <1>5, StepHold
<1>7. TrailInv'
  BY <1>1, <1>5, StepHoldTrail
<1>8. KeptInv'
  BY <1>1 DEF KeptInv, KeptOf
<1> QED
  BY <1>6, <1>7, <1>8 DEF WriteInv

(* lseek                                                                   *)
LEMMA KeptBySeek ==
  ASSUME FtParameters, FtInv, WriteInv, NEW t \in F!FtTasks, F!SeekStat(t) \/ F!Seek(t)
  PROVE  WriteInv'
<1>1. CASE F!SeekStat(t)
  <2>1. /\ ftAt[t] = "stat" /\ ftAt' = [ftAt EXCEPT ![t] = "lock"] /\ file' = file /\ got' = got
        /\ UNCHANGED <<ftCalls, trail, bytes>>
        /\ \A u \in F!FtTasks : u # t => ftCall'[u] = ftCall[u]
    BY <1>1 DEF F!SeekStat, F!FtGoto, FtInv, FtTypes
  <2>2. CalmMove(t, "lock")
    BY <2>1 DEF CalmMove, HoldPlaces, Before
  <2> QED
    BY <2>1, <2>2, MoveStill
<1>2. CASE F!Seek(t)
  <2> DEFINE c == ftCall[t]
             f == got[t]
             to == c.offset + IF c.op = "lseek_cur" THEN file[f].offset ELSE 0
             u == F!Unlocked(f)
             g == file'
  <2>1. /\ ftAt[t] = "seek" /\ got' = got /\ ftCalls' = ftCalls /\ ftCall' = ftCall /\ bytes' = bytes
        /\ ftAt' = [ftAt EXCEPT ![t] = "user"]
    BY <1>2 DEF F!Seek, F!FtReturn, F!FtGoto
  <2>2. ftAt[t] \in DataPlaces /\ ftAt[t] \in HoldPlaces
    BY <2>1 DEF DataPlaces, HoldPlaces
  <2>3. f \in OpenFiles /\ FtTypes /\ ftCall = [ftCall EXCEPT ![t] = c]
    BY <2>2, DataUse
  <2>4. file[f].depth = 1
    <3>1. HoldOk(t, ftAt[t], c, file[f])
      BY DEF WriteInv, HoldInv
    <3> QED
      BY <2>1, <3>1 DEF HoldOk, HoldPlaces, Deep
  <2>5. /\ u \in [OpenFiles -> Descriptions] /\ \A x \in OpenFiles : x # f => u[x] = file[x]
        /\ u[f].refs = file[f].refs /\ u[f].offset = file[f].offset /\ u[f].depth = file[f].depth - 1
    BY <2>3, UnlockedFile
  <2>6. u[f].depth = 0
    BY <2>4, <2>5
  <2>7. \A x \in OpenFiles : ~WritingOf(t, x) /\ ~Writing("user", c, got[t], x)
    BY <2>1 DEF WritingOf, Writing
  <2>8. CASE g = u /\ trail' = trail
    <3> HIDE DEF u, g
    <3>1. LockStep(t, "user", c)
      BY <2>1, <2>2, <2>3, <2>5, <2>6, <2>8 DEF LockStep, HoldOk, HoldPlaces, Before, InParts, g
    <3>2. \A x \in OpenFiles : g[x].refs = file[x].refs /\ g[x].offset = file[x].offset
      BY <2>3, <2>5, <2>8
    <3> QED
      BY <2>1, <2>7, <2>8, <3>1, <3>2, StepHoldQuiet DEF g
  <2>9. CASE g = [u EXCEPT ![f].offset = to] /\ trail' = [trail EXCEPT ![f] = F!Moved]
    <3> HIDE DEF u, g, to
    <3>1. g[f].depth = 0 /\ \A x \in OpenFiles : x # f => g[x] = u[x]
      BY <2>3, <2>5, <2>6, <2>9 DEF Descriptions
    <3>2. LockStep(t, "user", c)
      BY <2>1, <2>2, <2>3, <2>5, <3>1 DEF LockStep, HoldOk, HoldPlaces, Before, InParts, g
    <3>3. trail \in [OpenFiles -> Seq(Nat) \cup {F!Moved}]
      BY DEF WriteInv, TrailInv
    <3>4. /\ trail' \in [OpenFiles -> Seq(Nat) \cup {F!Moved}] /\ trail'[f] = F!Moved
          /\ \A x \in OpenFiles : x # f => trail'[x] = trail[x]
      BY <2>3, <2>9, <3>3
    <3>5. HoldInv'
      BY <3>2, StepHold
    <3>6. TrailInv'
      BY <3>2, <3>4, StepHoldTrail
    <3>7. ASSUME NEW x \in OpenFiles PROVE KeptOf(x)'
      <4>1. CASE x = f
        BY <3>4, <4>1 DEF KeptOf
      <4>2. CASE x # f
        <5>1. file'[x] = file[x] /\ trail'[x] = trail[x]
          BY <2>5, <3>1, <3>4, <4>2 DEF g
        <5> QED
          BY <2>1, <2>7, <3>2, <5>1, StepHoldOthers
      <4> QED
        BY <4>1, <4>2
    <3> QED
      BY <3>5, <3>6, <3>7 DEF WriteInv, KeptInv
  <2> QED
    BY <1>2, <2>8, <2>9 DEF F!Seek
<1> QED
  BY <1>1, <1>2

(* A part is written: behind what was written through the description, or  *)
(* somewhere else when its offset was moved.  Every other description's    *)
(* trail ends here.                                                        *)
LEMMA KeptByTransfer ==
  ASSUME FtParameters, FtInv, WriteInv, NEW t \in F!FtTasks, F!Transfer(t)
  PROVE  WriteInv'
<1> DEFINE c == ftCall[t]
           f == got[t]
           n == Head(c.parts)
           p == F!Payload(t, n)
           off == file[f].offset
<1>1. ftAt[t] = "transfer" /\ got' = got /\ ftCalls' = ftCalls
  BY DEF F!Transfer
<1>2. ftAt[t] \in DataPlaces /\ ftAt[t] \in HoldPlaces /\ ftAt[t] \in {"transfer", "advance"}
  BY <1>1 DEF DataPlaces, HoldPlaces
<1>3. /\ f \in OpenFiles /\ FtTypes /\ VecOk(vec, bytes) /\ PlaceOk("transfer", c)
      /\ ftCall = [ftCall EXCEPT ![t] = c] /\ file \in [OpenFiles -> Descriptions] /\ CallOk(c)
  BY <1>1, <1>2, DataUse
<1>4. n \in Nat
  <2>1. c.op \in Transfers /\ c.parts # <<>>
    BY <1>3 DEF PlaceOk
  <2>2. c.parts \in Seq(Nat)
    BY <1>3, <2>1 DEF CallOk
  <2> QED
    BY <2>1, <2>2
<1>5. HoldOk(t, "transfer", c, file[f]) /\ t # NoFile
  BY <1>1 DEF WriteInv, HoldInv, FtParameters, F!FtTasks
<1>6. file[f].owner = t /\ file[f].depth = Deep("transfer", c)
  BY <1>5 DEF HoldOk, HoldPlaces
<1>7. \A x \in OpenFiles : ~WritingOf(t, x)
  BY <1>1 DEF WritingOf, Writing
<1>8. ASSUME NEW k \in Nat, file' = file, ftCall' = [ftCall EXCEPT ![t].moved = k],
             ftAt' = [ftAt EXCEPT ![t] = "advance"]
      PROVE  LockStep(t, "advance", [c EXCEPT !.moved = k])
  <2> DEFINE c2 == [c EXCEPT !.moved = k]
  <2>1. MovedOk(t, k, c2)
    BY <1>2, MovedCall
  <2>2. c2.op = c.op /\ ftCall' = [ftCall EXCEPT ![t] = c2]
    BY <1>8, <2>1 DEF MovedOk
  <2> HIDE DEF c2
  <2>3. HoldOk(t, "advance", c2, file[f])
    BY <1>6, <2>2 DEF HoldOk, HoldPlaces, Deep
  <2>4. LockStep(t, "advance", c2)
    BY <1>1, <1>2, <1>5, <1>6, <1>8, <2>2, <2>3 DEF LockStep, Before, InParts
  <2> QED
    BY <2>4 DEF c2
<1>9. CASE F!Writes(t) /\ bytes' = F!Overwritten(bytes, p, off)
           /\ trail' = [g \in OpenFiles |-> IF g = f THEN trail[f] ELSE F!Moved]
           /\ ftCall' = [ftCall EXCEPT ![t].moved = n] /\ ftAt' = [ftAt EXCEPT ![t] = "advance"] /\ file' = file
  <2> DEFINE c2 == [c EXCEPT !.moved = n]
  <2> HIDE DEF n
  <2>1. LockStep(t, "advance", c2)
    BY <1>4, <1>8, <1>9
  <2>2. c2.moved = n /\ c2.op = c.op
    <3>1. MovedOk(t, n, c2)
      BY <1>2, <1>4, MovedCall
    <3> QED
      BY <3>1 DEF MovedOk
  <2> HIDE DEF c2
  <2>3. trail \in [OpenFiles -> Seq(Nat) \cup {F!Moved}]
    BY DEF WriteInv, TrailInv
  <2>4. /\ trail' \in [OpenFiles -> Seq(Nat) \cup {F!Moved}] /\ trail'[f] = trail[f]
        /\ \A x \in OpenFiles : x # f => trail'[x] = F!Moved
    BY <1>3, <1>9, <2>3
  <2>5. HoldInv'
    BY <2>1, StepHold
  <2>6. TrailInv'
    BY <2>1, <2>4, StepHoldTrail
  <2>7. /\ ftAt'[t] = "advance" /\ ftCall'[t] = c2
        /\ \A u \in F!FtTasks : u # t => ftAt'[u] = ftAt[u] /\ ftCall'[u] = ftCall[u]
        /\ \A u \in F!FtTasks : u # t /\ ftAt[u] \in HoldPlaces => got[u] # f
    BY <1>2, <2>1, LockApart
  <2>8. \A u \in F!FtTasks : ~WritingOf(u, f)
    BY <1>3, <1>7, <2>7 DEF WritingOf, Writing, HoldPlaces
  <2>9. \A u \in F!FtTasks : Writing(ftAt'[u], ftCall'[u], got[u], f) <=> u = t
    <3>1. Writing(ftAt'[t], ftCall'[t], got[t], f)
      BY <1>9, <2>2, <2>7 DEF Writing, F!Writes
    <3>2. \A u \in F!FtTasks : u # t => ~Writing(ftAt'[u], ftCall'[u], got[u], f)
      BY <2>7, <2>8 DEF WritingOf
    <3> QED
      BY <3>1, <3>2
  <2>10. ASSUME NEW x \in OpenFiles, x = f PROVE KeptOf(x)'
    <3>1. ASSUME file[f].refs > 0, trail[f] # F!Moved
          PROVE  /\ off = Len(trail[f])
                 /\ \A u \in F!FtTasks : Writing(ftAt'[u], ftCall'[u], got[u], f)
                      => bytes' = trail[f] \o F!Payload(u, ftCall'[u].moved)
                 /\ \E u \in F!FtTasks : Writing(ftAt'[u], ftCall'[u], got[u], f)
      <4>1. off = Len(trail[f]) /\ bytes = trail[f]
        BY <1>3, <2>8, <3>1 DEF WriteInv, KeptInv, KeptOf
      <4>2. bytes \in Seq(Nat) /\ p \in Seq(Nat)
        BY <1>3, <1>4, PayloadSeq DEF VecOk
      <4>3. F!Overwritten(bytes, p, Len(bytes)) = bytes \o p
        BY <4>2, WrittenAtEnd
      <4>4. bytes' = trail[f] \o p
        BY <1>9, <4>1, <4>3
      <4>5. p = F!Payload(t, ftCall'[t].moved)
        BY <2>2, <2>7
      <4> HIDE DEF p, off
      <4> QED
        BY <2>9, <4>1, <4>4, <4>5
    <3>2. file'[x] = file[f] /\ trail'[x] = trail[f] /\ off = file[f].offset
      BY <1>9, <2>4, <2>10
    <3> HIDE DEF f, p, off
    <3>3. ASSUME file'[x].refs > 0, trail'[x] # F!Moved
          PROVE  /\ file'[x].offset = Len(trail'[x])
                 /\ \A u \in F!FtTasks : Writing(ftAt'[u], ftCall'[u], got[u], x)
                      => bytes' = trail'[x] \o F!Payload(u, ftCall'[u].moved)
                 /\ \E u \in F!FtTasks : Writing(ftAt'[u], ftCall'[u], got[u], x)
      BY <2>10, <3>1, <3>2, <3>3
    <3> QED
      BY <1>1, <3>3 DEF KeptOf, WritingOf, F!Payload
  <2>11. ASSUME NEW x \in OpenFiles, x # f PROVE KeptOf(x)'
    BY <2>4, <2>11 DEF KeptOf
  <2> QED
    <3>1. \A x \in OpenFiles : KeptOf(x)'
      BY <2>10, <2>11
    <3> QED
      BY <2>5, <2>6, <3>1 DEF WriteInv, KeptInv
<1>10. CASE file' = [file EXCEPT ![f].depth = 0, ![f].owner = NoFile] /\ ftAt' = [ftAt EXCEPT ![t] = "user"]
           /\ bytes' = bytes /\ trail' = trail /\ ftCall' = ftCall
  <2> DEFINE m == [file EXCEPT ![f].depth = 0]
             g == file'
  <2>1. /\ m \in [OpenFiles -> Descriptions] /\ m[f].refs = file[f].refs /\ m[f].offset = file[f].offset
        /\ m[f].depth = 0 /\ \A x \in OpenFiles : x # f => m[x] = file[x]
    BY <1>3 DEF Descriptions
  <2>2. g = [m EXCEPT ![f].owner = NoFile]
    BY <1>10
  <2> HIDE DEF m, g
  <2>3. /\ g[f].refs = file[f].refs /\ g[f].offset = file[f].offset /\ g[f].depth = 0
        /\ \A x \in OpenFiles : x # f => g[x] = file[x]
    BY <1>3, <2>1, <2>2 DEF Descriptions
  <2>4. LockStep(t, "user", c)
    BY <1>1, <1>2, <1>3, <1>10, <2>3 DEF LockStep, HoldOk, HoldPlaces, Before, InParts, g
  <2>5. \A x \in OpenFiles : g[x].refs = file[x].refs /\ g[x].offset = file[x].offset
    BY <1>3, <2>3
  <2>6. \A x \in OpenFiles : ~Writing("user", c, got[t], x)
    BY DEF Writing
  <2> QED
    BY <1>7, <1>10, <2>4, <2>5, <2>6, StepHoldQuiet DEF g
<1>11. CASE ~F!Writes(t) /\ ftCall' = [ftCall EXCEPT ![t].moved = F!PreadCount(vec, n, off)]
            /\ ftAt' = [ftAt EXCEPT ![t] = "advance"] /\ file' = file /\ bytes' = bytes /\ trail' = trail
  <2> DEFINE k == F!PreadCount(vec, n, off)
             c2 == [c EXCEPT !.moved = k]
  <2>1. k \in Nat
    <3>1. off \in Nat
      BY <1>3 DEF Descriptions
    <3> HIDE DEF n
    <3> QED
      BY <1>3, <1>4, <3>1, ReadCount
  <2>2. ftCall' = [ftCall EXCEPT ![t].moved = k]
    BY <1>11
  <2> HIDE DEF k
  <2>3. LockStep(t, "advance", c2)
    BY <1>8, <1>11, <2>1, <2>2
  <2>4. c2.op = c.op
    <3>1. MovedOk(t, k, c2)
      BY <1>2, <2>1, MovedCall
    <3> QED
      BY <3>1 DEF MovedOk
  <2> HIDE DEF c2
  <2>5. \A x \in OpenFiles : ~Writing("advance", c2, got[t], x)
    BY <1>11, <2>4 DEF Writing, F!Writes
  <2> QED
    BY <1>7, <1>11, <2>3, <2>5, StepHoldQuiet
<1> QED
  BY <1>9, <1>10, <1>11 DEF F!Transfer, F!FtGoto, F!FtReturn

(* The offset advances over what was written, and the trail with it.       *)
LEMMA KeptByAdvance ==
  ASSUME FtParameters, FtInv, WriteInv, NEW t \in F!FtTasks, F!Advance(t)
  PROVE  WriteInv'
<1> DEFINE c == ftCall[t]
           f == got[t]
           n == c.moved
           left == Head(c.parts) - n
           p2 == IF left = 0 \/ n = 0 THEN Tail(c.parts) ELSE <<left>> \o Tail(c.parts)
           c2 == [c EXCEPT !.parts = p2]
           a2 == IF F!Vectored(t) THEN "part" ELSE "user"
           u == F!Unlocked(f)
           g == file'
           p == F!Payload(t, n)
           w == Mark(t, ftCalls[t])
           s == trail[f]
           s2 == CASE s = F!Moved \/ n = 0 -> s
                   [] ~F!Writes(t) -> F!Moved
                   [] OTHER -> s \o p
<1>1. /\ ftAt[t] = "advance" /\ got' = got /\ ftCalls' = ftCalls /\ bytes' = bytes
      /\ ftAt' = [ftAt EXCEPT ![t] = a2] /\ ftCall' = [ftCall EXCEPT ![t].parts = p2]
      /\ g = [u EXCEPT ![f].offset = u[f].offset + n] /\ trail' = [trail EXCEPT ![f] = s2]
  BY DEF F!Advance, F!FtGoto
<1>2. ftAt[t] \in DataPlaces /\ ftAt[t] \in HoldPlaces /\ ftAt[t] \in InParts
  BY <1>1 DEF DataPlaces, HoldPlaces, InParts
<1>3. /\ f \in OpenFiles /\ FtTypes /\ PlaceOk("advance", c) /\ CallOk(c) /\ VecOk(vec, bytes)
  BY <1>1, <1>2, DataUse
<1>4. c \in [op : Transfers, fd : F!Fds, parts : Seq(Nat), moved : Nat]
  <2>1. c.op \in Transfers
    BY <1>3 DEF PlaceOk
  <2> QED
    BY <1>3, <2>1 DEF CallOk
<1>5. n \in Nat /\ c2.op = c.op /\ ftCall' = [ftCall EXCEPT ![t] = c2]
  <2>1. n \in Nat
    BY <1>4
  <2>2. ftCall' = [ftCall EXCEPT ![t] = c2]
    BY <1>1
  <2> HIDE DEF p2
  <2>3. c2.op = c.op
    BY <1>4
  <2> QED
    BY <2>1, <2>2, <2>3
<1>6. HoldOk(t, "advance", c, file[f]) /\ t # NoFile
  BY <1>1 DEF WriteInv, HoldInv, FtParameters, F!FtTasks
<1>7. file[f].owner = t /\ file[f].depth = (IF F!Vectored(t) THEN 2 ELSE 1)
  BY <1>6 DEF HoldOk, HoldPlaces, Deep, F!Vectored
<1>8. /\ u \in [OpenFiles -> Descriptions] /\ \A x \in OpenFiles : x # f => u[x] = file[x]
      /\ u[f].refs = file[f].refs /\ u[f].offset = file[f].offset
      /\ u[f].depth = file[f].depth - 1
      /\ u[f].owner = (IF file[f].depth = 1 THEN NoFile ELSE file[f].owner)
  BY <1>3, UnlockedFile
<1> HIDE DEF u, g, n, c2, s2
<1>9. /\ \A x \in OpenFiles : x # f => g[x] = file[x]
      /\ g[f].refs = file[f].refs /\ g[f].offset = file[f].offset + n
      /\ g[f].depth = u[f].depth /\ g[f].owner = u[f].owner
  BY <1>1, <1>3, <1>8 DEF Descriptions
<1>10. HoldOk(t, a2, c2, g[f]) /\ (g[f].owner = NoFile => g[f].depth = 0)
  <2>1. CASE F!Vectored(t)
    <3>1. a2 = "part" /\ g[f].owner = t /\ g[f].depth = 1
      BY <1>7, <1>8, <1>9, <2>1
    <3> QED
      BY <1>6, <3>1 DEF HoldOk, Deep
  <2>2. CASE ~F!Vectored(t)
    <3>1. a2 = "user" /\ g[f].depth = 0
      BY <1>7, <1>8, <1>9, <2>2
    <3> QED
      BY <3>1 DEF HoldOk, HoldPlaces
  <2> QED
    BY <2>1, <2>2
<1>11. a2 \in {"part", "user"}
  OBVIOUS
<1> HIDE DEF a2
<1>12. LockStep(t, a2, c2)
  BY <1>1, <1>2, <1>5, <1>9, <1>10, <1>11 DEF LockStep, Before, g
<1>13. HoldInv'
  BY <1>12, StepHold
<1>14. /\ trail \in [OpenFiles -> Seq(Nat) \cup {F!Moved}] /\ Contiguous(s) /\ EndsWith(s, w)
       /\ ftCalls[t] \in Nat /\ w \in Nat
  <2>1. ftCalls[t] \in Nat
    BY <1>3 DEF FtTypes
  <2> QED
    BY <1>2, <1>3, <2>1, Marks DEF WriteInv, TrailInv
<1>15. p \in Seq(Nat) /\ Len(p) = n /\ \A k \in 1..n : p[k] = w
  BY <1>3, <1>5, PayloadSeq DEF Mark
<1>16. /\ \A x \in OpenFiles : x # f => trail'[x] = trail[x]
       /\ trail'[f] = s2
  BY <1>1, <1>3, <1>14
<1>17. s # F!Moved => s \in Seq(Nat)
  BY <1>3, <1>14
<1>18. CASE s = F!Moved \/ n = 0 \/ ~F!Writes(t)
  <2>1. s2 = s \/ s2 = F!Moved
    BY <1>18 DEF s2
  <2>2. trail' \in [OpenFiles -> Seq(Nat) \cup {F!Moved}]
    BY <1>1, <1>3, <1>14, <2>1
  <2>3. TrailInv'
    BY <1>12, <1>16, <2>1, <2>2, StepHoldTrail
  <2>4. ASSUME NEW x \in OpenFiles, x # f PROVE KeptOf(x)'
    <3>1. file'[x] = file[x] /\ trail'[x] = trail[x]
      BY <1>9, <1>16, <2>4 DEF g
    <3>2. ~WritingOf(t, x) /\ ~Writing(a2, c2, got[t], x)
      BY <2>4 DEF WritingOf, Writing
    <3> QED
      BY <1>1, <1>12, <3>1, <3>2, StepHoldOthers
  <2>5. ASSUME NEW z \in OpenFiles, z = f PROVE KeptOf(z)'
    <3>1. CASE s2 = F!Moved
      <4>1. trail'[z] = F!Moved
        BY <1>16, <2>5, <3>1
      <4> QED
        BY <4>1 DEF KeptOf
    <3>2. CASE s2 # F!Moved
      <4>1. s2 = s /\ s # F!Moved /\ n = 0
        BY <1>18, <3>2 DEF s2
      <4>2. \A x \in F!FtTasks : x # t => ~WritingOf(x, f)
        BY <1>2, <1>12, LockApart DEF WritingOf, Writing, HoldPlaces
      <4>3. /\ \A x \in F!FtTasks : ~Writing(ftAt'[x], ftCall'[x], got[x], f)
        <5>1. /\ ftAt'[t] = a2 /\ \A x \in F!FtTasks : x # t => ftAt'[x] = ftAt[x] /\ ftCall'[x] = ftCall[x]
          BY <1>12, LockApart
        <5> QED
          BY <1>11, <4>2, <5>1 DEF WritingOf, Writing
      <4>4. ASSUME file[f].refs > 0 PROVE file[f].offset = Len(s) /\ bytes = s
        <5>1. /\ file[f].offset = Len(s)
              /\ WritingOf(t, f) => bytes = s \o p
              /\ (\A x \in F!FtTasks : ~WritingOf(x, f)) => bytes = s
          BY <1>3, <4>1, <4>4 DEF WriteInv, KeptInv, KeptOf, n
        <5>2. s \in Seq(Nat) /\ s \o p = s
          <6>1. s \in Seq(Nat) /\ Len(p) = 0
            BY <1>15, <1>17, <4>1
          <6>2. p = <<>>
            BY <1>15, <6>1
          <6> HIDE DEF s, p
          <6> QED
            BY <6>1, <6>2
        <5>3. CASE WritingOf(t, f)
          BY <5>1, <5>2, <5>3
        <5>4. CASE ~WritingOf(t, f)
          BY <4>2, <5>1, <5>4
        <5> QED
          BY <5>1, <5>3, <5>4
      <4>5. file[f].offset \in Nat
        BY <1>3 DEF FtTypes, Descriptions
      <4>6. file'[f].offset = file[f].offset /\ file'[f].refs = file[f].refs /\ trail'[f] = s
        BY <1>9, <1>16, <4>1, <4>5 DEF g
      <4>7. /\ \A x \in F!FtTasks : ~Writing(ftAt'[x], ftCall'[x], got[x], z)
            /\ file'[z].refs > 0 => file'[z].offset = Len(trail'[z]) /\ bytes = trail'[z]
        BY <2>5, <4>3, <4>4, <4>6
      <4> QED
        BY <1>1, <4>7 DEF KeptOf, WritingOf
    <3> QED
      BY <3>1, <3>2
  <2>6. \A x \in OpenFiles : KeptOf(x)'
    BY <2>4, <2>5
  <2> QED
    BY <1>13, <2>3, <2>6 DEF WriteInv, KeptInv
<1>19. CASE s # F!Moved /\ n # 0 /\ F!Writes(t)
  <2>1. s2 = s \o p /\ s \in Seq(Nat)
    BY <1>17, <1>19 DEF s2
  <2>2. /\ s \o p \in Seq(Nat) /\ Len(s \o p) = Len(s) + Len(p)
        /\ Contiguous(s \o p) /\ EndsWith(s \o p, w)
        /\ \A i \in DOMAIN (s \o p) : (s \o p)[i] = w \/ (i \in DOMAIN s /\ (s \o p)[i] = s[i])
    <3>1. s \in Seq(Nat) /\ p \in Seq(Nat) /\ w \in Nat /\ \A k \in 1..Len(p) : p[k] = w
      BY <1>14, <1>15, <2>1
    <3> HIDE DEF s, p, w
    <3> QED
      BY <1>14, <3>1, TrailGrows
  <2> DEFINE tr == trail'
  <2>3. tr[f] = s \o p /\ \A x \in OpenFiles : x # f => tr[x] = trail[x]
    BY <1>16, <2>1
  <2>4. tr \in [OpenFiles -> Seq(Nat) \cup {F!Moved}]
    <3>1. s2 \in Seq(Nat)
      BY <2>1, <2>2
    <3> QED
      BY <1>1, <1>14, <3>1
  <2>5. /\ ftAt'[t] = a2 /\ \A x \in F!FtTasks : x # t => ftAt'[x] = ftAt[x] /\ ftCall'[x] = ftCall[x]
        /\ \A x \in F!FtTasks : x # t /\ ftAt[x] \in HoldPlaces => got[x] # f
    BY <1>2, <1>12, LockApart
  <2> HIDE DEF tr, s, p
  <2>6. ASSUME NEW x \in F!FtTasks
        PROVE  /\ NoneToCome(s \o p, x, ftCalls[x])
               /\ x # t /\ Lacks(s, Mark(x, ftCalls[x])) => Lacks(s \o p, Mark(x, ftCalls[x]))
    <3>1. ftCalls[x] \in Nat
      BY <1>3 DEF FtTypes
    <3>2. NoneToCome(s, x, ftCalls[x])
      BY <1>3 DEF WriteInv, TrailInv, s
    <3>3. \A m \in Nat : w = Mark(x, m) => x = t /\ m = ftCalls[t]
      BY <1>14, Marks
    <3>4. ASSUME NEW i \in DOMAIN (s \o p), NEW m \in Nat, (s \o p)[i] = Mark(x, m) PROVE m <= ftCalls[x]
      <4>1. CASE (s \o p)[i] = w
        <5>1. x = t /\ m = ftCalls[t]
          BY <3>3, <3>4, <4>1
        <5> QED
          BY <1>14, <5>1
      <4>2. CASE i \in DOMAIN s /\ (s \o p)[i] = s[i]
        <5>1. s[i] = Mark(x, m)
          BY <3>4, <4>2
        <5> QED
          BY <3>2, <4>2, <5>1 DEF NoneToCome
      <4> QED
        BY <2>2, <4>1, <4>2
    <3>5. ASSUME x # t, Lacks(s, Mark(x, ftCalls[x])), NEW i \in DOMAIN (s \o p)
          PROVE  (s \o p)[i] # Mark(x, ftCalls[x])
      <4>1. CASE (s \o p)[i] = w
        BY <3>1, <3>3, <3>5, <4>1
      <4>2. CASE i \in DOMAIN s /\ (s \o p)[i] = s[i]
        BY <3>5, <4>2 DEF Lacks
      <4> QED
        BY <2>2, <4>1, <4>2
    <3> QED
      BY <3>4, <3>5 DEF NoneToCome, Lacks
  <2>7. ASSUME NEW x \in OpenFiles
        PROVE  /\ Contiguous(tr[x])
               /\ \A y \in F!FtTasks : NoneToCome(tr[x], y, ftCalls[y])
               /\ \A y \in F!FtTasks : ftAt'[y] \in Before => Lacks(tr[x], Mark(y, ftCalls[y]))
    <3>1. \A y \in F!FtTasks : ftAt'[y] \in Before => ftAt[y] \in Before /\ y # t
      BY <1>11, <2>5 DEF Before
    <3>2. CASE x # f
      BY <2>3, <3>1, <3>2 DEF WriteInv, TrailInv
    <3>3. CASE x = f
      <4>1. \A y \in F!FtTasks : ftAt[y] \in Before => Lacks(s, Mark(y, ftCalls[y]))
        BY <1>3 DEF WriteInv, TrailInv, s
      <4> QED
        BY <2>2, <2>3, <2>6, <3>1, <3>3, <4>1
    <3> QED
      BY <3>2, <3>3
  <2>8. ASSUME NEW y \in F!FtTasks, ftAt'[y] \in InParts PROVE EndsWith(tr[got[y]], Mark(y, ftCalls[y]))
    <3>1. CASE y = t
      BY <2>2, <2>3, <3>1 DEF w
    <3>2. CASE y # t
      <4>1. ftAt[y] \in InParts
        BY <2>5, <2>8, <3>2
      <4>2. ftAt[y] \in HoldPlaces /\ ftAt[y] \in DataPlaces
        BY <4>1 DEF InParts, HoldPlaces, DataPlaces
      <4>3. got[y] \in OpenFiles /\ got[y] # f
        BY <2>5, <3>2, <4>2, Using
      <4> QED
        BY <2>3, <4>1, <4>3 DEF WriteInv, TrailInv
    <3> QED
      BY <3>1, <3>2
  <2>9. TrailInv'
    BY <1>1, <2>4, <2>7, <2>8 DEF TrailInv, tr
  <2>10. ASSUME NEW x \in OpenFiles, x # f PROVE KeptOf(x)'
    <3>1. file'[x] = file[x] /\ trail'[x] = trail[x]
      BY <1>9, <1>16, <2>10 DEF g
    <3>2. ~WritingOf(t, x) /\ ~Writing(a2, c2, got[t], x)
      BY <2>10 DEF WritingOf, Writing
    <3> QED
      BY <1>1, <1>12, <3>1, <3>2, StepHoldOthers
  <2>11. ASSUME NEW z \in OpenFiles, z = f PROVE KeptOf(z)'
    <3>1. \A x \in F!FtTasks : ~Writing(ftAt'[x], ftCall'[x], got[x], f)
      BY <1>11, <2>5 DEF Writing, HoldPlaces
    <3>2. ASSUME file[f].refs > 0 PROVE file[f].offset = Len(s) /\ bytes = s \o p
      <4>1. WritingOf(t, f)
        BY <1>1, <1>19 DEF WritingOf, Writing, F!Writes
      <4> QED
        BY <1>3, <1>19, <3>2, <4>1 DEF WriteInv, KeptInv, KeptOf, n, s, p
    <3>3. file'[f].offset = file[f].offset + n /\ file'[f].refs = file[f].refs /\ trail'[f] = s \o p
      BY <1>9, <2>3 DEF g, tr
    <3>4. Len(s \o p) = Len(s) + n
      BY <1>15, <2>2
    <3>5. /\ \A x \in F!FtTasks : ~Writing(ftAt'[x], ftCall'[x], got[x], z)
          /\ file'[z].refs > 0 => file'[z].offset = Len(trail'[z]) /\ bytes = trail'[z]
      BY <2>11, <3>1, <3>2, <3>3, <3>4
    <3> QED
      BY <1>1, <3>5 DEF KeptOf, WritingOf
  <2>12. \A x \in OpenFiles : KeptOf(x)'
    BY <2>10, <2>11
  <2> QED
    BY <1>13, <2>9, <2>12 DEF WriteInv, KeptInv
<1> QED
  BY <1>18, <1>19

(* Nothing is written at first, and no offset is locked.                   *)
LEMMA InitWriteInv == FtParameters /\ F!Init => WriteInv
<1> SUFFICES ASSUME FtParameters, F!Init PROVE WriteInv
  OBVIOUS
<1>1. /\ \A t \in F!FtTasks : ftAt[t] \in {"user", "absent"} /\ ftCalls[t] \in Nat
      /\ \A f \in OpenFiles : file[f] = F!Closed /\ trail[f] = <<>>
      /\ trail \in [OpenFiles -> Seq(Nat) \cup {F!Moved}]
  BY DEF F!Init
<1>2. F!Closed.refs = 0 /\ F!Closed.depth = 0
  BY DEF F!Closed
<1>3. HoldInv
  <2>1. \A t \in F!FtTasks : ftAt[t] \notin HoldPlaces
    BY <1>1 DEF HoldPlaces
  <2> QED
    BY <1>1, <1>2, <2>1 DEF HoldInv, HoldOk
<1>4. TrailInv
  <2>1. \A f \in OpenFiles : Contiguous(trail[f]) /\ \A t \in F!FtTasks : NoneToCome(trail[f], t, ftCalls[t])
    BY <1>1, BareTrail
  <2>2. \A t \in F!FtTasks : ftAt[t] \notin Before /\ ftAt[t] \notin InParts
    BY <1>1 DEF Before, InParts
  <2> QED
    BY <1>1, <2>1, <2>2 DEF TrailInv
<1>5. KeptInv
  <2>1. \A f \in OpenFiles : ~(file[f].refs > 0)
    BY <1>1, <1>2
  <2> QED
    BY <2>1 DEF KeptInv, KeptOf
<1> QED
  BY <1>3, <1>4, <1>5 DEF WriteInv

(* And every step keeps it.                                                *)
LEMMA NextWriteInv == FtParameters /\ FtInv /\ WriteInv /\ [F!Next]_(F!ftVars) => WriteInv'
<1> SUFFICES ASSUME FtParameters, FtInv, WriteInv, [F!Next]_(F!ftVars) PROVE WriteInv'
  OBVIOUS
<1>1. ASSUME UNCHANGED F!ftVars PROVE WriteInv'
  BY <1>1 DEF F!ftVars, WriteInv, HoldInv, TrailInv, KeptInv, KeptOf, WritingOf, F!Payload
<1>2. ASSUME NEW t \in F!FtTasks, F!FileCall(t) \/ F!FileStep(t) PROVE WriteInv'
  <2>1. CASE F!FileCall(t)
    BY <2>1, KeptByFileCall
  <2>2. CASE F!FileStep(t)
    <3>1. CASE F!SysOpen(t)
      BY <3>1, KeptByOpen
    <3>2. CASE F!GetFile(t)
      BY <3>2, KeptByGetFile
    <3>3. CASE F!CloseDrop(t) \/ F!CloseFree(t)
      BY <3>3, KeptByClose
    <3>4. CASE F!Dup(t) \/ F!DupRef(t) \/ F!Dup3(t)
      BY <3>4, KeptByDup
    <3>5. CASE F!Clone(t)
      BY <3>5, KeptByClone
    <3>6. CASE F!Exit(t)
      BY <3>6, KeptByExit
    <3>7. CASE F!LockOffset(t)
      BY <3>7, KeptByLockOffset
    <3>8. CASE F!Part(t)
      BY <3>8, KeptByPart
    <3>9. CASE F!Transfer(t)
      BY <3>9, KeptByTransfer
    <3>10. CASE F!Advance(t)
      BY <3>10, KeptByAdvance
    <3>11. CASE F!PwriteAt(t) \/ F!Ftruncate(t)
      BY <3>11, KeptByMoved
    <3>12. CASE F!SeekStat(t) \/ F!Seek(t)
      BY <3>12, KeptBySeek
    <3> QED
      BY <2>2, <3>1, <3>2, <3>3, <3>4, <3>5, <3>6, <3>7, <3>8, <3>9, <3>10, <3>11, <3>12 DEF F!FileStep
  <2> QED
    BY <1>2, <2>1, <2>2
<1> QED
  BY <1>1, <1>2 DEF F!Next

(* The invariants are what the property needs: while nobody holds the lock *)
(* of an offset nobody is between a write and its advance.                 *)
LEMMA WriteInvContent == FtParameters /\ FtInv /\ WriteInv => ContentExact
<1> SUFFICES ASSUME FtParameters, FtInv, WriteInv PROVE ContentExact
  OBVIOUS
<1>1. SubSeq(vec.data, 1, vec.size) = bytes
  BY DEF FtInv, VecOk
<1>2. ASSUME NEW f \in OpenFiles, file[f].refs > 0, file[f].owner = NoFile, trail[f] # F!Moved
      PROVE  bytes = trail[f] /\ Contiguous(trail[f])
  <2>1. \A t \in F!FtTasks : t # NoFile /\ HoldOk(t, ftAt[t], ftCall[t], file[got[t]])
    BY DEF WriteInv, HoldInv, FtParameters, F!FtTasks
  <2>2. \A t \in F!FtTasks : ~WritingOf(t, f)
    BY <1>2, <2>1 DEF WritingOf, Writing, HoldOk, HoldPlaces
  <2> QED
    BY <1>2, <2>2 DEF WriteInv, TrailInv, KeptInv, KeptOf
<1>3. F!WritesKept
  BY <1>1, <1>2 DEF F!WritesKept, Contiguous
<1>4. F!HolesAreZero
  BY <1>1 DEF F!HolesAreZero
<1> QED
  BY <1>3, <1>4 DEF ContentExact

(* What tasks write through one description lies in the file one after the *)
(* other, the parts of a writev together, and a file reads as its bytes,   *)
(* zeros where nothing was written, whatever its buffer went through: no   *)
(* write is lost to another that used the same offset.                     *)
THEOREM WritesStayKept == ASSUME FtParameters PROVE F!Spec => []ContentExact
<1>1. F!Init => FtInv /\ WriteInv
  BY InitFtInv, InitWriteInv
<1>2. FtInv /\ WriteInv /\ [F!Next]_(F!ftVars) => (FtInv /\ WriteInv)'
  BY NextFtInv, NextWriteInv
<1>3. FtInv /\ WriteInv => ContentExact
  BY WriteInvContent
<1> QED
  BY <1>1, <1>2, <1>3, PTL DEF F!Spec
=============================================================================
