------------------------------ MODULE UserCopy ------------------------------
(***************************************************************************)
(* Moving bytes between the kernel and user memory (kernel/safe_string.c): *)
(* the range is checked once, then the bytes are moved one by one while    *)
(* other threads of the process write to the memory and unmap it.  A page  *)
(* fault in the middle is diverted to the end of the copy by the handler,  *)
(* which knows the instructions that may fault.                            *)
(*                                                                         *)
(* Addresses are 0..(Top - 1); those from KERNEL on are the kernel's.      *)
(***************************************************************************)
EXTENDS Integers, FiniteSets

CONSTANTS Top, KERNEL, PageSize,
          Bytes,               \* 0 ends a string
          Memories,            \* what user memory may hold at first
          Sent,                \* the byte the kernel writes to user memory
          Stale,               \* what is in the kernel's buffer before
          Ranges,              \* bound: the <<address, size>> arguments
          MaxChanges           \* bound: changes by other threads during the call

VARIABLES mem, mapped,         \* user memory, and the pages that are there
          op, addr, size,      \* the call
          eip, i,              \* the instruction of the copy, bytes moved
          kbuf, ret,
          held, wrote,         \* history: values each byte had, addresses written
          changes

copyVars == <<mem, mapped, op, addr, size, eip, i, kbuf, ret, held, wrote, changes>>

User == 0..(KERNEL - 1)
PageOf(a) == a \div PageSize
EFAULT == -14

(* Mutant: the end of the range may wrap around.                           *)
is_user_range_wrapping(a, n) == 0 < a /\ a < KERNEL /\ (a + n) % Top <= KERNEL

is_user_address(a) == 0 < a /\ a < KERNEL
is_user_range(a, n) ==
  LET end == (a + n) % Top IN is_user_address(a) /\ a <= end /\ end <= KERNEL

Init ==
  /\ mem \in Memories
  /\ mapped = {PageOf(a) : a \in User} /\ op = "none" /\ addr = 0 /\ size = 0
  /\ eip = "idle" /\ i = 0 /\ kbuf = [k \in 0..(Top - KERNEL - 1) |-> Stale] /\ ret = 0
  /\ held = [a \in User |-> {}] /\ wrote = {} /\ changes = 0

-----------------------------------------------------------------------------
Entry == [from |-> "memcpy_copy", to |-> "memcpy_copy", clear |-> "memset_write",
          strnlen |-> "strnlen_read", strncpy |-> "strncpy_read"]
Kernel == 0..(Top - KERNEL - 1)     \* the callers' buffers are as large as what they ask for

(* copy_from_user, copy_to_user, clear_user, strnlen_user,                 *)
(* strncpy_from_user                                                       *)
Call(o, a, n) ==
  /\ eip = "idle" /\ op = "none"
  /\ o \in {"from", "to", "strncpy"} => n <= Cardinality(Kernel)
  /\ op' = o /\ addr' = a /\ size' = n /\ held' = [b \in User |-> {mem[b]}]
  /\ IF ~is_user_range(a, n) THEN eip' = "done" /\ ret' = EFAULT
     ELSE /\ eip' = IF n = 0 THEN "done" ELSE Entry[o]
          /\ ret' = 0
  /\ UNCHANGED <<mem, mapped, i, kbuf, wrote, changes>>

Here == addr + i
Present == Here < KERNEL => PageOf(Here) \in mapped
Reached(there, result) == eip' = there /\ ret' = result

(* rep movsb and rep stosb into or out of user memory                      *)
Move ==
  /\ eip \in {"memcpy_copy", "memset_write"} /\ Present
  /\ IF op = "from"
     THEN kbuf' = [kbuf EXCEPT ![i] = mem[Here]] /\ UNCHANGED <<mem, held, wrote>>
     ELSE LET byte == IF op = "to" THEN Sent ELSE 0 IN
          /\ mem' = [mem EXCEPT ![Here] = byte] /\ held' = [held EXCEPT ![Here] = @ \cup {byte}]
          /\ wrote' = wrote \cup {Here} /\ UNCHANGED kbuf
  /\ i' = i + 1 /\ Reached(IF i + 1 = size THEN "done" ELSE eip, 0)
  /\ UNCHANGED <<mapped, op, addr, size, changes>>

(* safe_strnlen: the bytes before the end or the limit                     *)
Count ==
  /\ eip = "strnlen_read" /\ Present
  /\ IF mem[Here] = 0 THEN UNCHANGED i /\ Reached("done", i)
     ELSE i' = i + 1 /\ Reached(IF i + 1 = size THEN "done" ELSE eip, i + 1)
  /\ UNCHANGED <<mem, mapped, op, addr, size, kbuf, held, wrote, changes>>

(* safe_strncpy: the byte is read, then written; safe_memset clears the    *)
(* rest of the buffer.                                                     *)
Cleared(buf, from) == [k \in DOMAIN buf |-> IF k \in from..(size - 1) THEN 0 ELSE buf[k]]
CopyChar ==
  /\ eip = "strncpy_read" /\ Present
  /\ IF mem[Here] = 0 THEN UNCHANGED i /\ kbuf' = Cleared(kbuf, i) /\ Reached("done", i)
     ELSE /\ i' = i + 1 /\ kbuf' = [kbuf EXCEPT ![i] = mem[Here]]
          /\ Reached(IF i + 1 = size THEN "done" ELSE eip, i + 1)
  /\ UNCHANGED <<mem, mapped, op, addr, size, held, wrote, changes>>

(* handle_exception14: each of the instructions that touch user memory has *)
(* its place to go on.                                                     *)
on_fault == {"memcpy_copy", "memset_write", "strnlen_read", "strncpy_read"}
PageFault ==
  /\ eip \in on_fault /\ ~Present /\ Reached("done", EFAULT)
  /\ UNCHANGED <<mem, mapped, op, addr, size, i, kbuf, held, wrote, changes>>

(* The other threads                                                       *)
Change ==
  /\ eip # "done" /\ op # "none" /\ changes < MaxChanges /\ changes' = changes + 1
  /\ \/ \E p \in mapped : mapped' = mapped \ {p} /\ UNCHANGED <<mem, held>>
     \/ \E a \in {addr, addr + 1} \cap User, b \in Bytes :
          /\ PageOf(a) \in mapped /\ UNCHANGED mapped
          /\ mem' = [mem EXCEPT ![a] = b] /\ held' = [held EXCEPT ![a] = @ \cup {b}]
  /\ UNCHANGED <<op, addr, size, eip, i, kbuf, ret, wrote>>

Next == \/ \E o \in DOMAIN Entry, r \in Ranges : Call(o, r[1], r[2])
        \/ Move \/ Count \/ CopyChar \/ PageFault \/ Change

Spec == Init /\ [][Next]_copyVars

-----------------------------------------------------------------------------
Lengths == {n \in 0..size : (n < size => 0 \in held[addr + n]) /\
                              \A k \in 0..(n - 1) : held[addr + k] \ {0} # {}}

(* Whatever the other threads do, a copy ends and answers for what it did: *)
(* it reads and writes user memory only, within its range; success means   *)
(* the whole range was moved, each byte being one that was there during    *)
(* the call; the bytes of the kernel's buffer beyond the size are left     *)
(* alone; a string shorter than the limit is ended, and no byte before its *)
(* end is zero.                                                            *)
CopiesWhole ==
  /\ ret # EFAULT => addr + size <= KERNEL
  /\ wrote \subseteq {a \in User : addr <= a /\ a < addr + size}
  /\ \A k \in Kernel : k >= size => kbuf[k] = Stale
  /\ eip = "done" /\ ret # EFAULT =>
       CASE op = "from" -> \A k \in 0..(size - 1) : kbuf[k] \in held[addr + k]
         [] op \in {"to", "clear"} -> wrote = {a \in User : addr <= a /\ a < addr + size}
         [] op = "strnlen" -> ret \in Lengths
         [] op = "strncpy" -> /\ ret \in Lengths
                              /\ \A k \in 0..(size - 1) :
                                   IF k < ret THEN kbuf[k] \in held[addr + k] \ {0} ELSE kbuf[k] = 0
=============================================================================
