----------------------------- MODULE FileTable -----------------------------
(***************************************************************************)
(* File descriptors, open file descriptions and the bytes of a tmpfs file  *)
(* (src/kernel/task.c, src/kernel/syscall/fs.c, src/kernel/fs/fs.c,        *)
(* src/kernel/containers/vec.c).                                           *)
(*                                                                         *)
(* A table of descriptors belongs to a process; after clone the new task   *)
(* shares the table (CLONE_FILES) or has a copy of it, whose descriptors   *)
(* name the same descriptions.  A step is what is done under one lock: of  *)
(* the table, of the offset, of the file.                                  *)
(*                                                                         *)
(* Threads that share a table keep their open, close and dup apart from    *)
(* each other's calls: task_get_file takes no reference, so that without   *)
(* that a thread goes on using a description another one has freed, and    *)
(* what the program does then no model can say.                            *)
(***************************************************************************)
EXTENDS Integers, Sequences, FiniteSets, SequencesExt

CONSTANTS FirstTask, SecondTask,   \* the tasks
          OpenFiles,       \* memory for descriptions
          NoFile,
          OPEN_MAX,
          PageSize,        \* of a vec's buffer, in bytes
          MaxCapacity,     \* krealloc fails beyond it
          FileCalls        \* FileCalls[t][n]: what the n-th call of t may be (a bound)

VARIABLES tableOf,         \* task->files
          tableRefs,       \* files->ref_count
          fds,             \* files->entries
          file,            \* struct file
          vec,             \* the content of the file: its buffer and its size
          ftAt,            \* where a task is in its call
          ftCall,          \* the call, and what it has left to transfer
          got,             \* the description, and the offset or size it read
          ftCalls,
          trail,           \* ghost: what was written through a description, in order
          bytes            \* ghost: the file as POSIX describes it

ftVars == <<tableOf, tableRefs, fds, file, vec, ftAt, ftCall, got, ftCalls, trail, bytes>>

FtTasks == {FirstTask, SecondTask}
Fds == 0..(OPEN_MAX - 1)
Moved == <<-1>>     \* not a trail any more

Closed == [refs |-> 0, offset |-> 0, owner |-> NoFile, depth |-> 0]

Init ==
  /\ tableOf = [t \in FtTasks |-> IF t = FirstTask THEN FirstTask ELSE NoFile]
  /\ tableRefs = [t \in FtTasks |-> IF t = FirstTask THEN 1 ELSE 0]
  /\ fds = [t \in FtTasks |-> [d \in Fds |-> NoFile]]
  /\ file = [f \in OpenFiles |-> Closed]
  /\ vec = [data |-> <<>>, size |-> 0]
  /\ ftAt = [t \in FtTasks |-> IF t = FirstTask THEN "user" ELSE "absent"]
  /\ ftCall = [t \in FtTasks |-> [op |-> "none"]]
  /\ got = [t \in FtTasks |-> NoFile]
  /\ ftCalls = [t \in FtTasks |-> 0]
  /\ trail = [f \in OpenFiles |-> <<>>]
  /\ bytes = <<>>

Table(t) == fds[tableOf[t]]
FtGoto(t, where) == ftAt' = [ftAt EXCEPT ![t] = where]
FtReturn(t) == FtGoto(t, "user")

-----------------------------------------------------------------------------
(* The buffer of a file: zeros behind its size.                            *)

Zeros(n) == [k \in 1..n |-> 0]
Max2(a, b) == IF a > b THEN a ELSE b
RoundUp(n) == ((n + PageSize - 1) \div PageSize) * PageSize

(* grow_capacity                                                           *)
GrownTo(v, requested) ==
  LET wanted == Max2(2 * Len(v.data), requested)
  IN IF wanted = 0 THEN PageSize ELSE RoundUp(wanted)

Grow(v, requested) ==
  [v EXCEPT !.data = SubSeq(@, 1, v.size) \o Zeros(GrownTo(v, requested) - v.size)]

(* Mutant: what is cut off is not cleared.                                 *)
ResizeKeeping(v, n) ==
  IF n <= Len(v.data) THEN [ok |-> TRUE, v |-> [v EXCEPT !.size = n]]
  ELSE [ok |-> GrownTo(v, n) <= MaxCapacity,
        v |-> IF GrownTo(v, n) <= MaxCapacity THEN [Grow(v, n) EXCEPT !.size = n] ELSE v]

(* What a call does: [ok, v], v the buffer afterwards.                     *)
Resize(v, n) ==
  CASE n = v.size -> [ok |-> TRUE, v |-> v]
    [] n < v.size ->
         [ok |-> TRUE, v |-> [size |-> n, data |->
            SubSeq(v.data, 1, n) \o Zeros(v.size - n) \o SubSeq(v.data, v.size + 1, Len(v.data))]]
    [] n > v.size /\ n <= Len(v.data) ->
         [ok |-> TRUE, v |-> [size |-> n, data |->
            SubSeq(v.data, 1, v.size) \o Zeros(n - v.size) \o SubSeq(v.data, n + 1, Len(v.data))]]
    [] n > v.size /\ n > Len(v.data) ->
         [ok |-> GrownTo(v, n) <= MaxCapacity,
          v |-> IF GrownTo(v, n) <= MaxCapacity THEN [Grow(v, n) EXCEPT !.size = n] ELSE v]

Pwrite(v, s, offset) ==
  LET end == offset + Len(s)
      w == IF end > Len(v.data) THEN Grow(v, end) ELSE v
  IN IF end > Len(v.data) /\ GrownTo(v, end) > MaxCapacity THEN [ok |-> FALSE, v |-> v]
     ELSE [ok |-> TRUE, v |-> [size |-> Max2(v.size, end), data |->
             SubSeq(w.data, 1, offset) \o s \o SubSeq(w.data, end + 1, Len(w.data))]]

PreadCount(v, count, offset) ==
  IF offset >= v.size THEN 0
  ELSE IF offset + count >= v.size THEN v.size - offset ELSE count

(* The same of a file that is only its bytes.                              *)
Padded(b, n) == IF Len(b) >= n THEN b ELSE b \o Zeros(n - Len(b))
Overwritten(b, s, offset) ==
  LET long == Padded(b, offset + Len(s))
  IN [k \in 1..Len(long) |-> IF k \in (offset + 1)..(offset + Len(s)) THEN s[k - offset] ELSE long[k]]

-----------------------------------------------------------------------------
(* Descriptors.                                                            *)

(* task_alloc_file_descriptor(-1, f) takes the lowest free one.            *)
FreeFds(t) == {d \in Fds : Table(t)[d] = NoFile}
LowestFree(t) == CHOOSE d \in FreeFds(t) : \A e \in FreeFds(t) : d <= e
SetFd(t, d, f) == fds' = [fds EXCEPT ![tableOf[t]][d] = f]

(* file_close: the last reference frees the description.                   *)
Dropped(f) ==
  [file EXCEPT ![f] = IF file[f].refs <= 1 THEN Closed ELSE [file[f] EXCEPT !.refs = @ - 1]]

(* sys_open, once vfs_open returned a description.                         *)
SysOpen(t) ==
  LET f == CHOOSE g \in OpenFiles : file[g].refs = 0
  IN /\ ftCall[t].op = "open" /\ ftAt[t] = "begin"
     /\ \E g \in OpenFiles : file[g].refs = 0
     /\ FtReturn(t)
     /\ \/ FreeFds(t) = {} /\ UNCHANGED <<file, fds, trail>>
        \/ /\ FreeFds(t) # {} /\ SetFd(t, LowestFree(t), f)
           /\ file' = [file EXCEPT ![f] = [Closed EXCEPT !.refs = 1]]
           /\ trail' = [trail EXCEPT ![f] = IF vec.size = 0 THEN <<>> ELSE Moved]
     /\ UNCHANGED <<tableOf, tableRefs, vec, ftCall, got, ftCalls, bytes>>

(* Whether a call may begin beside those of the tasks with the same table. *)
Changes(c) == c.op \in {"open", "close", "dup", "dup3", "clone", "exit"}
Apart(t, c) ==
  \A u \in FtTasks \ {t} :
    tableOf[u] = tableOf[t] /\ ftAt[u] \notin {"user", "exited"}
      => ~Changes(c) /\ ~Changes(ftCall[u])

FileCall(t) ==
  /\ ftAt[t] = "user" /\ ftCalls[t] < Len(FileCalls[t])
  /\ \E c \in FileCalls[t][ftCalls[t] + 1] :
       /\ Apart(t, c)
       /\ ftCall' = [ftCall EXCEPT ![t] = c]
       /\ got' = [got EXCEPT ![t] = NoFile]
       /\ FtGoto(t, IF c.op \in {"open", "clone", "exit"} THEN "begin" ELSE "get")
  /\ ftCalls' = [ftCalls EXCEPT ![t] = @ + 1]
  /\ UNCHANGED <<tableOf, tableRefs, fds, file, vec, trail, bytes>>

(* task_get_file: the description is used without a reference to it.       *)
Begins(op) ==
  CASE op \in {"close", "dup"} -> op
    [] op = "dup3" -> "dup3"
    [] op \in {"pwrite", "ftruncate"} -> op
    [] op = "lseek_end" -> "stat"
    [] OTHER -> "lock"

GetFile(t) ==
  LET f == Table(t)[ftCall[t].fd]
  IN /\ ftAt[t] = "get"
     /\ \/ f = NoFile /\ FtReturn(t) /\ UNCHANGED got
        \/ f # NoFile /\ FtGoto(t, Begins(ftCall[t].op)) /\ got' = [got EXCEPT ![t] = f]
     /\ UNCHANGED <<tableOf, tableRefs, fds, file, vec, ftCall, ftCalls, trail, bytes>>

(* sys_close drops the reference first and clears the descriptor then.     *)
CloseDrop(t) ==
  /\ ftAt[t] = "close" /\ file' = Dropped(got[t]) /\ FtGoto(t, "free")
  /\ UNCHANGED <<tableOf, tableRefs, fds, vec, ftCall, got, ftCalls, trail, bytes>>

CloseFree(t) ==
  /\ ftAt[t] = "free"
  /\ \/ ftCall[t].op = "close" /\ SetFd(t, ftCall[t].fd, NoFile) /\ FtReturn(t)
     \/ ftCall[t].op = "dup3" /\ SetFd(t, ftCall[t].new, NoFile) /\ FtGoto(t, "dup")
  /\ UNCHANGED <<tableOf, tableRefs, file, vec, ftCall, got, ftCalls, trail, bytes>>

(* sys_dup and F_DUPFD: the descriptor first, the reference then.          *)
Dup(t) ==
  /\ ftAt[t] = "dup"
  /\ \/ ftCall[t].op = "dup" /\ FreeFds(t) = {} /\ FtReturn(t) /\ UNCHANGED fds
     \/ ftCall[t].op = "dup" /\ FreeFds(t) # {} /\ SetFd(t, LowestFree(t), got[t]) /\ FtGoto(t, "ref")
     \/ ftCall[t].op = "dup3" /\ Table(t)[ftCall[t].new] = NoFile
        /\ SetFd(t, ftCall[t].new, got[t]) /\ FtGoto(t, "ref")
  /\ UNCHANGED <<tableOf, tableRefs, file, vec, ftCall, got, ftCalls, trail, bytes>>

(* Mutant: the second descriptor does not count.                           *)
DupRefForgotten(t) ==
  /\ ftAt[t] = "ref" /\ FtReturn(t)
  /\ UNCHANGED <<tableOf, tableRefs, fds, file, vec, ftCall, got, ftCalls, trail, bytes>>

DupRef(t) ==
  /\ ftAt[t] = "ref" /\ file' = [file EXCEPT ![got[t]].refs = @ + 1] /\ FtReturn(t)
  /\ UNCHANGED <<tableOf, tableRefs, fds, vec, ftCall, got, ftCalls, trail, bytes>>

(* sys_dup3 closes what the new descriptor named.                          *)
Dup3(t) ==
  LET g == Table(t)[ftCall[t].new]
  IN /\ ftAt[t] = "dup3"
     /\ \/ ftCall[t].fd = ftCall[t].new /\ FtReturn(t) /\ UNCHANGED file
        \/ ftCall[t].fd # ftCall[t].new /\ g = NoFile /\ FtGoto(t, "dup") /\ UNCHANGED file
        \/ ftCall[t].fd # ftCall[t].new /\ g # NoFile /\ FtGoto(t, "free") /\ file' = Dropped(g)
     /\ UNCHANGED <<tableOf, tableRefs, fds, vec, ftCall, got, ftCalls, trail, bytes>>

Named(tab, f) == Cardinality({d \in Fds : tab[d] = f})

(* clone: files_ref or files_clone.                                        *)
Clone(t) ==
  /\ ftAt[t] = "begin" /\ ftCall[t].op = "clone" /\ ftAt[SecondTask] = "absent"
  /\ ftAt' = [ftAt EXCEPT ![t] = "user", ![SecondTask] = "user"]
  /\ \/ /\ ftCall[t].share
        /\ tableOf' = [tableOf EXCEPT ![SecondTask] = tableOf[t]]
        /\ tableRefs' = [tableRefs EXCEPT ![tableOf[t]] = @ + 1]
        /\ UNCHANGED <<fds, file>>
     \/ /\ ~ftCall[t].share
        /\ tableOf' = [tableOf EXCEPT ![SecondTask] = SecondTask]
        /\ tableRefs' = [tableRefs EXCEPT ![SecondTask] = 1]
        /\ fds' = [fds EXCEPT ![SecondTask] = Table(t)]
        /\ file' = [f \in OpenFiles |-> [file[f] EXCEPT !.refs = @ + Named(Table(t), f)]]
  /\ UNCHANGED <<vec, ftCall, got, ftCalls, trail, bytes>>

(* task_exit: files_unref closes everything with the last task.            *)
Exit(t) ==
  /\ ftAt[t] = "begin" /\ ftCall[t].op = "exit"
  /\ FtGoto(t, "exited")
  /\ tableRefs' = [tableRefs EXCEPT ![tableOf[t]] = @ - 1]
  /\ \/ tableRefs[tableOf[t]] > 1 /\ UNCHANGED <<fds, file>>
     \/ /\ tableRefs[tableOf[t]] = 1
        /\ fds' = [fds EXCEPT ![tableOf[t]] = [d \in Fds |-> NoFile]]
        /\ file' = [f \in OpenFiles |->
                      LET n == Named(Table(t), f)
                      IN IF n >= file[f].refs THEN Closed ELSE [file[f] EXCEPT !.refs = @ - n]]
  /\ UNCHANGED <<tableOf, vec, ftCall, got, ftCalls, trail, bytes>>

-----------------------------------------------------------------------------
(* Reading and writing: file_read and file_write hold the offset's lock,   *)
(* which readv and writev hold around all their parts (it is recursive).   *)

Vectored(t) == ftCall[t].op \in {"readv", "writev"}
Writes(t) == ftCall[t].op \in {"write", "writev"}

Locked(f, t) == [file EXCEPT ![f].owner = t, ![f].depth = @ + 1]
Unlocked(f) ==
  [file EXCEPT ![f].depth = @ - 1, ![f].owner = IF file[f].depth = 1 THEN NoFile ELSE @]

LockOffset(t) ==
  LET f == got[t]
  IN /\ ftAt[t] = "lock" /\ file[f].owner = NoFile
     /\ file' = Locked(f, t)
     /\ FtGoto(t, CASE Vectored(t) -> "part"
                    [] ftCall[t].op \in {"read", "write"} -> "transfer"
                    [] OTHER -> "seek")
     /\ UNCHANGED <<tableOf, tableRefs, fds, vec, ftCall, got, ftCalls, trail, bytes>>

(* The next part of a vector, or the end.                                  *)
Part(t) ==
  LET f == got[t]
  IN /\ ftAt[t] = "part"
     /\ \/ ftCall[t].parts # <<>> /\ file' = Locked(f, t) /\ FtGoto(t, "transfer")
        \/ ftCall[t].parts = <<>> /\ file' = Unlocked(f) /\ FtReturn(t)
     /\ UNCHANGED <<tableOf, tableRefs, fds, vec, ftCall, got, ftCalls, trail, bytes>>

Payload(t, n) == [k \in 1..n |-> 2 * ftCalls[t] + IF t = FirstTask THEN 0 ELSE 1]

(* file_pread or file_pwrite at the offset, under the lock of the file.    *)
Transfer(t) ==
  LET f == got[t]  n == Head(ftCall[t].parts)
      r == Pwrite(vec, Payload(t, n), file[f].offset)
  IN /\ ftAt[t] = "transfer"
     /\ \/ /\ Writes(t) /\ r.ok /\ vec' = r.v
           /\ bytes' = Overwritten(bytes, Payload(t, n), file[f].offset)
           /\ trail' = [g \in OpenFiles |-> IF g = f THEN trail[f] ELSE Moved]
           /\ ftCall' = [ftCall EXCEPT ![t].moved = n]
           /\ FtGoto(t, "advance") /\ UNCHANGED file
        \/ /\ Writes(t) /\ ~r.ok     \* ENOMEM; writev gives up its lock as well
           /\ file' = [file EXCEPT ![f].depth = 0, ![f].owner = NoFile]
           /\ FtReturn(t) /\ UNCHANGED <<vec, bytes, trail, ftCall>>
        \/ /\ ~Writes(t)
           /\ ftCall' = [ftCall EXCEPT ![t].moved = PreadCount(vec, n, file[f].offset)]
           /\ FtGoto(t, "advance") /\ UNCHANGED <<file, vec, bytes, trail>>
     /\ UNCHANGED <<tableOf, tableRefs, fds, got, ftCalls>>

(* The offset advances and is unlocked.  file_read_to_end goes on until    *)
(* the part is full or nothing comes.                                      *)
Advance(t) ==
  LET f == got[t]  n == ftCall[t].moved
      left == Head(ftCall[t].parts) - n
  IN /\ ftAt[t] = "advance"
     /\ file' = [Unlocked(f) EXCEPT ![f].offset = @ + n]
     /\ trail' = [trail EXCEPT ![f] =
                    CASE @ = Moved \/ n = 0 -> @
                      [] ~Writes(t) -> Moved
                      [] OTHER -> @ \o Payload(t, n)]
     /\ ftCall' = [ftCall EXCEPT ![t].parts =
                     IF left = 0 \/ n = 0 THEN Tail(@) ELSE <<left>> \o Tail(@)]
     /\ FtGoto(t, IF Vectored(t) THEN "part" ELSE "user")
     /\ UNCHANGED <<tableOf, tableRefs, fds, vec, got, ftCalls, bytes>>

PwriteAt(t) ==
  LET r == Pwrite(vec, Payload(t, ftCall[t].count), ftCall[t].offset)
  IN /\ ftAt[t] = "pwrite" /\ FtReturn(t)
     /\ vec' = r.v
     /\ bytes' = IF r.ok THEN Overwritten(bytes, Payload(t, ftCall[t].count), ftCall[t].offset) ELSE bytes
     /\ trail' = [f \in OpenFiles |-> Moved]
     /\ UNCHANGED <<tableOf, tableRefs, fds, file, ftCall, got, ftCalls>>

Ftruncate(t) ==
  LET n == ftCall[t].length  r == Resize(vec, n)
  IN /\ ftAt[t] = "ftruncate" /\ FtReturn(t)
     /\ vec' = r.v
     /\ bytes' = IF r.ok THEN SubSeq(Padded(bytes, n), 1, n) ELSE bytes
     /\ trail' = [f \in OpenFiles |-> Moved]
     /\ UNCHANGED <<tableOf, tableRefs, fds, file, ftCall, got, ftCalls>>

(* file_seek; the size for SEEK_END is read before the lock is taken.      *)
SeekStat(t) ==
  /\ ftAt[t] = "stat" /\ FtGoto(t, "lock")
  /\ ftCall' = [ftCall EXCEPT ![t].offset = @ + vec.size]
  /\ UNCHANGED <<tableOf, tableRefs, fds, file, vec, got, ftCalls, trail, bytes>>

Seek(t) ==
  LET f == got[t]
      to == ftCall[t].offset + IF ftCall[t].op = "lseek_cur" THEN file[f].offset ELSE 0
  IN /\ ftAt[t] = "seek" /\ FtReturn(t)
     /\ \/ to < 0 /\ file' = Unlocked(f) /\ UNCHANGED trail
        \/ /\ to >= 0 /\ file' = [Unlocked(f) EXCEPT ![f].offset = to]
           /\ trail' = [trail EXCEPT ![f] = Moved]
     /\ UNCHANGED <<tableOf, tableRefs, fds, vec, ftCall, got, ftCalls, bytes>>

FileStep(t) ==
  \/ SysOpen(t) \/ GetFile(t) \/ CloseDrop(t) \/ CloseFree(t) \/ Dup(t) \/ DupRef(t)
  \/ Dup3(t) \/ Clone(t) \/ Exit(t) \/ LockOffset(t) \/ Part(t) \/ Transfer(t)
  \/ Advance(t) \/ PwriteAt(t) \/ Ftruncate(t) \/ SeekStat(t) \/ Seek(t)

Next == \E t \in FtTasks : FileCall(t) \/ FileStep(t)

Spec == Init /\ [][Next]_ftVars

-----------------------------------------------------------------------------
(* How many descriptors name a description, how many of them a task is     *)
(* about to clear, and how many were made without a reference so far.      *)
NamedBy(f) == Named(fds[FirstTask], f) + Named(fds[SecondTask], f)
Closing(f) == Cardinality({t \in FtTasks : ftAt[t] = "free" /\
  f = Table(t)[IF ftCall[t].op = "close" THEN ftCall[t].fd ELSE ftCall[t].new]})
Duping(f) == Cardinality({t \in FtTasks : ftAt[t] = "ref" /\ got[t] = f})

(* The reference count of a description is the number of descriptors that  *)
(* name it, through dup, dup2, clone, close and exit: a descriptor a task  *)
(* can use never names a description that was freed.                       *)
DescriptorsLive ==
  \A f \in OpenFiles : file[f].refs = NamedBy(f) - Closing(f) - Duping(f)

(* What tasks write through one description lies one after the other in    *)
(* the file, the parts of a writev together: no write is lost to another   *)
(* that used the same offset.                                              *)
WritesKept ==
  \A f \in OpenFiles :
    file[f].refs > 0 /\ file[f].owner = NoFile /\ trail[f] # Moved =>
      /\ SubSeq(vec.data, 1, vec.size) = trail[f]
      /\ \A i, j, k \in DOMAIN trail[f] :
           i < j /\ j < k /\ trail[f][i] = trail[f][k] => trail[f][j] = trail[f][i]

(* The file reads as its bytes, zeros where nothing was written, whatever  *)
(* its buffer went through.                                                *)
HolesAreZero == SubSeq(vec.data, 1, vec.size) = bytes
=============================================================================
