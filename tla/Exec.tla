-------------------------------- MODULE Exec --------------------------------
(***************************************************************************)
(* execve (kernel/exec.c): one call of one task, with everything it        *)
(* allocates and gives back on each way out, and the stack it builds,      *)
(* which the start of the program (userland/lib/crt0.c) takes apart.       *)
(*                                                                         *)
(* Memory is a function from byte addresses; a word occupies W bytes and   *)
(* is kept at the first of them; a character is a number.  Any call that   *)
(* may fail may fail here.                                                 *)
(***************************************************************************)
EXTENDS Integers, Sequences, SequencesExt, FiniteSets

CONSTANTS ArgLists,      \* argument and environment lists of strings
          StackSizes,    \* sizes of the stack, in bytes
          Base,          \* its lowest address
          W,             \* bytes of a word
          NumRandom      \* random words on the stack

VARIABLES pc, args, size, ptr, badFree, vmRefs, vm, mem, sp, tables, area

execVars == <<pc, args, size, ptr, badFree, vmRefs, vm, mem, sp, tables, area>>

Resources == {"argv", "envp", "file", "exe", "argv_ptrs", "envp_ptrs"}

(* The old address space may be shared by other threads, or be the         *)
(* kernel's, which is not counted (task_kernel_execve).                    *)
Init == /\ pc = "argv"
        /\ args \in [argv : ArgLists, envp : ArgLists] /\ size \in StackSizes
        /\ ptr = [r \in Resources |-> "null"] /\ badFree = FALSE
        /\ vm = "old" /\ vmRefs \in {[old |-> n, new |-> 0] : n \in 0..2}
        /\ mem = [a \in Base..(Base + size - 1) |-> 0] /\ sp = 0
        /\ tables = [argv |-> <<>>, envp |-> <<>>]
        /\ area = [arg_start |-> 0, arg_end |-> 0, env_start |-> 0, env_end |-> 0]

FromKernel == vmRefs.old = 0
Owned(p, rs) == [r \in Resources |-> IF r \in rs THEN "owned" ELSE p[r]]

(* kfree, file_close and the destroy functions: a null pointer is nothing, *)
(* and a pointer that was given back is null.                              *)
Free(rs) == /\ badFree' = (badFree \/ \E r \in rs : ptr[r] = "dangling")
            /\ ptr' = [r \in Resources |-> IF r \in rs THEN "null" ELSE ptr[r]]

(* string_vec_destroy after the strings are on the stack                   *)
AfterPush(p, strings) == [p EXCEPT ![strings] = "null"]

-----------------------------------------------------------------------------
StackVars == <<mem, sp, tables, area>>
InputVars == <<args, size>>

fail_exe ==
  /\ pc' = "failed"
  /\ Free({"exe", "file", "envp", "argv"})
  /\ UNCHANGED <<vmRefs, vm>> /\ UNCHANGED StackVars

(* The new address space is destroyed, which leaves the kernel's active,   *)
(* and the old one is entered again.                                       *)
fail_vm ==
  /\ pc' = "failed"
  /\ Free(Resources)
  /\ vm' = "old" /\ vmRefs' = [vmRefs EXCEPT !.new = @ - 1]
  /\ UNCHANGED StackVars

Goes(from, to) == pc = from /\ pc' = to
Got(rs) == ptr' = Owned(ptr, rs) /\ UNCHANGED badFree
Same == UNCHANGED <<ptr, badFree>>
NoVm == UNCHANGED <<vm, vmRefs>>
NoStack == UNCHANGED StackVars

(* string_vec_clone_from_user, or string_vec_borrow_from_kernel            *)
CloneArgv ==
  /\ pc = "argv"
  /\ \/ /\ pc' = "envp" /\ IF FromKernel THEN Same ELSE Got({"argv"})
     \/ ~FromKernel /\ pc' = "failed" /\ Same
  /\ NoVm /\ NoStack
CloneEnvp ==
  /\ pc = "envp"
  /\ \/ /\ pc' = "stat" /\ IF FromKernel THEN Same ELSE Got({"envp"})
     \/ ~FromKernel /\ pc' = "failed" /\ Free({"argv"})
  /\ NoVm /\ NoStack

(* vfs_stat, and the checks of what it says                                *)
Stat == \/ Goes("stat", "open") /\ Same /\ NoVm /\ NoStack
        \/ pc = "stat" /\ fail_exe
Open == \/ Goes("open", "buffer") /\ Got({"file"}) /\ NoVm /\ NoStack
        \/ pc = "open" /\ fail_exe
Buffer == \/ Goes("buffer", "read") /\ Got({"exe"}) /\ NoVm /\ NoStack
          \/ pc = "buffer" /\ fail_exe

(* file_read_to_end; the file is closed in either case, and then the       *)
(* result and the ELF header are looked at.                                *)
Read == /\ Goes("read", "header") /\ Free({"file"}) /\ NoVm /\ NoStack
Header == \/ Goes("header", "vm") /\ Same /\ NoVm /\ NoStack
          \/ pc = "header" /\ fail_exe

vm_create == \/ /\ Goes("vm", "segments") /\ Same /\ NoStack
                /\ vm' = "new" /\ vmRefs' = [vmRefs EXCEPT !.new = 1]
             \/ pc = "vm" /\ fail_exe

(* The segments and the stack are allocated in the new address space.      *)
Segments == \/ /\ Goes("segments", "env") /\ Same /\ NoVm
               /\ sp' = Base + size /\ UNCHANGED <<mem, tables, area>>
            \/ pc = "segments" /\ fail_vm

-----------------------------------------------------------------------------
(* The stack.  A state of it is [mem, sp, ok]; nothing is pushed once a    *)
(* push did not fit.                                                       *)

push_value(s, value) ==
  IF s.ok /\ s.sp - W >= Base THEN [mem |-> [s.mem EXCEPT ![s.sp - W] = value], sp |-> s.sp - W, ok |-> TRUE]
  ELSE [s EXCEPT !.ok = FALSE]
PushAll(s, values) == FoldLeft(push_value, s, values)

next_power_of_two(n) == CHOOSE p \in {2^k : k \in 0..n} : p >= n /\ (p = 1 \/ p \div 2 < n)

PushString(s, str) ==
  LET to == s.sp - next_power_of_two(Len(str) + 1)
  IN IF ~s.ok \/ to < Base THEN [s EXCEPT !.ok = FALSE]
     ELSE [mem |-> [a \in DOMAIN s.mem |->
                      IF a \in to..(to + Len(str)) THEN Append(str, 0)[a - to + 1] ELSE s.mem[a]],
           sp |-> to, ok |-> TRUE, ptrs |-> Append(s.ptrs, to)]

(* Mutant: the first string is the first to be pushed.                     *)
push_strings_forward(s, strings) ==
  FoldLeft(PushString, [mem |-> s.mem, sp |-> s.sp, ok |-> s.ok, ptrs |-> <<>>], strings)

(* The last string is the first to be pushed.                              *)
push_strings(s, strings) ==
  FoldLeft(PushString, [mem |-> s.mem, sp |-> s.sp, ok |-> s.ok, ptrs |-> <<>>], Reverse(strings))

OnStack == [mem |-> mem, sp |-> sp, ok |-> TRUE]
Pushed(s) == mem' = s.mem /\ sp' = s.sp

(* push_strings allocates the table of pointers, unless there are none.    *)
Push(s, strings, ptrs, next) ==
  \/ /\ s.ok /\ pc' = next /\ Pushed(s)
     /\ ptr' = AfterPush(Owned(ptr, IF args[strings] = <<>> THEN {} ELSE {ptrs}), strings)
     /\ UNCHANGED badFree /\ NoVm
  \/ fail_vm

PushEnv ==
  /\ pc = "env"
  /\ LET s == push_strings(push_value(OnStack, 0), args.envp)
     IN /\ Push(s, "envp", "envp_ptrs", "arg")
        /\ \/ pc' = "failed"
           \/ /\ tables' = [tables EXCEPT !.envp = s.ptrs]
              /\ area' = [area EXCEPT !.env_end = sp - W, !.env_start = s.sp]
PushArg ==
  /\ pc = "arg"
  /\ LET s == push_strings(OnStack, args.argv)
     IN /\ Push(s, "argv", "argv_ptrs", "random")
        /\ \/ pc' = "failed"
           \/ /\ tables' = [tables EXCEPT !.argv = s.ptrs]
              /\ area' = [area EXCEPT !.arg_end = sp, !.arg_start = s.sp]

RandomWord == 5
AT_RANDOM == 25
AT_EXECFN == 31
AT_NULL == 0

(* The entries of the vector that point into the stack, and its end        *)
auxv(random_ptr) == <<AT_RANDOM, random_ptr, AT_EXECFN, area.arg_start, AT_NULL, 0>>

PushRandom ==
  /\ pc = "random"
  /\ LET s == PushAll(OnStack, [i \in 1..NumRandom |-> RandomWord])
     IN \/ s.ok /\ pc' = "tables" /\ Pushed(s) /\ Free({"exe"}) /\ NoVm /\ UNCHANGED <<tables, area>>
        \/ fail_vm

ROUND_DOWN(a, n) == a - (a % n)

(* auxv, envp, argv and argc; a table of pointers is freed once it is      *)
(* pushed.                                                                 *)
PushTables ==
  /\ pc = "tables"
  /\ LET start == [OnStack EXCEPT !.sp = ROUND_DOWN(@, 4 * W)]
         s == PushAll(start, Reverse(auxv(sp)) \o <<0>> \o tables.envp \o <<0>> \o tables.argv
                               \o <<Len(args.argv)>>)
     IN \/ /\ s.ok /\ pc' = "commit" /\ Pushed(s)
           /\ Free({"envp_ptrs", "argv_ptrs"}) /\ NoVm /\ UNCHANGED <<tables, area>>
        \/ ~s.ok /\ fail_vm

(* The old address space is given up and the program entered.              *)
Commit ==
  /\ Goes("commit", "running") /\ Same /\ NoStack
  /\ vmRefs' = IF FromKernel THEN vmRefs ELSE [vmRefs EXCEPT !.old = @ - 1]
  /\ UNCHANGED vm

Next ==
  /\ \/ CloneArgv \/ CloneEnvp \/ Stat \/ Open \/ Buffer \/ Read \/ Header \/ vm_create
     \/ Segments \/ PushEnv \/ PushArg \/ PushRandom \/ PushTables \/ Commit
  /\ UNCHANGED InputVars

Spec == Init /\ [][Next]_execVars

-----------------------------------------------------------------------------
(* __start in crt0.c: what the program makes of its stack                  *)
StringAt(a) ==
  LET end == CHOOSE e \in a..(Base + size - 1) : mem[e] = 0 /\ \A i \in a..(e - 1) : mem[i] # 0
  IN [i \in 1..(end - a) |-> mem[a + i - 1]]
argc == mem[sp]
argv == [i \in 1..argc |-> StringAt(mem[sp + i * W])]
environ == sp + (argc + 2) * W
EnvCount == CHOOSE n \in 0..size : mem[environ + n * W] = 0 /\ \A i \in 0..(n - 1) : mem[environ + i * W] # 0
envp == [i \in 1..EnvCount |-> StringAt(mem[environ + (i - 1) * W])]
Aux(type) == LET at == environ + (EnvCount + 1) * W
             IN mem[(CHOOSE a \in {at + 2 * i * W : i \in 0..3} : mem[a] = type) + W]

(* The program finds on its stack the strings execve was given, in order,  *)
(* the vector behind them leads to the random words and to the name it was *)
(* called by, and the areas that /proc shows hold exactly the strings: the *)
(* strings, pushed last first, and the tables, pushed backwards, agree     *)
(* with the order in which crt0 walks them.                                *)
StackAsGiven ==
  pc = "running" =>
    /\ argv = args.argv /\ envp = args.envp
    /\ \A i \in 0..(NumRandom - 1) : mem[Aux(AT_RANDOM) + i * W] = RandomWord
    /\ args.argv # <<>> => StringAt(Aux(AT_EXECFN)) = args.argv[1]
    /\ \A i \in 1..argc : mem[sp + i * W] \in area.arg_start..(area.arg_end - 1)
    /\ \A i \in 1..EnvCount : mem[environ + (i - 1) * W] \in area.env_start..(area.env_end - 1)

(* Whatever fails, everything execve allocated is given back exactly once  *)
(* and the task is again in its old address space; when nothing fails, it  *)
(* is in the new one and holds nothing else.                               *)
GivenBack ==
  /\ ~badFree
  /\ pc \in {"failed", "running"} => \A r \in Resources : ptr[r] # "owned"
  /\ pc = "failed" => vm = "old" /\ vmRefs.new = 0
  /\ pc = "running" => vm = "new" /\ vmRefs.new = 1
=============================================================================
