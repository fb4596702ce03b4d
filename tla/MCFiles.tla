------------------------------ MODULE MCFiles ------------------------------
(***************************************************************************)
(* Files: a behaviour is about names and inodes, about descriptors and     *)
(* bytes, about listing a directory, or about copies from and to user      *)
(* memory.                                                                 *)
(***************************************************************************)
EXTENDS Vfs

CONSTANTS FirstTask, SecondTask, OpenFiles, NoFile, OPEN_MAX,
          PageSize, MaxCapacity, FileCalls,
          Names, rec_len, FirstCapacity, InitialNames, MaxListChanges,
          Top, KERNEL, CopyPage, Bytes, Memories, Sent, Stale, Ranges, MaxCopyChanges

VARIABLES which, tableOf, tableRefs, fds, file, vec, ftAt, ftCall, got, ftCalls,
          trail, bytes,
          children, offset, buf, capacity, listAt, listed, stable, shifted, listChanges,
          mem, mapped, copyOp, addr, size, eip, moved, kbuf, ret, held, wrote, copyChanges

F == INSTANCE FileTable
L == INSTANCE Listing WITH at <- listAt, changes <- listChanges, MaxChanges <- MaxListChanges
U == INSTANCE UserCopy WITH op <- copyOp, i <- moved, changes <- copyChanges,
                            PageSize <- CopyPage, MaxChanges <- MaxCopyChanges

ftVars == <<tableOf, tableRefs, fds, file, vec, ftAt, ftCall, got, ftCalls, trail,
            bytes>>
listVars == <<children, offset, buf, capacity, listAt, listed, stable, shifted, listChanges>>
copyVars == <<mem, mapped, copyOp, addr, size, eip, moved, kbuf, ret, held, wrote, copyChanges>>

C(op, path) == [op |-> op, abs |-> FALSE, path |-> path, flags |-> {}]
Two(op, path, new) == [op |-> op, abs |-> FALSE, path |-> path, new |-> new, flags |-> {}]
Open(path, flags) == [op |-> "open", abs |-> FALSE, path |-> path, flags |-> flags]

AnyCall ==
  { C("access", <<"x">>), C("stat", <<"l", "..">>), C("lstat", <<"l">>),
    [C("stat", <<"d", "l", "l">>) EXCEPT !.abs = TRUE],
    C("chdir", <<"d">>), C("chdir", <<"f">>),
    Open(<<"f">>, {"write"}), Open(<<"d">>, {"write"}), Open(<<"l">>, {"nofollow"}),
    Open(<<"d", "x">>, {"creat"}), Open(<<"d", "x">>, {"creat", "excl"}),
    Open(<<"p">>, {}), C("close", <<>>),
    C("mkdir", <<"d", "x">>), C("mknod", <<"p">>),
    [op |-> "symlink", abs |-> FALSE, path |-> <<"x">>, flags |-> {}, target |-> <<"x">>],
    C("mount", <<"d">>), C("mount", <<"f">>),
    Two("link", <<"f">>, <<"d", "x">>), Two("link", <<"d">>, <<"x">>),
    Two("link", <<"f">>, <<"p">>),
    C("unlink", <<"d", "x">>), C("unlink", <<"d">>), C("unlink", <<"f">>),
    C("rmdir", <<"d">>), C("rmdir", <<"..">>), C("rmdir", <<"f">>),
    Two("rename", <<"f">>, <<"d", "x">>), Two("rename", <<"d">>, <<"f">>),
    Two("rename", <<"f">>, <<"d">>), Two("rename", <<"f">>, <<"..">>) }

MCCalls ==
  << << { Open(<<"f">>, {"write"}), Open(<<"d", "x">>, {"creat"}), C("mount", <<"d">>),
          C("chdir", <<"d">>), C("mknod", <<"x">>), Open(<<"p">>, {}) }, AnyCall >>,
     << AnyCall >> >>

Made(kind, refs, entries) == [New(kind, 0, refs) EXCEPT !.links = refs, !.entries = entries]

(* /d, /f, the FIFO /p and /l, a symbolic link to d/../l, itself.           *)
MCTree ==
  [i \in Inodes |->
     CASE i = Root -> [New("dir", 0, 1 + Cardinality(Procs)) EXCEPT !.entries =
                        <<Node(2, "d"), Node(3, "f"), Node(4, "p"), Node(5, "l")>>]
       [] i = 2 -> Made("dir", 1, <<>>)
       [] i = 3 -> Made("reg", 1, <<>>)
       [] i = 4 -> Made("fifo", 1, <<>>)
       [] i = 5 -> [Made("lnk", 1, <<>>) EXCEPT !.target = <<"d", "..", "l">>]
       [] OTHER -> Free]

-----------------------------------------------------------------------------
W(op, fd, parts) == [op |-> op, fd |-> fd, parts |-> parts, moved |-> 0]
On(op, fd) == [op |-> op, fd |-> fd]
At(op, fd, from) == [op |-> op, fd |-> fd, offset |-> from, count |-> 1]
Dup3(fd, new) == [op |-> "dup3", fd |-> fd, new |-> new]

SomeCall ==
  { W("write", 0, <<2>>), W("writev", 0, <<1, 1>>), W("writev", 1, <<1, 2>>),
    W("readv", 0, <<2, 1>>), W("read", 1, <<1>>), At("pwrite", 0, 3), At("pwrite", 0, 8),
    At("lseek_set", 0, 1), At("lseek_cur", 0, -1), At("lseek_end", 1, 0),
    [op |-> "ftruncate", fd |-> 0, length |-> 1], [op |-> "ftruncate", fd |-> 0, length |-> 5],
    On("close", 0), On("dup", 0), Dup3(0, 1), Dup3(0, 0), [op |-> "open"], [op |-> "exit"] }

MCFileCalls ==
  (FirstTask :> << {[op |-> "open"]}, {W("write", 0, <<2>>), [op |-> "open"], On("dup", 0)},
                   {[op |-> "clone", share |-> b] : b \in BOOLEAN}, SomeCall >>) @@
  (SecondTask :> << SomeCall, {On("close", 0), W("write", 0, <<1>>)} >>)

-----------------------------------------------------------------------------
MCMemories == {[a \in 0..(KERNEL - 1) |-> IF a \in ends THEN 0 ELSE 1] : ends \in SUBSET {3, 4, 5}}
MCRanges == {<<3, 2>>, <<3, 4>>, <<0, 1>>, <<11, 1>>, <<11, 2>>, <<10, 7>>, <<12, 1>>, <<5, 0>>}
MCRecLen == [n \in Names |-> IF n = "long" THEN 5 ELSE 2]
MCInitialNames == <<"a", "b", "long", "c">>

-----------------------------------------------------------------------------
MCInit == /\ which \in {"names", "descriptors", "listing", "copies"}
          /\ Init /\ F!Init /\ L!Init /\ U!Init
          /\ which # "copies" => mem[3] = 0 /\ mem[4] = 0 /\ mem[5] = 0

MCNext ==
  /\ UNCHANGED which
  /\ \/ which = "names" /\ Next /\ UNCHANGED <<ftVars, listVars, copyVars>>
     \/ which = "descriptors" /\ F!Next /\ UNCHANGED <<vfsVars, listVars, copyVars>>
     \/ which = "listing" /\ L!Next /\ UNCHANGED <<vfsVars, ftVars, copyVars>>
     \/ which = "copies" /\ U!Next /\ UNCHANGED <<vfsVars, ftVars, listVars>>

MCSpec == MCInit /\ [][MCNext]_<<which, vfsVars, ftVars, listVars, copyVars>> /\ Fairness

(* A description has as many references as descriptors.                    *)
DescriptorsLive == F!DescriptorsLive

(* Writes through one description do not overwrite each other, and a file  *)
(* reads as its bytes, with zeros where nothing was written.               *)
ContentExact == F!WritesKept /\ F!HolesAreZero

(* A name that stays in a directory is listed once.                        *)
ListsOnce == L!ListsOnce

(* Copies from and to user memory are whole and within their range.        *)
CopiesWhole == U!CopiesWhole
=============================================================================
