-------------------------------- MODULE Vfs --------------------------------
(***************************************************************************)
(* The file name space: inodes with their reference and link counts, the   *)
(* entries of tmpfs directories, mounts, and the system calls that look    *)
(* names up and change them (src/kernel/fs/{vfs,fs,dentry,path,tmpfs}.c,   *)
(* src/kernel/syscall/fs.c).                                               *)
(*                                                                         *)
(* A path walk takes one step per component and a system call one step per *)
(* directory lock it takes, so two processes interleave inside rename,     *)
(* rmdir, link and open(O_CREAT).  An inode is an element of a pool; when  *)
(* the pool is empty the allocation of an inode fails.  Every process has  *)
(* its own working directory.                                              *)
(***************************************************************************)
EXTENDS Integers, Sequences, FiniteSets, SequencesExt

CONSTANTS Procs,         \* processes
          Inodes,        \* the memory there is for inodes
          Root,          \* the root directory
          NoInode,       \* a NULL inode
          Calls,         \* Calls[p][n]: what the n-th call of p may be (a bound)
          SYMLOOP_MAX,
          InitialTree    \* what the initrd put into the root file system

VARIABLES inode,         \* struct inode and tmpfs_inode
          mounts,        \* mount_points: <<host, guest>>, newest first
          cwd,           \* task->fs->cwd
          vfsAt,         \* where a process is in its call
          call,          \* the call
          walk,          \* resolve_path_at's locals
          old,           \* the path a call resolved first (link and rename)
          opened,        \* the inode of the file a process has open
          result,        \* what the last call returned
          lost,          \* references given up without inode_unref
          madeCalls

vfsVars == <<inode, mounts, cwd, vfsAt, call, walk, old, opened, result, lost,
             madeCalls>>

Free == [kind |-> "free", dev |-> 0, refs |-> 0, links |-> 0,
         entries |-> <<>>, target |-> <<>>, fifo |-> NoInode]

(* A path is the sequence of its nodes, the root directory first.          *)
Node(i, name) == [inode |-> i, name |-> name]
Last1(path) == path[Len(path)]
Parent(path) == path[Len(path) - 1].inode
NodesOf(path) == [k \in 1..Len(path) |-> path[k].inode]

-----------------------------------------------------------------------------
(* Reference counts.                                                       *)

Occurs(i, s) == Cardinality({k \in DOMAIN s : s[k] = i})

Ref(t, s) == [i \in Inodes |-> [t[i] EXCEPT !.refs = @ + Occurs(i, s)]]

(* How many references to an inode, and links, the inodes of a set hold.   *)
LinksFrom(t, D, i) == MapThenSumSet(LAMBDA d : Occurs(i, NodesOf(t[d].entries)), D)
RefsFrom(t, D, i) == LinksFrom(t, D, i) + Cardinality({d \in D : t[d].fifo = i})

(* inode_destroy, when the last reference and the last link are gone,      *)
(* drops what the inode's entries and its FIFO refer to, and so on down.   *)
Settle(t) ==
  LET live == {i \in Inodes : t[i].kind # "free"}
      gone(i, D) == t[i].refs = RefsFrom(t, D, i) /\ t[i].links = LinksFrom(t, D, i)
      destroyed[n \in 0..Cardinality(Inodes)] ==
        IF n = 0 THEN {}
        ELSE LET above == destroyed[n - 1] IN {i \in live : gone(i, above)}
      dead == destroyed[Cardinality(Inodes)]
  IN IF \A i \in live : ~gone(i, {}) THEN t
     ELSE [i \in Inodes |->
             IF i \in dead THEN Free
             ELSE [t[i] EXCEPT !.refs = @ - RefsFrom(t, dead, i),
                               !.links = @ - LinksFrom(t, dead, i)]]

Unref(t, s) == Settle([i \in Inodes |-> [t[i] EXCEPT !.refs = @ - Occurs(i, s)]])

Lose(i) == [lost EXCEPT ![i] = @ + 1]

-----------------------------------------------------------------------------
(* Directory entries: a list, new entries at the end.                      *)

Find(t, dir, name) ==
  LET at == {k \in DOMAIN t[dir].entries : t[dir].entries[k].name = name}
  IN IF at = {} THEN NoInode ELSE t[dir].entries[CHOOSE k \in at : TRUE].inode

Append1(t, dir, name, child) ==
  [t EXCEPT ![dir].entries = Append(@, Node(child, name)),
            ![child].links = @ + 1]

(* The caller drops the reference that the entry held.                     *)
Remove1(t, dir, name) ==
  LET child == Find(t, dir, name)
  IN [t EXCEPT ![dir].entries = SelectSeq(@, LAMBDA e : e.name # name),
               ![child].links = @ - 1]

IsDir(t, i) == t[i].kind = "dir"

FreeInodes(t) == {i \in Inodes : t[i].kind = "free"}

New(kind, dev, refs) == [Free EXCEPT !.kind = kind, !.dev = dev, !.refs = refs]

-----------------------------------------------------------------------------
Idle == [path |-> <<>>, rest |-> <<>>, depth |-> 0, flags |-> {}, outer |-> <<>>]

Init ==
  /\ inode = InitialTree
  /\ mounts = <<>>
  /\ cwd = [p \in Procs |-> <<Node(Root, "/")>>]
  /\ vfsAt = [p \in Procs |-> "user"] /\ call = [p \in Procs |-> [op |-> "none"]]
  /\ walk = [p \in Procs |-> Idle] /\ old = [p \in Procs |-> <<>>]
  /\ opened = [p \in Procs |-> NoInode] /\ result = [p \in Procs |-> "none"]
  /\ lost = [i \in Inodes |-> 0] /\ madeCalls = [p \in Procs |-> 0]

(* resolve_path_at(base, pathname, flags, depth) begins.                   *)
Begin(base, abs, names, flags, depth, outer) ==
  [path |-> IF abs THEN <<Node(Root, "/")>> ELSE base, rest |-> names,
   depth |-> depth, flags |-> flags, outer |-> outer]

FlagsOf(c) ==
  CASE c.op \in {"mkdir", "mknod", "symlink"} -> {"noent"}
    [] c.op = "open" -> IF "creat" \in c.flags THEN {"noent"} ELSE c.flags
    [] c.op = "lstat" -> {"nofollow", "noerror"}
    [] OTHER -> {}

Call(p) == madeCalls[p] < Len(Calls[p]) /\ \E c \in Calls[p][madeCalls[p] + 1] :
  LET w == Begin(cwd[p], c.abs, c.path, FlagsOf(c), 0, <<>>)
  IN /\ vfsAt[p] = "user"
     /\ c.op = "close" => opened[p] # NoInode
     /\ c.op = "open" => opened[p] = NoInode
     /\ madeCalls' = [madeCalls EXCEPT ![p] = @ + 1]
     /\ call' = [call EXCEPT ![p] = c]
     /\ vfsAt' = [vfsAt EXCEPT ![p] = IF c.op = "close" THEN "do" ELSE "walk"]
     /\ walk' = [walk EXCEPT ![p] = IF c.op = "close" THEN Idle ELSE w]
     /\ inode' = IF c.op = "close" THEN inode ELSE Ref(inode, NodesOf(w.path))
     /\ UNCHANGED <<mounts, cwd, old, opened, result, lost>>

(* The references of the paths a process holds.                            *)
Held(p) == NodesOf(walk[p].path) \o walk[p].outer \o NodesOf(old[p])

(* The call returns; its paths are destroyed.                              *)
Return(p, t, rc) ==
  /\ inode' = Unref(t, Held(p))
  /\ vfsAt' = [vfsAt EXCEPT ![p] = "user"] /\ result' = [result EXCEPT ![p] = rc]
  /\ walk' = [walk EXCEPT ![p] = Idle] /\ old' = [old EXCEPT ![p] = <<>>]
  /\ UNCHANGED <<mounts, call, madeCalls>>

Finish(p, t, rc) == Return(p, t, rc) /\ UNCHANGED <<cwd, opened, lost>>

Goto(p, where) ==
  /\ vfsAt' = [vfsAt EXCEPT ![p] = where]
  /\ UNCHANGED <<mounts, cwd, call, opened, result, madeCalls>>

-----------------------------------------------------------------------------
(* resolve_path_at: one component.                                         *)

(* The file system mounted on an inode, on that one's root, and so on.     *)
Mounted(i) ==
  LET top[n \in 0..Len(mounts)] ==
        IF n = 0 THEN i
        ELSE LET at == {k \in DOMAIN mounts : mounts[k][1] = top[n - 1]}
             IN IF at = {} THEN top[n - 1]
                ELSE mounts[CHOOSE k \in at : \A j \in at : k <= j][2]
  IN top[Len(mounts)]

Here(p) == Last1(walk[p].path).inode
More(p) == Tail(walk[p].rest)

Skip(p) ==
  /\ Goto(p, "walk") /\ UNCHANGED <<old, lost>>
  /\ LET up == Head(walk[p].rest) = ".." /\ Len(walk[p].path) > 1
     IN /\ walk' = [walk EXCEPT ![p].rest = Tail(@),
                                ![p].path = IF up THEN Front(@) ELSE @]
        /\ inode' = IF up THEN Unref(inode, <<Here(p)>>) ELSE inode

(* The path ends in a name that does not exist.                            *)
JoinNothing(p) ==
  /\ Goto(p, "walk") /\ UNCHANGED <<inode, old, lost>>
  /\ walk' = [walk EXCEPT ![p].rest = <<>>,
                          ![p].path = Append(@, Node(NoInode, Head(walk[p].rest)))]

Join(p, t, child) ==
  /\ Goto(p, "walk") /\ UNCHANGED old
  /\ inode' = t
  /\ walk' = [walk EXCEPT ![p].rest = Tail(@),
                          ![p].path = Append(@, Node(child, Head(walk[p].rest)))]

(* follow_symlink: resolve_path_at calls itself with the target and what   *)
(* is left of the path.  A target that is not written yet leaves a path    *)
(* that begins with a separator.                                           *)
AfterLink(p, link, depth) ==
  LET target == inode[link].target
      rest == IF More(p) = <<>> THEN <<".">> ELSE More(p)
  IN Begin(walk[p].path, target = <<>>, target \o rest, walk[p].flags, depth,
           walk[p].outer \o NodesOf(walk[p].path))

(* Mutant: the walk goes on without counting the links.                    *)
FollowSymlinkUncounted(p, link) ==
  LET w == [AfterLink(p, link, walk[p].depth) EXCEPT !.outer = walk[p].outer]
  IN /\ Goto(p, "walk") /\ UNCHANGED old
     /\ walk' = [walk EXCEPT ![p] = w]
     /\ inode' = Unref(Ref(inode, NodesOf(w.path)), NodesOf(walk[p].path))

FollowSymlink(p, link) ==
  LET w == AfterLink(p, link, walk[p].depth + 1)
  IN /\ Goto(p, "walk") /\ UNCHANGED old
     /\ walk' = [walk EXCEPT ![p] = w]
     /\ inode' = Ref(inode, NodesOf(w.path))

(* An inode that a file system is mounted on keeps the reference that the  *)
(* look-up took: resolve_mounts drops it nowhere.                          *)
Descend(p, child) ==
  LET top == Mounted(child)
      t == Ref(inode, <<child>> \o IF top = child THEN <<>> ELSE <<top>>)
      isLink == inode[top].kind = "lnk"
      follow == More(p) # <<>> \/ "nofollow" \notin walk[p].flags
  IN /\ lost' = IF top = child THEN lost ELSE Lose(child)
     /\ \/ isLink /\ walk[p].depth > SYMLOOP_MAX
           /\ Return(p, inode, "ELOOP") /\ UNCHANGED <<cwd, opened>>
        \/ isLink /\ walk[p].depth <= SYMLOOP_MAX /\ follow /\ FollowSymlink(p, top)
        \/ isLink /\ walk[p].depth <= SYMLOOP_MAX /\ ~follow
           /\ "noerror" \notin walk[p].flags
           /\ Return(p, inode, "ELOOP") /\ UNCHANGED <<cwd, opened>>
        \/ (isLink => walk[p].depth <= SYMLOOP_MAX /\ ~follow /\ "noerror" \in walk[p].flags)
           /\ Join(p, t, top)

Component(p) ==
  LET name == Head(walk[p].rest)
      child == Find(inode, Here(p), name)
  IN /\ vfsAt[p] = "walk" /\ walk[p].rest # <<>>
     /\ \/ name \in {".", ".."} /\ Skip(p)
        \/ /\ name \notin {".", ".."}
           /\ \/ ~IsDir(inode, Here(p)) /\ Finish(p, inode, "ENOTDIR")
              \/ IsDir(inode, Here(p)) /\ child # NoInode /\ Descend(p, child)
              \/ IsDir(inode, Here(p)) /\ child = NoInode
                 /\ "noent" \in walk[p].flags /\ More(p) = <<>> /\ JoinNothing(p)
              \/ IsDir(inode, Here(p)) /\ child = NoInode
                 /\ ~("noent" \in walk[p].flags /\ More(p) = <<>>)
                 /\ Finish(p, inode, "ENOENT")

(* The calls of resolve_path_at that followed symbolic links return.       *)
Unwind(p) ==
  /\ vfsAt[p] = "walk" /\ walk[p].rest = <<>> /\ walk[p].outer # <<>>
  /\ inode' = Unref(inode, walk[p].outer)
  /\ walk' = [walk EXCEPT ![p].outer = <<>>]
  /\ Goto(p, "walk") /\ UNCHANGED <<old, lost>>

-----------------------------------------------------------------------------
(* The calls, once their path is resolved.                                 *)

Resolved(p, op) ==
  /\ vfsAt[p] = "walk" /\ walk[p].rest = <<>> /\ walk[p].outer = <<>>
  /\ call[p].op = op /\ old[p] = <<>>
Target(p) == Last1(walk[p].path).inode
HasParent(path) == Len(path) > 1

(* access, stat, lstat and readlink change nothing.                        *)
Stat(p) == \E op \in {"access", "stat", "lstat"} :
  Resolved(p, op) /\ Finish(p, inode, "ok")

Chdir(p) ==
  /\ Resolved(p, "chdir")
  /\ \/ ~IsDir(inode, Target(p)) /\ Finish(p, inode, "ENOTDIR")
     \/ /\ IsDir(inode, Target(p))
        /\ cwd' = [cwd EXCEPT ![p] = walk[p].path]
        /\ Return(p, Ref(Unref(inode, NodesOf(cwd[p])), NodesOf(walk[p].path)), "ok")
        /\ UNCHANGED <<opened, lost>>

(* create_at                                                               *)
Creating(p) == call[p].op \in {"mkdir", "mknod", "symlink"} \/ "creat" \in call[p].flags
Exclusive(p) == call[p].op \in {"mkdir", "mknod", "symlink"} \/ "excl" \in call[p].flags
KindOf(c) ==
  CASE c.op = "mkdir" -> "dir" [] c.op = "symlink" -> "lnk"
    [] c.op = "mknod" -> "fifo" [] OTHER -> "reg"

CreateAt(p) ==
  /\ \E op \in {"open", "mkdir", "mknod", "symlink"} : Resolved(p, op)
  /\ \/ Target(p) = NoInode /\ Goto(p, "create") /\ UNCHANGED <<inode, walk, old, lost>>
     \/ Target(p) # NoInode /\ Creating(p) /\ Exclusive(p) /\ Finish(p, inode, "EEXIST")
     \/ Target(p) # NoInode /\ ~(Creating(p) /\ Exclusive(p))
        /\ Goto(p, "have") /\ UNCHANGED <<inode, walk, old, lost>>

(* The new inode is referred to by its entry and by the path.  Without     *)
(* memory the reference to the directory is forgotten.                     *)
CreateChild(p) ==
  LET dir == Parent(walk[p].path)  name == Last1(walk[p].path).name
  IN /\ vfsAt[p] = "create"
     /\ \/ FreeInodes(inode) = {}
           /\ Return(p, Ref(inode, <<dir>>), "ENOMEM")
           /\ lost' = Lose(dir) /\ UNCHANGED <<cwd, opened>>
        \/ FreeInodes(inode) # {} /\ Find(inode, dir, name) # NoInode
           /\ Exclusive(p) /\ Finish(p, inode, "EEXIST")
        \/ FreeInodes(inode) # {} /\ Find(inode, dir, name) # NoInode
           /\ ~Exclusive(p) /\ Goto(p, "find") /\ UNCHANGED <<inode, walk, old, lost>>
        \/ /\ FreeInodes(inode) # {} /\ Find(inode, dir, name) = NoInode
           /\ LET i == CHOOSE j \in FreeInodes(inode) : TRUE
                  t == [inode EXCEPT ![i] = New(KindOf(call[p]), inode[dir].dev, 2)]
              IN /\ inode' = Append1(t, dir, name, i)
                 /\ walk' = [walk EXCEPT ![p].path[Len(walk[p].path)].inode = i]
                 /\ Goto(p, "have") /\ UNCHANGED <<old, lost>>

(* Another process made the file first: look it up, and create it again    *)
(* when it is gone by then.                                                *)
FindCreated(p) ==
  LET dir == Parent(walk[p].path)
      i == Find(inode, dir, Last1(walk[p].path).name)
  IN /\ vfsAt[p] = "find"
     /\ UNCHANGED <<old, lost>>
     /\ \/ i = NoInode /\ Goto(p, "create") /\ UNCHANGED <<inode, walk>>
        \/ /\ i # NoInode /\ Goto(p, "have") /\ inode' = Ref(inode, <<i>>)
           /\ walk' = [walk EXCEPT ![p].path[Len(walk[p].path)].inode = i]

(* inode_open: the file keeps the reference of the path.                   *)
OpenInode(p, t, i) ==
  \/ /\ ~(IsDir(t, i) /\ "write" \in call[p].flags)
     /\ opened' = [opened EXCEPT ![p] = i]
     /\ Return(p, Ref(t, <<i>>), "ok") /\ UNCHANGED cwd
  \/ IsDir(t, i) /\ "write" \in call[p].flags
     /\ Return(p, t, "EISDIR") /\ UNCHANGED <<cwd, opened>>

(* What vfs_open_at, sys_mkdir, sys_mknod and sys_symlink do with it.      *)
Have(p) ==
  /\ vfsAt[p] = "have"
  /\ \/ call[p].op \in {"mkdir", "mknod"} /\ Finish(p, inode, "ok")
     \/ call[p].op = "symlink" /\ Goto(p, "target") /\ UNCHANGED <<inode, walk, old, lost>>
     \/ call[p].op = "open" /\ inode[Target(p)].kind # "fifo"
        /\ OpenInode(p, inode, Target(p)) /\ UNCHANGED lost
     \/ call[p].op = "open" /\ inode[Target(p)].kind = "fifo"
        /\ inode[Target(p)].fifo # NoInode
        /\ OpenInode(p, inode, inode[Target(p)].fifo) /\ UNCHANGED lost
     \/ call[p].op = "open" /\ inode[Target(p)].kind = "fifo"
        /\ inode[Target(p)].fifo = NoInode
        /\ Goto(p, "fifo") /\ UNCHANGED <<inode, walk, old, lost>>

(* sys_symlink writes the target into the file, which it never closes.     *)
WriteTarget(p) ==
  /\ vfsAt[p] = "target"
  /\ Return(p, Ref([inode EXCEPT ![Target(p)].target = call[p].target],
                   <<Target(p)>>), "ok")
  /\ lost' = Lose(Target(p)) /\ UNCHANGED <<cwd, opened>>

(* resolve_special_file makes the FIFO of a FIFO file when it is first     *)
(* opened.  Of two processes that do so at once one loses: it opens the    *)
(* other's, and forgets its own and the file.                              *)
InstallFifo(p) ==
  LET file == Target(p)
      mine == CHOOSE j \in FreeInodes(inode) : TRUE
      theirs == inode[file].fifo
      made(n) == [inode EXCEPT ![mine] = New("pipe", inode[file].dev, n)]
  IN /\ vfsAt[p] = "fifo"
     /\ \/ /\ FreeInodes(inode) = {}
           /\ Return(p, Ref(inode, <<file>>), "ENOMEM")
           /\ lost' = Lose(file) /\ UNCHANGED <<cwd, opened>>
        \/ /\ FreeInodes(inode) # {} /\ theirs = NoInode
           /\ OpenInode(p, [made(1) EXCEPT ![file].fifo = mine], mine)
           /\ UNCHANGED lost
        \/ /\ FreeInodes(inode) # {} /\ theirs # NoInode
           /\ OpenInode(p, Ref(made(1), <<file>>), theirs)
           /\ lost' = [Lose(file) EXCEPT ![mine] = @ + 1]

CloseFile(p) ==
  /\ vfsAt[p] = "do"
  /\ opened' = [opened EXCEPT ![p] = NoInode]
  /\ Return(p, Unref(inode, <<opened[p]>>), "ok") /\ UNCHANGED <<cwd, lost>>

(* mount_at: the mount keeps the path's reference to the host.             *)
MountAt(p, host, guest) ==
  /\ mounts' = <<<<host, guest>>>> \o mounts
  /\ inode' = Unref(Ref([inode EXCEPT ![guest] = New("dir", guest, 1)], <<host>>), Held(p))
  /\ vfsAt' = [vfsAt EXCEPT ![p] = "user"] /\ result' = [result EXCEPT ![p] = "ok"]
  /\ walk' = [walk EXCEPT ![p] = Idle]
  /\ UNCHANGED <<old, call, madeCalls, cwd, opened, lost>>

(* sys_mount of a tmpfs.                                                   *)
Mount(p) ==
  LET guest == CHOOSE j \in FreeInodes(inode) : TRUE
  IN /\ Resolved(p, "mount")
     /\ \/ FreeInodes(inode) = {} /\ Finish(p, inode, "ENOMEM")
        \/ FreeInodes(inode) # {} /\ ~IsDir(inode, Target(p)) /\ Finish(p, inode, "ENOTDIR")
        \/ FreeInodes(inode) # {} /\ IsDir(inode, Target(p)) /\ MountAt(p, Target(p), guest)

-----------------------------------------------------------------------------
(* link, unlink, rename and rmdir.                                         *)

(* The first path of two is resolved: go on with the second.               *)
NextPath(p) ==
  LET w == Begin(cwd[p], call[p].abs, call[p].new, {"noent"}, 0, <<>>)
  IN /\ old' = [old EXCEPT ![p] = walk[p].path]
     /\ walk' = [walk EXCEPT ![p] = w]
     /\ inode' = Ref(inode, NodesOf(w.path))
     /\ Goto(p, "walk") /\ UNCHANGED lost

OldResolved(p) ==
  \/ /\ Resolved(p, "link")
     /\ \/ IsDir(inode, Target(p)) /\ Finish(p, inode, "EPERM")
        \/ ~IsDir(inode, Target(p)) /\ NextPath(p)
  \/ /\ Resolved(p, "rename")
     /\ \/ ~HasParent(walk[p].path) /\ Finish(p, inode, "EPERM")
        \/ HasParent(walk[p].path) /\ NextPath(p)

(* inode_unlink_child for the last name of a path: the entry goes, with    *)
(* whatever inode it names by now.                                         *)
IsNamed(path) == Find(inode, Parent(path), Last1(path).name) # NoInode

(* Mutant: the reference that the entry held stays.                        *)
UnlinkedKeepingRef(path) ==
  Remove1(inode, Parent(path), Last1(path).name)

Unlinked(path) ==
  LET dir == Parent(path)  name == Last1(path).name
  IN Unref(Remove1(inode, dir, name), <<Find(inode, dir, name)>>)

UnlinkLast(p, path) ==
  \/ IsNamed(path) /\ Finish(p, Unlinked(path), "ok")
  \/ ~IsNamed(path) /\ Finish(p, inode, "ENOENT")

(* ensure_empty_directory; the entries are not locked afterwards.          *)
IsEmpty(dir) == inode[dir].entries = <<>>

Refusal(p) ==
  CASE ~HasParent(walk[p].path) -> "EPERM"
    [] call[p].op = "unlink" /\ IsDir(inode, Target(p)) -> "EPERM"
    [] call[p].op = "rmdir" /\ ~IsDir(inode, Target(p)) -> "ENOTDIR"
    [] call[p].op = "rmdir" /\ ~IsEmpty(Target(p)) -> "ENOTEMPTY"
    [] OTHER -> "ok"

UnlinkCheck(p) ==
  /\ Resolved(p, "unlink") \/ Resolved(p, "rmdir")
  /\ \/ Refusal(p) # "ok" /\ Finish(p, inode, Refusal(p))
     \/ Refusal(p) = "ok" /\ Goto(p, "unlink") /\ UNCHANGED <<inode, walk, old, lost>>

UnlinkStep(p) == vfsAt[p] = "unlink" /\ UnlinkLast(p, walk[p].path)

(* Both paths of link or rename are resolved.                              *)
Source(p) == Last1(old[p]).inode

Verdict(p) ==
  CASE Target(p) = NoInode -> "link"
    [] call[p].op = "link" -> "EEXIST"
    [] ~HasParent(walk[p].path) -> "EPERM"
    [] Target(p) = Source(p) -> "ok"
    [] IsDir(inode, Target(p)) /\ ~IsDir(inode, Source(p)) -> "EISDIR"
    [] IsDir(inode, Target(p)) /\ ~IsEmpty(Target(p)) -> "ENOTEMPTY"
    [] OTHER -> "replace"

NewResolved(p) ==
  /\ vfsAt[p] = "walk" /\ walk[p].rest = <<>> /\ walk[p].outer = <<>>
  /\ old[p] # <<>>
  /\ \/ Verdict(p) \in {"link", "replace"}
        /\ Goto(p, Verdict(p)) /\ UNCHANGED <<inode, walk, old, lost>>
     \/ Verdict(p) \notin {"link", "replace"} /\ Finish(p, inode, Verdict(p))

(* rename removes what has the new name, ...                               *)
Replace(p) ==
  /\ vfsAt[p] = "replace"
  /\ \/ IsNamed(walk[p].path) /\ inode' = Unlinked(walk[p].path)
        /\ Goto(p, "link") /\ UNCHANGED <<walk, old, lost>>
     \/ ~IsNamed(walk[p].path) /\ Finish(p, inode, "ENOENT")

(* ... gives the name to the file (all that link does), ...                *)
LinkNew(p) ==
  LET dir == Parent(walk[p].path)
      linked == Append1(Ref(inode, <<Source(p)>>), dir, Last1(walk[p].path).name, Source(p))
  IN /\ vfsAt[p] = "link"
     /\ \/ inode[dir].dev # inode[Source(p)].dev /\ Finish(p, inode, "EXDEV")
        \/ inode[dir].dev = inode[Source(p)].dev
           /\ IsNamed(walk[p].path) /\ Finish(p, inode, "EEXIST")
        \/ inode[dir].dev = inode[Source(p)].dev /\ ~IsNamed(walk[p].path)
           /\ call[p].op = "link" /\ Finish(p, linked, "ok")
        \/ inode[dir].dev = inode[Source(p)].dev /\ ~IsNamed(walk[p].path)
           /\ call[p].op = "rename" /\ inode' = linked
           /\ Goto(p, "unlink old") /\ UNCHANGED <<walk, old, lost>>

(* ... and removes the old name, whatever it names by now.                 *)
UnlinkOld(p) == vfsAt[p] = "unlink old" /\ UnlinkLast(p, old[p])

Step(p) ==
  \/ Component(p) \/ Unwind(p) \/ Stat(p) \/ Chdir(p) \/ CreateAt(p)
  \/ CreateChild(p) \/ FindCreated(p) \/ Have(p) \/ WriteTarget(p)
  \/ InstallFifo(p) \/ CloseFile(p) \/ Mount(p) \/ OldResolved(p)
  \/ UnlinkCheck(p) \/ UnlinkStep(p) \/ NewResolved(p) \/ Replace(p)
  \/ LinkNew(p) \/ UnlinkOld(p)

Next == \E p \in Procs : Call(p) \/ Step(p)

(* Weak fairness of Step(p), which is enabled whenever p is in a call: the *)
(* scheduler goes on running a process, and no step here blocks.           *)
Fairness ==
  \A p \in Procs : []<>(vfsAt[p] = "user") \/ []<><<Step(p)>>_vfsVars

Spec == Init /\ [][Next]_vfsVars /\ Fairness

-----------------------------------------------------------------------------
NamesOf(i) == LinksFrom(inode, Inodes, i)

HeldByProcs(i) ==
  LET held(p) == Occurs(i, Held(p)) + Occurs(i, NodesOf(cwd[p]))
                 + IF opened[p] = i THEN 1 ELSE 0
  IN MapThenSumSet(held, Procs)

HeldByKernel(i) ==
  Cardinality({at \in (DOMAIN mounts) \X {1, 2} : mounts[at[1]][at[2]] = i})
  + Cardinality({j \in Inodes : inode[j].fifo = i})
  + IF i = Root THEN 1 ELSE 0

(* Whatever calls interleave, an inode's link count is the number of       *)
(* entries that name it, and its reference count that of the entries,      *)
(* paths, working directories, open files, mounts and FIFO files that      *)
(* refer to it, plus what the code is known to forget: nothing that is     *)
(* still named or in use is destroyed, and nothing else leaks.             *)
CountsExact ==
  \A i \in Inodes :
    /\ inode[i].links = NamesOf(i)
    /\ inode[i].refs = NamesOf(i) + HeldByProcs(i) + HeldByKernel(i) + lost[i]

(* Every call returns: a walk through symbolic links that point at each    *)
(* other gives up, and open(O_CREAT) does not retry for ever.              *)
CallsReturn == \A p \in Procs : vfsAt[p] # "user" ~> vfsAt[p] = "user"
=============================================================================
