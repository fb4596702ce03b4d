------------------------------ MODULE Listing -------------------------------
(***************************************************************************)
(* Listing a directory: readdir of the C library (userland/lib/dirent.c)   *)
(* over getdents (kernel/syscall/fs.c, kernel/fs/dentry.c) of a tmpfs      *)
(* directory, to which others add names and from which they remove them    *)
(* between the calls.  The directory's lock makes each call one step.      *)
(***************************************************************************)
EXTENDS Naturals, Sequences, SequencesExt, FiniteSets

CONSTANTS Names,
          rec_len,        \* [Names -> Nat]: the size of an entry's record
          FirstCapacity,  \* of the buffer readdir starts with
          InitialNames,   \* the names there at first, in order
          MaxChanges      \* bound: names added and removed

VARIABLES children,       \* the directory's entries
          offset,         \* file->offset: entries passed
          buf, capacity,  \* DIR: the entries not yet handed out, the buffer's size
          at,
          listed,         \* history: what readdir returned
          stable,         \* history: names there since opendir
          shifted,        \* history: entries removed before the offset
          changes

listVars == <<children, offset, buf, capacity, at, listed, stable, shifted, changes>>

Init == /\ children = InitialNames /\ offset = 0 /\ buf = <<>> /\ capacity = FirstCapacity
        /\ at = "reading" /\ listed = <<>> /\ stable = ToSet(InitialNames) /\ shifted = 0 /\ changes = 0

-----------------------------------------------------------------------------
(* getdents_callback: the entries from the offset on whose records fit     *)
Records(from, n) ==
  LET size[k \in 0..n] == IF k = 0 THEN 0 ELSE size[k - 1] + rec_len[children[from + k]]
  IN size[n]
Fitting(from, room) == {n \in 0..(Len(children) - from) : Records(from, n) <= room}
Filled(from, room) == CHOOSE n \in Fitting(from, room) : \A k \in Fitting(from, room) : k <= n
AtEnd == offset >= Len(children)

(* Mutant: an entry that does not fit is passed all the same.              *)
dentry_getdents_eager ==
  LET n == Filled(offset, capacity)
  IN /\ buf' = SubSeq(children, offset + 1, offset + n)
     /\ offset' = IF offset + n < Len(children) THEN offset + n + 1 ELSE offset + n

dentry_getdents ==
  LET n == Filled(offset, capacity)
  IN buf' = SubSeq(children, offset + 1, offset + n) /\ offset' = offset + n

Others == UNCHANGED <<children, stable, shifted, changes>>

(* readdir: the buffer is filled again when it is used up; one too small   *)
(* for a single entry (-EINVAL) is doubled, and the call made again.       *)
Refill ==
  /\ at = "reading" /\ buf = <<>> /\ ~AtEnd /\ Filled(offset, capacity) > 0
  /\ dentry_getdents /\ UNCHANGED <<capacity, at, listed>> /\ Others
Enlarge ==
  /\ at = "reading" /\ buf = <<>> /\ ~AtEnd /\ Filled(offset, capacity) = 0
  /\ capacity' = 2 * capacity /\ UNCHANGED <<offset, buf, at, listed>> /\ Others
End ==
  /\ at = "reading" /\ buf = <<>> /\ AtEnd
  /\ at' = "end" /\ UNCHANGED <<offset, buf, capacity, listed>> /\ Others
Take ==
  /\ at = "reading" /\ buf # <<>>
  /\ listed' = Append(listed, Head(buf)) /\ buf' = Tail(buf)
  /\ UNCHANGED <<offset, capacity, at>> /\ Others

(* dentry_append and dentry_remove by others                               *)
Changing == at = "reading" /\ changes < MaxChanges /\ changes' = changes + 1
Reader == UNCHANGED <<offset, buf, capacity, at, listed>>
dentry_append(name) ==
  /\ Changing /\ name \notin ToSet(children)
  /\ children' = Append(children, name) /\ Reader /\ UNCHANGED <<stable, shifted>>
dentry_remove(name) ==
  /\ Changing /\ name \in ToSet(children)
  /\ LET k == CHOOSE j \in DOMAIN children : children[j] = name
     IN /\ children' = RemoveAt(children, k)
        /\ shifted' = shifted + (IF k <= offset THEN 1 ELSE 0)
  /\ stable' = stable \ {name} /\ Reader

Next == \/ Refill \/ Enlarge \/ End \/ Take
        \/ \E name \in Names : dentry_append(name) \/ dentry_remove(name)

Spec == Init /\ [][Next]_listVars

-----------------------------------------------------------------------------
Times(name) == Cardinality({k \in DOMAIN listed : listed[k] = name})

(* A name that stays is listed at most once, whatever comes and goes       *)
(* around it, and all of them are listed in the end, but for one at most   *)
(* for every entry removed from the part already passed: the offset counts *)
(* entries, and those behind the removed one move down.  The buffer grows  *)
(* no further than twice the largest record.                               *)
ListsOnce ==
  /\ \A name \in stable : Times(name) <= 1
  /\ at = "end" => Cardinality({name \in stable : Times(name) = 0}) <= shifted
  /\ capacity = FirstCapacity \/ \E name \in Names : capacity < 2 * rec_len[name]
=============================================================================
