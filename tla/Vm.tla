--------------------------------- MODULE Vm ---------------------------------
(***************************************************************************)
(* The regions of one address space (memory/vm.c) and the page table they  *)
(* stand for: the kernel's heap or the user half of a process.  Every      *)
(* function runs under the lock of the address space and is one step.  A   *)
(* call that returns an error leaves everything as it was (Pages shows     *)
(* that for the page table), and is not a step: the number of physical     *)
(* pages and the size of the address space decide whether a call fails.    *)
(* A failed assertion stops the system: "panicked" says which one.         *)
(*                                                                         *)
(* The unit is the page; what page_align_range does has been done.         *)
(***************************************************************************)
EXTENDS Naturals, Sequences, FiniteSets, FiniteSetsExt, SequencesExt

CONSTANTS
  NumAddrs,   \* vm->end - vm->start
  NumPages,   \* physical pages
  Flags,      \* "none": neither VM_READ nor VM_WRITE; "ro", "rw"
  MaxSize,    \* bound: the size of a region
  MaxCalls    \* bound: calls in a behaviour

Addrs == 0..(NumAddrs + MaxSize)      \* a resize may reach past the end
Sizes == 1..MaxSize
Foreign == 0                          \* a page that belongs to somebody else
Absent == [page |-> Foreign, flags |-> "none"]

VARIABLES
  user,       \* whose address space: a process's, or else the kernel's
  regions,    \* vm->regions, in the order of the list; "end" is exclusive
  pt,         \* the page table
  panicked,   \* the assertion that failed, or "no"
  call,       \* history: the last call that succeeded, with its arguments
  calls       \* calls made so far

vars == <<user, regions, pt, panicked, call, calls>>

RegionSet == [start : Addrs, end : Addrs, flags : Flags]
Asserts == {"no", "map", "unmap", "insert", "flags", "memset"}

TypeOK ==
  /\ user \in BOOLEAN
  /\ regions \in Seq(RegionSet)
  /\ pt \in [Addrs -> [page : 0..NumPages, flags : Flags \cup {"none"}]]
  /\ panicked \in Asserts

Call(op, at, size, f) == [op |-> op, at |-> at, size |-> size, flags |-> f]

Init ==
  /\ user \in BOOLEAN
  /\ regions = <<>>
  /\ pt = [a \in Addrs |-> Absent]
  /\ panicked = "no"
  /\ call = Call("none", 0, 0, "none")
  /\ calls = 0

-----------------------------------------------------------------------------
PagesOf(a, n) == a..(a + n - 1)
Present(a) == pt[a].flags # "none"
AllPresent(a, n) == \A x \in PagesOf(a, n) : Present(x)

InUse == {pt[a].page : a \in Addrs}
FreePages == (1..NumPages) \ InUse
NthFree(n) ==
  CHOOSE p \in FreePages : Cardinality({q \in FreePages : q < p}) = n - 1

(* The page table after page_table_map_anon, and after mapping pages of    *)
(* others: page_table_map_phys, page_table_shallow_copy from kernel_vm.    *)
MapAnon(t, a, n, f) ==
  [x \in Addrs |-> IF x \in PagesOf(a, n)
                    THEN [page |-> NthFree(x - a + 1), flags |-> f] ELSE t[x]]
MapForeign(t, a, n, f) ==
  [x \in Addrs |-> IF x \in PagesOf(a, n) THEN [page |-> Foreign, flags |-> f] ELSE t[x]]
UnmapPages(t, a, n) == [x \in Addrs |-> IF x \in PagesOf(a, n) THEN Absent ELSE t[x]]
SetFlags(t, a, n, f) ==
  [x \in Addrs |-> IF x \in PagesOf(a, n) THEN [t[x] EXCEPT !.flags = f] ELSE t[x]]

Region(a, b, f) == [start |-> a, end |-> b, flags |-> f]
Size(i) == regions[i].end - regions[i].start

(* vm_find_region.                                                         *)
Holds(i, a) == regions[i].start <= a /\ a < regions[i].end

(* A part of a region, if there is anything of it, and the list in which   *)
(* the regions of s have replaced region i.                                *)
Part(a, b, f) == IF a < b THEN <<Region(a, b, f)>> ELSE <<>>
Splice(i, s) == SubSeq(regions, 1, i - 1) \o s \o SubSeq(regions, i + 1, Len(regions))

Panic(what) == panicked' = what /\ UNCHANGED <<regions, pt, call>>
Return(op, at, size, f) == call' = Call(op, at, size, f) /\ UNCHANGED panicked

(* vm_find_gap: after region i there are size free pages.  The space       *)
(* before the first region is not used.                                    *)
Gaps(size) ==
  {i \in 1..Len(regions) :
     regions[i].end + size <=
       IF i < Len(regions) THEN regions[i + 1].start ELSE NumAddrs}

(* i is the region after which the first gap is found, 0 if there is no    *)
(* region at all; a is where the gap begins.                               *)
FindGap(size, i, a) ==
  \/ regions = <<>> /\ i = 0 /\ a = 0 /\ size <= NumAddrs
  \/ /\ i \in Gaps(size) /\ \A j \in Gaps(size) : i <= j
     /\ a = regions[i].end

(* The assertions of vm_insert_region_after.                               *)
InsertOk(i, r) ==
  /\ i > 0 => regions[i].end <= r.start
  /\ i < Len(regions) => r.end <= regions[i + 1].start

-----------------------------------------------------------------------------
(* alloc: the range found is mapped unless it is to be inaccessible.       *)
AllocGap(size, f) ==
  /\ \E i \in 0..Len(regions), a \in Addrs :
       /\ FindGap(size, i, a)
       /\ f # "none" => size <= Cardinality(FreePages)
       /\ regions' = InsertAt(regions, i + 1, Region(a, a + size, f))
       /\ pt' = IF f = "none" THEN pt ELSE MapAnon(pt, a, size, f)
  /\ Return("map", 0, size, f)

(* vm_alloc, for kmalloc, for the stack of a program, and for an anonymous *)
(* mmap, which clears the new pages and faults in the kernel if the        *)
(* mapping asked for is not writable.                                      *)
Alloc(size, f) ==
  IF f = "rw" THEN AllocGap(size, f)
  ELSE /\ user
       /\ \E i \in 0..Len(regions), a \in Addrs : FindGap(size, i, a)
       /\ f # "none" => size <= Cardinality(FreePages)
       /\ Panic("memset")

(* phys_map of a device, and virt_map of something shared.                 *)
AllocForeign(size, f) ==
  /\ f = "none" => user                      \* from mmap of a frame buffer
  /\ \E i \in 0..Len(regions), a \in Addrs :
       /\ FindGap(size, i, a)
       /\ regions' = InsertAt(regions, i + 1, Region(a, a + size, f))
       /\ pt' = IF f = "none" THEN pt ELSE MapForeign(pt, a, size, f)
  /\ Return("map", 0, size, f)

(* virt_map of something private: an allocation with write access for the  *)
(* copy, which set_flags takes away again.                                 *)
AllocCopy(size, f) ==
  /\ user
  /\ IF f # "none" THEN AllocGap(size, f)
     ELSE /\ \E i \in 0..Len(regions), a \in Addrs : FindGap(size, i, a)
          /\ Panic("flags")          \* to_pte_flags: write access without read

(* Regions that begin before a: none of them may reach beyond a.           *)
Before(a) == {i \in 1..Len(regions) : regions[i].start < a}

(* alloc_at, from exec, with the check of vm_alloc_at.  The range is mapped *)
(* page by page up to one that is present already.                         *)
AllocAt(a, size) ==
  LET i == Cardinality(Before(a))
      r == Region(a, a + size, "rw")
      present == {x \in PagesOf(a, size) : Present(x)}
  IN /\ user
     /\ a + size <= NumAddrs
     /\ \A j \in Before(a) : regions[j].end <= a
     /\ Min(present \cup {a + size}) - a <= Cardinality(FreePages)
     /\ IF present # {} THEN Panic("map")
        ELSE IF ~InsertOk(i, r) THEN Panic("insert")
        ELSE /\ regions' = InsertAt(regions, i + 1, r)
             /\ pt' = MapAnon(pt, a, size, "rw")
             /\ Return("map_at", a, size, "rw")

(* Mutant: the new flags are given to what is left of the region, too.     *)
SetRegionFlagsAll(i, a, size, f) ==
  LET r == regions[i]
      b == a + size
  IN /\ user /\ Holds(i, a) /\ b <= r.end /\ r.flags # f
     /\ r.flags # "none"
     /\ regions' = Splice(i, Part(r.start, a, f) \o Part(a, b, f) \o Part(b, r.end, r.flags))
     /\ pt' = IF f = "none" THEN UnmapPages(pt, a, size)
              ELSE SetFlags(pt, a, size, f)
     /\ Return("protect", a, size, f)

(* set_flags, from exec: the whole region, its beginning, its end or its   *)
(* middle.  A region without access is not given any.                      *)
SetRegionFlags(i, a, size, f) ==
  LET r == regions[i]
      b == a + size
  IN /\ user /\ Holds(i, a) /\ b <= r.end /\ r.flags # f
     /\ r.flags # "none"
     /\ regions' = Splice(i, Part(r.start, a, r.flags) \o Part(a, b, f)
                               \o Part(b, r.end, r.flags))
     /\ pt' = IF f = "none" THEN UnmapPages(pt, a, size)
              ELSE SetFlags(pt, a, size, f)
     /\ Return("protect", a, size, f)

(* page_table_unmap asserts that every page is present.                    *)
UnmapTo(a, n, rs, op, at, size) ==
  IF AllPresent(a, n)
    THEN regions' = rs /\ pt' = UnmapPages(pt, a, n) /\ Return(op, at, size, "none")
    ELSE Panic("unmap")

(* Mutant: the region is not split, all of it is unmapped.                 *)
UnmapRangeWhole(i, a, size) ==
  /\ Holds(i, a) /\ a + size <= regions[i].end
  /\ UnmapTo(regions[i].start, Size(i), RemoveAt(regions, i), "unmap", a, size)

(* unmap, from munmap: the same four cases.                                *)
UnmapRange(i, a, size) ==
  LET r == regions[i]
      b == a + size
      rest == Splice(i, Part(r.start, a, r.flags) \o Part(b, r.end, r.flags))
  IN Holds(i, a) /\ b <= r.end /\ UnmapTo(a, size, rest, "unmap", a, size)

(* vm_free, from kfree.                                                    *)
FreeRegion(i) ==
  LET r == regions[i]
  IN ~user /\ UnmapTo(r.start, Size(i), RemoveAt(regions, i), "free", r.start, 0)

-----------------------------------------------------------------------------
(* resize, from krealloc: to something smaller, larger where it is, or     *)
(* larger at another place.                                                *)
Shrink(i, size) ==
  LET a == regions[i].start IN
  /\ ~user /\ size < Size(i)
  /\ UnmapTo(a + size, Size(i) - size, [regions EXCEPT ![i].end = a + size],
             "resize", a, size)

FitsInPlace(i, size) ==
  i < Len(regions) => regions[i].start + size < regions[i + 1].start

(* The last region is not kept from growing past the end.                  *)
Grow(i, size) ==
  LET r == regions[i]
      more == size - Size(i)
  IN /\ ~user /\ size > Size(i) /\ FitsInPlace(i, size)
     /\ r.start + size \in Addrs        \* bound: the addresses of the model
     /\ more <= Cardinality(FreePages)
     /\ regions' = [regions EXCEPT ![i].end = r.start + size]
     /\ pt' = MapAnon(pt, r.end, more, r.flags)
     /\ Return("resize", r.start, size, "none")

(* The page table after a move: the pages at the new place, some more, and *)
(* nothing at the old one.                                                 *)
Moved(r, a, size) ==
  LET old == r.end - r.start
      copied == [x \in Addrs |->
                   IF x \in PagesOf(a, old) THEN pt[x - a + r.start] ELSE pt[x]]
  IN UnmapPages(MapAnon(copied, a + old, size - old, r.flags), r.start, old)

Move(i, size) ==
  LET r == regions[i] IN
  /\ ~user /\ size > Size(i) /\ ~FitsInPlace(i, size)
  /\ size - Size(i) <= Cardinality(FreePages)
  /\ \E j \in 0..Len(regions), a \in Addrs :
       /\ FindGap(size, j, a)
       /\ LET k == IF i < j THEN j ELSE j + 1   \* after the removal of i
          IN regions' = InsertAt(RemoveAt(regions, i), k, Region(a, a + size, r.flags))
       /\ pt' = Moved(r, a, size)
  /\ Return("resize", r.start, size, "none")

-----------------------------------------------------------------------------
Next ==
  /\ panicked = "no" /\ calls < MaxCalls
  /\ calls' = calls + 1 /\ UNCHANGED user
  /\ \/ \E size \in Sizes, f \in Flags :
          Alloc(size, f) \/ AllocForeign(size, f) \/ AllocCopy(size, f)
     \/ \E size \in Sizes, a \in 0..(NumAddrs - 1) : AllocAt(a, size)
     \/ \E i \in 1..Len(regions) :
          \/ FreeRegion(i)
          \/ \E size \in Sizes :
               \/ Shrink(i, size) \/ Grow(i, size) \/ Move(i, size)
               \/ \E a \in Addrs : UnmapRange(i, a, size)
               \/ \E a \in Addrs, f \in Flags : SetRegionFlags(i, a, size, f)

Spec == Init /\ [][Next]_vars

-----------------------------------------------------------------------------
(* The list stays sorted and its regions are disjoint and not empty, as    *)
(* vm_find_region and vm_find_gap assert on their way, through every       *)
(* sequence of calls.                                                      *)
Sorted ==
  /\ \A i \in 1..Len(regions) : regions[i].start < regions[i].end
  /\ \A i \in 1..(Len(regions) - 1) : regions[i].end <= regions[i + 1].start

(* The page table holds what the list says: a page of a region has the     *)
(* region's access, everything else is absent.                             *)
FlagsAt(a) ==
  IF \E i \in 1..Len(regions) : Holds(i, a)
    THEN regions[CHOOSE i \in 1..Len(regions) : Holds(i, a)].flags
    ELSE "none"
TableExact == \A a \in Addrs : pt[a].flags = FlagsAt(a)

(* A resize keeps the pages that are there, in their order, and leaves     *)
(* every other region alone: the contents of a krealloc are preserved,     *)
(* moved or not.                                                           *)
Taken == {a \in Addrs : \E i \in 1..Len(regions) : Holds(i, a)}
Resized == Len(regions') = Len(regions) /\ Cardinality(Taken') > Cardinality(Taken)
KeepsPages ==
  [][Resized =>
       \E i, j \in 1..Len(regions) :
         /\ RemoveAt(regions, i) = RemoveAt(regions', j)
         /\ \A k \in 0..(Size(i) - 1) :
              pt'[regions'[j].start + k] = pt[regions[i].start + k]
         /\ \A a \in Taken \ PagesOf(regions[i].start, Size(i)) : pt'[a] = pt[a]]_vars

(* Every call does to the address space what its arguments say and nothing *)
(* else: the list and the page table implement AddressSpace.               *)
Space == INSTANCE AddressSpace WITH
  space <- [a \in Addrs |->
              IF \E i \in 1..Len(regions) : Holds(i, a)
                THEN regions[CHOOSE i \in 1..Len(regions) : Holds(i, a)].flags
                ELSE "free"]
ImplementsAddressSpace == Space!Spec
=============================================================================
