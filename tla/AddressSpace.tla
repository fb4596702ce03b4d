---------------------------- MODULE AddressSpace ----------------------------
(***************************************************************************)
(* What the functions of memory/vm.c promise, without lists or page        *)
(* tables: an address space is a function that says of each page whether   *)
(* it is taken and with which access.  A call changes the pages it was     *)
(* asked to change, or a range of free pages it has chosen, and no other.  *)
(***************************************************************************)
EXTENDS Naturals

CONSTANTS
  Addrs,      \* page numbers
  Sizes,      \* in pages
  Flags       \* access of a page; "none" is taken but not mapped

Free == "free"

VARIABLES
  space,      \* what every page is used for
  call        \* the last call that succeeded, with its arguments

Ops == {"none", "map", "map_at", "protect", "unmap", "free", "resize"}

TypeOK ==
  /\ space \in [Addrs -> Flags \cup {Free}]
  /\ call \in [op : Ops, at : Addrs, size : Sizes \cup {0}, flags : Flags]

Init ==
  /\ space = [a \in Addrs |-> Free]
  /\ call = [op |-> "none", at |-> 0, size |-> 0, flags |-> "none"]

Range(a, n) == {x \in Addrs : a <= x /\ x < a + n}
Asked == Range(call'.at, call'.size)
Was(S, f) == \A a \in S : space[a] = f
Set(S, f) == [a \in Addrs |-> IF a \in S THEN f ELSE space[a]]

(* vm_alloc, vm_phys_map, vm_virt_map: free pages, wherever they are.      *)
Map ==
  /\ call'.op = "map"
  /\ \E a \in Addrs :
       /\ Was(Range(a, call'.size), Free)
       /\ space' = Set(Range(a, call'.size), call'.flags)

(* vm_alloc_at.                                                            *)
MapAt == call'.op = "map_at" /\ Was(Asked, Free) /\ space' = Set(Asked, call'.flags)

(* vm_set_flags.                                                           *)
Protect ==
  /\ call'.op = "protect" /\ \A a \in Asked : space[a] # Free
  /\ space' = Set(Asked, call'.flags)

(* vm_unmap.                                                               *)
Unmap ==
  /\ call'.op = "unmap" /\ \A a \in Asked : space[a] # Free
  /\ space' = Set(Asked, Free)

(* vm_resize, vm_free: what was mapped at the address is given up for      *)
(* pages of the same access, at the same place or at one that was free; a  *)
(* region that is freed has no pages left.                                 *)
Resize ==
  /\ call'.op \in {"resize", "free"}
  /\ \E n \in Sizes, b \in Addrs, f \in Flags :
       LET old == Range(call'.at, n)
           new == Range(b, call'.size)
       IN /\ Was(old, f) /\ Was(new \ old, Free)
          /\ b = call'.at \/ new \cap old = {}
          /\ space' = [a \in Addrs |-> IF a \in new THEN f
                                       ELSE IF a \in old THEN Free ELSE space[a]]

Next == Map \/ MapAt \/ Protect \/ Unmap \/ Resize

Spec == Init /\ [][Next]_<<space, call>>
=============================================================================
