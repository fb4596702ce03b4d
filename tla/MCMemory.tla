------------------------------ MODULE MCMemory ------------------------------
(***************************************************************************)
(* Memory: a behaviour is about physical pages and the page tables of two  *)
(* address spaces, or about the regions of one.                            *)
(***************************************************************************)
EXTENDS Pages

CONSTANTS NumAddrs, VmPages, Flags, MaxSize, MaxCalls

VARIABLES which, user, regions, pt, panicked, call, calls

V == INSTANCE Vm WITH NumPages <- VmPages

vmVars == <<user, regions, pt, panicked, call, calls>>

MCInit == which \in {"pages", "regions"} /\ Init /\ V!Init

MCNext ==
  /\ UNCHANGED which
  /\ \/ which = "pages" /\ Next /\ UNCHANGED vmVars
     \/ which = "regions" /\ V!Next /\ UNCHANGED vars

MCSpec == MCInit /\ [][MCNext]_<<which, vars, vmVars>>

(* A page is free exactly when nothing refers to it, and is referred to as *)
(* often as its count says.                                                *)
FramesExact == BitmapExact /\ RefsExact

(* Mapping is all or nothing, and a saturated count stays.                 *)
MappingsExact == AllOrNothing /\ SaturatedStays

(* The list of regions stays sorted, and the page table holds its pages.   *)
RegionsExact == V!Sorted /\ V!TableExact

(* The list of regions and the page table implement an address space, and  *)
(* a region that is resized keeps its pages.                               *)
ImplementsAddressSpace == V!ImplementsAddressSpace /\ V!KeepsPages
=============================================================================
