------------------------------- MODULE Pages -------------------------------
(***************************************************************************)
(* Physical pages (memory/page.c) and the page tables that refer to them   *)
(* (memory/page_table.c): mapping, sharing, cloning and destroying address *)
(* spaces, one page per step.  An address space is changed under its own   *)
(* lock, so that operations on different ones interleave page by page and  *)
(* run out of memory together.                                             *)
(*                                                                         *)
(* An address space has NumTables page tables of NumEntries entries; an    *)
(* address is the number of a page in it, as in the code virt_addr >> 12.  *)
(* Page 0 is among the Reserved ones, below the kernel image.              *)
(***************************************************************************)
EXTENDS Integers, FiniteSets

CONSTANTS
  NumPages,     \* physical pages covered by the bitmap
  Reserved,     \* those that page_init does not find available
  MaxRef,       \* UINT8_MAX
  Vms,          \* address spaces
  InitVm,       \* the one that exists at first
  NumTables,    \* page tables of an address space's user half (KERNEL_PDE_IDX)
  NumEntries,   \* entries of a page table (1024)
  Destroys,     \* bound: the address spaces that are destroyed
  MaxOps        \* bound: operations in a behaviour

ASSUME SizesAssumption ==
  /\ NumPages \in Nat /\ NumTables \in Nat /\ NumEntries \in Nat \ {0}
  /\ MaxRef \in Nat \ {0, 1} /\ MaxOps \in Nat
ASSUME ReservedAssumption == 0 \in Reserved /\ Reserved \subseteq 0..(NumPages - 1)
ASSUME VmsAssumption == IsFiniteSet(Vms) /\ InitVm \in Vms /\ Destroys \subseteq Vms

PhysPages == 0..(NumPages - 1)
Beyond == NumPages          \* device memory, past what the bitmap covers
Tables == 0..(NumTables - 1)
LastAddr == NumTables * NumEntries - 1
Addrs == 0..LastAddr
TableOf(a) == a \div NumEntries
NoPage == -1
NotPresent == [page |-> NoPage, shared |-> FALSE]

VARIABLES
  refs,      \* ref_counts
  free,      \* bitmap: the pages whose bit is set
  stats,     \* stats.free_kibibytes, in pages
  live,      \* the address spaces that exist
  table,     \* page directories: the physical page of each page table
  entry,     \* page table entries
  op,        \* the operation in progress in each address space
  astray,    \* history: references that no entry accounts for (see CloneFail, Destroy)
  ops        \* operations begun

memVars == <<refs, free, stats>>
vars == <<refs, free, stats, live, table, entry, op, astray, ops>>

(* next, first and last are pages of the range it works on, or tables; of  *)
(* is the address space that is cloned.                                    *)
Idle == [kind |-> "idle", next |-> 0, first |-> 0, last |-> -1, arg |-> NotPresent, of |-> {}]
OpKinds == {"idle", "anon", "phys", "copy", "unmap", "clone", "destroy", "tables"}
Ops == [kind : OpKinds, next : Nat, first : Nat, last : Int,
        arg : [page : PhysPages \cup {NoPage, Beyond}, shared : BOOLEAN], of : SUBSET Vms]

(* page_init: pages that are not available start saturated.                *)
Init ==
  /\ refs = [p \in PhysPages |-> IF p \in Reserved THEN MaxRef ELSE 0]
  /\ free = PhysPages \ Reserved
  /\ stats = Cardinality(PhysPages \ Reserved)
  /\ live = {InitVm}
  /\ table = [v \in Vms |-> [i \in Tables |-> NoPage]]
  /\ entry = [v \in Vms |-> [a \in Addrs |-> NotPresent]]
  /\ op = [v \in Vms |-> Idle]
  /\ astray = [p \in PhysPages |-> 0]
  /\ ops = 0

-----------------------------------------------------------------------------
(* page_alloc, page_ref and page_unref, each atomic under its mutex.       *)

PageAlloc(p) ==
  /\ p \in free /\ \A q \in free : p <= q            \* bitmap_find_first_set
  /\ refs' = [refs EXCEPT ![p] = 1]
  /\ free' = free \ {p}
  /\ stats' = stats - 1

PageRef(p) ==
  \/ /\ p \in PhysPages
     /\ refs[p] > 0 /\ p \notin free                \* ASSERTed
     /\ refs' = [refs EXCEPT ![p] = IF @ < MaxRef THEN @ + 1 ELSE @]
     /\ UNCHANGED <<free, stats>>
  \/ p \notin PhysPages /\ UNCHANGED memVars

PageUnref(p) ==
  \/ /\ p \in PhysPages
     /\ refs[p] > 0 /\ p \notin free                \* ASSERTed: see UnrefAssertion
     /\ refs' = [refs EXCEPT ![p] = IF @ < MaxRef THEN @ - 1 ELSE @]
     /\ free' = IF refs[p] = 1 THEN free \cup {p} ELSE free
     /\ stats' = IF refs[p] = 1 THEN stats + 1 ELSE stats
  \/ p \notin PhysPages /\ UNCHANGED memVars

-----------------------------------------------------------------------------
(* Operations on an address space.                                         *)

Present(v, a) == entry[v][a].page # NoPage
SetEntry(v, a, e) == entry' = [entry EXCEPT ![v][a] = e]
Step(v) == op' = [op EXCEPT ![v].next = @ + 1]
Finish(v) == op' = [op EXCEPT ![v] = Idle]

(* A region has just been made for the range, or is about to go: the       *)
(* entries in it are all absent, or all present.                           *)
Begin(v, kind, first, last, arg) ==
  /\ v \in live /\ op[v] = Idle /\ ops < MaxOps
  /\ ops' = ops + 1
  /\ op' = [op EXCEPT ![v] = [kind |-> kind, next |-> first, first |-> first,
                              last |-> last, arg |-> arg, of |-> {}]]
  /\ UNCHANGED <<memVars, live, table, entry, astray>>

BeginMapAnon(v, first, last, shared) ==
  /\ \A a \in first..last : ~Present(v, a)
  /\ Begin(v, "anon", first, last, [page |-> NoPage, shared |-> shared])

(* Memory of the machine's own: every caller passes an address of devices, *)
(* firmware tables, the kernel image or a boot module.                     *)
BeginMapPhys(v, a, p) ==
  /\ ~Present(v, a)
  /\ Begin(v, "phys", a, a, [page |-> p, shared |-> TRUE])

(* A second mapping of a page, with flags of its own.                      *)
BeginCopy(v, to, from) ==
  /\ Present(v, from) /\ ~Present(v, to)
  /\ Begin(v, "copy", to, to, [page |-> entry[v][from].page, shared |-> TRUE])

BeginUnmap(v, first, last) ==
  /\ \A a \in first..last : Present(v, a)
  /\ Begin(v, "unmap", first, last, NotPresent)

Maps(v) == op[v].kind \in {"anon", "phys", "copy"} /\ op[v].next <= op[v].last

HasTable(v) == table[v][TableOf(op[v].next)] # NoPage

(* get_or_create_page_table.                                               *)
MakeTable(v) ==
  /\ Maps(v) /\ ~HasTable(v)
  /\ \E p \in PhysPages :
       PageAlloc(p) /\ table' = [table EXCEPT ![v][TableOf(op[v].next)] = p]
  /\ UNCHANGED <<live, entry, op, astray, ops>>

(* page_table_map_anon, one page.                                          *)
MapAnon(v) ==
  /\ Maps(v) /\ HasTable(v) /\ op[v].kind = "anon"
  /\ \E p \in PhysPages :
       /\ PageAlloc(p)
       /\ SetEntry(v, op[v].next, [page |-> p, shared |-> op[v].arg.shared])
  /\ Step(v)
  /\ UNCHANGED <<live, table, astray, ops>>

(* page_table_map_phys and page_table_shallow_copy, one page.              *)
MapPage(v) ==
  /\ Maps(v) /\ HasTable(v) /\ op[v].kind \in {"phys", "copy"}
  /\ PageRef(op[v].arg.page)
  /\ SetEntry(v, op[v].next, op[v].arg)
  /\ Step(v)
  /\ UNCHANGED <<live, table, astray, ops>>

(* Mutant: the failing call leaves its first page mapped.                  *)
MapFailOffByOne(v) ==
  /\ Maps(v) /\ free = {} /\ (HasTable(v) => op[v].kind = "anon")
  /\ op' = [op EXCEPT ![v] = [kind |-> "unmap", next |-> op[v].first + 1,
                              first |-> op[v].first, last |-> op[v].next - 1,
                              arg |-> NotPresent, of |-> {}]]
  /\ UNCHANGED <<memVars, live, table, entry, astray, ops>>

(* Out of pages: what was mapped by this call is unmapped again; a page    *)
(* table it has made stays.                                                *)
MapFail(v) ==
  /\ Maps(v) /\ free = {} /\ (HasTable(v) => op[v].kind = "anon")
  /\ op' = [op EXCEPT ![v] = [kind |-> "unmap", next |-> op[v].first,
                              first |-> op[v].first, last |-> op[v].next - 1,
                              arg |-> NotPresent, of |-> {}]]
  /\ UNCHANGED <<memVars, live, table, entry, astray, ops>>

(* page_table_unmap, one page.                                             *)
Unmap(v) ==
  LET a == op[v].next IN
  /\ op[v].kind = "unmap" /\ a <= op[v].last
  /\ PageUnref(entry[v][a].page)
  /\ SetEntry(v, a, NotPresent)
  /\ Step(v)
  /\ UNCHANGED <<live, table, astray, ops>>

Done(v) ==
  /\ op[v].kind \in {"anon", "phys", "copy", "unmap"} /\ op[v].next > op[v].last
  /\ Finish(v)
  /\ UNCHANGED <<memVars, live, table, entry, astray, ops>>

-----------------------------------------------------------------------------
(* page_directory_clone_current: w, which nobody sees yet, gets a page     *)
(* table for each of v's; shared pages are referenced, others copied.      *)
BeginClone(v, w) ==
  /\ v \in live /\ w \notin live /\ op[v] = Idle /\ op[w] = Idle /\ ops < MaxOps
  /\ ops' = ops + 1
  /\ op' = [op EXCEPT ![w] = [Idle EXCEPT !.kind = "clone", !.last = LastAddr, !.of = {v}],
                     ![v] = [Idle EXCEPT !.kind = "clone"]]
  /\ UNCHANGED <<memVars, live, table, entry, astray>>

Source(v, w) == /\ v # w /\ op[v].kind = "clone" /\ op[w].kind = "clone"
                /\ v \in live /\ w \notin live /\ v \in op[w].of

CloneTable(v, w) ==
  LET i == TableOf(op[w].next) IN
  /\ Source(v, w) /\ op[w].next <= op[w].last
  /\ table[v][i] # NoPage /\ table[w][i] = NoPage
  /\ \E p \in PhysPages : PageAlloc(p) /\ table' = [table EXCEPT ![w][i] = p]
  /\ UNCHANGED <<live, entry, op, astray, ops>>

CloneAbsent(v, w) ==
  LET a == op[w].next IN
  /\ Source(v, w) /\ a <= op[w].last /\ ~Present(v, a)
  /\ table[v][TableOf(a)] # NoPage => table[w][TableOf(a)] # NoPage
  /\ Step(w)
  /\ UNCHANGED <<memVars, live, table, entry, astray, ops>>

(* Mutant: the second address space takes no reference.                    *)
CloneSharedWithoutRef(v, w) ==
  LET a == op[w].next IN
  /\ Source(v, w) /\ a <= op[w].last /\ Present(v, a) /\ entry[v][a].shared
  /\ table[w][TableOf(a)] # NoPage
  /\ SetEntry(w, a, entry[v][a])
  /\ Step(w)
  /\ UNCHANGED <<memVars, live, table, astray, ops>>

CloneShared(v, w) ==
  LET a == op[w].next IN
  /\ Source(v, w) /\ a <= op[w].last /\ Present(v, a) /\ entry[v][a].shared
  /\ table[w][TableOf(a)] # NoPage
  /\ PageRef(entry[v][a].page)
  /\ SetEntry(w, a, entry[v][a])
  /\ Step(w)
  /\ UNCHANGED <<live, table, astray, ops>>

CloneCopy(v, w) ==
  LET a == op[w].next IN
  /\ Source(v, w) /\ a <= op[w].last /\ Present(v, a) /\ ~entry[v][a].shared
  /\ table[w][TableOf(a)] # NoPage
  /\ \E p \in PhysPages : PageAlloc(p) /\ SetEntry(w, a, [page |-> p, shared |-> FALSE])
  /\ Step(w)
  /\ UNCHANGED <<live, table, astray, ops>>

CloneDone(v, w) ==
  /\ Source(v, w) /\ op[w].next > op[w].last
  /\ live' = live \cup {w}
  /\ op' = [op EXCEPT ![v] = Idle, ![w] = Idle]
  /\ UNCHANGED <<memVars, table, entry, astray, ops>>

Mappings(v, p) == Cardinality({a \in Addrs : entry[v][a].page = p})
                  + Cardinality({i \in Tables : table[v][i] = p})

(* Out of pages: the error is returned, and what w holds stays referenced  *)
(* though nobody can reach it any more.                                    *)
CloneFail(v, w) ==
  LET a == op[w].next IN
  /\ Source(v, w) /\ a <= op[w].last /\ free = {}
  /\ \/ table[v][TableOf(a)] # NoPage /\ table[w][TableOf(a)] = NoPage
     \/ Present(v, a) /\ ~entry[v][a].shared
  /\ astray' = [p \in PhysPages |-> astray[p] + Mappings(w, p)]
  /\ table' = [table EXCEPT ![w] = [i \in Tables |-> NoPage]]
  /\ entry' = [entry EXCEPT ![w] = [b \in Addrs |-> NotPresent]]
  /\ op' = [op EXCEPT ![v] = Idle, ![w] = Idle]
  /\ UNCHANGED <<memVars, live, ops>>

(* page_directory_destroy_current, for an address space without users.     *)
BeginDestroy(v) ==
  /\ v \in live \cap Destroys /\ op[v] = Idle /\ ops < MaxOps
  /\ ops' = ops + 1
  /\ live' = live \ {v}
  /\ op' = [op EXCEPT ![v] = [Idle EXCEPT !.kind = "destroy", !.last = LastAddr]]
  /\ UNCHANGED <<memVars, table, entry, astray>>

(* The reference the loop drops for a present entry a: that of the entry   *)
(* whose index in the table is the index of the table, and if that one is  *)
(* not present, page 0.                                                    *)
Dropped(v, a) ==
  LET b == TableOf(a) * NumEntries + TableOf(a)
  IN IF Present(v, b) THEN entry[v][b].page ELSE 0

Destroy(v) ==
  LET a == op[v].next
      p == Dropped(v, a)
  IN /\ op[v].kind = "destroy" /\ a <= op[v].last
     /\ IF Present(v, a)
          THEN /\ PageUnref(p)
               /\ astray' = IF p \in PhysPages THEN [astray EXCEPT ![p] = @ - 1] ELSE astray
          ELSE UNCHANGED <<memVars, astray>>
     /\ Step(v)
     /\ UNCHANGED <<live, table, entry, ops>>

(* The second loop: the page tables themselves; then the directory goes.   *)
DestroyEntries(v) ==
  /\ op[v].kind = "destroy" /\ op[v].next > op[v].last
  /\ astray' = [p \in PhysPages |->
                  astray[p] + Cardinality({b \in Addrs : entry[v][b].page = p})]
  /\ entry' = [entry EXCEPT ![v] = [b \in Addrs |-> NotPresent]]
  /\ op' = [op EXCEPT ![v] = [Idle EXCEPT !.kind = "tables", !.last = NumTables - 1]]
  /\ UNCHANGED <<memVars, live, table, ops>>

DestroyTable(v) ==
  LET i == op[v].next IN
  /\ op[v].kind = "tables" /\ i <= op[v].last
  /\ IF table[v][i] # NoPage THEN PageUnref(table[v][i]) ELSE UNCHANGED memVars
  /\ table' = [table EXCEPT ![v][i] = NoPage]
  /\ Step(v)
  /\ UNCHANGED <<live, entry, astray, ops>>

DestroyDone(v) ==
  /\ op[v].kind = "tables" /\ op[v].next > op[v].last
  /\ Finish(v)
  /\ UNCHANGED <<memVars, live, table, entry, astray, ops>>

-----------------------------------------------------------------------------
VmStep(v) ==
  \/ \E first, last \in Addrs :
       /\ first <= last
       /\ \/ \E shared \in BOOLEAN : BeginMapAnon(v, first, last, shared)
          \/ BeginUnmap(v, first, last)
  \/ \E a \in Addrs, p \in Reserved \cup {Beyond} : BeginMapPhys(v, a, p)
  \/ \E a, b \in Addrs : BeginCopy(v, a, b)
  \/ MapAnon(v) \/ MakeTable(v) \/ MapPage(v) \/ MapFail(v) \/ Unmap(v) \/ Done(v)
  \/ BeginDestroy(v) \/ Destroy(v) \/ DestroyEntries(v) \/ DestroyTable(v) \/ DestroyDone(v)

CloneStep(v, w) ==
  \/ BeginClone(v, w) \/ CloneTable(v, w) \/ CloneAbsent(v, w) \/ CloneShared(v, w)
  \/ CloneCopy(v, w) \/ CloneDone(v, w) \/ CloneFail(v, w)

Next == (\E v \in Vms : VmStep(v)) \/ (\E v, w \in Vms : CloneStep(v, w))

Spec == Init /\ [][Next]_vars

-----------------------------------------------------------------------------
TypeOK ==
  /\ refs \in [PhysPages -> 0..MaxRef]
  /\ free \subseteq PhysPages
  /\ stats \in Int
  /\ live \subseteq Vms
  /\ table \in [Vms -> [Tables -> PhysPages \cup {NoPage}]]
  /\ entry \in [Vms -> [Addrs -> [page : PhysPages \cup {NoPage, Beyond}, shared : BOOLEAN]]]
  /\ op \in [Vms -> Ops]

(* The bitmap, the counts and the statistics agree after every step: a     *)
(* page is available exactly when nothing refers to it (the assertions of  *)
(* page_alloc and page_ref), and free_kibibytes is what is available.      *)
BitmapExact ==
  /\ \A p \in PhysPages : p \in free <=> refs[p] = 0
  /\ stats = Cardinality(free)

(* Mapping is all or nothing: when page_table_map_anon and its kin return, *)
(* the whole range is mapped, or, out of memory half way, nothing of it is.*)
AllOrNothing ==
  [][\A v \in Vms : op[v] # Idle /\ op'[v] = Idle =>
       LET range == op[v].first..op[v].last
       IN CASE op[v].kind \in {"anon", "phys", "copy"} -> \A a \in range : Present(v, a)
            [] op[v].kind = "unmap" -> \A a \in range : ~Present(v, a)
            [] OTHER -> TRUE]_vars

(* A saturated count stays: the comment in page_unref.                     *)
SaturatedStays == [][\A p \in PhysPages : refs[p] = MaxRef => refs'[p] = MaxRef]_vars

(* A count that is not saturated is the number of page table entries and   *)
(* page directory entries that refer to the page, through every error path *)
(* and every interleaving: no page is freed under a mapping and none stays *)
(* behind, but for what a failed clone leaves and a destruction drops at   *)
(* the wrong entry.                                                        *)
EntriesOf(p) == {x \in Vms \X Addrs : entry[x[1]][x[2]].page = p}
TablesOf(p) == {x \in Vms \X Tables : table[x[1]][x[2]] = p}
References(p) == Cardinality(EntriesOf(p)) + Cardinality(TablesOf(p)) + astray[p]
RefsExact ==
  \A p \in PhysPages \ Reserved : refs[p] < MaxRef => refs[p] = References(p)

(* The assertion of page_unref where an address space is destroyed: the    *)
(* page whose reference is dropped has one.                                *)
UnrefAssertion ==
  \A v \in Vms :
    op[v].kind = "destroy" /\ op[v].next <= op[v].last /\ Present(v, op[v].next)
      => \A p \in PhysPages : p = Dropped(v, op[v].next) => refs[p] > 0
=============================================================================
