---------------------------- MODULE VirtualMemory ----------------------------
(***************************************************************************)
(* Address spaces: VirtualMemoryManager of memory/virtual.rs, with the     *)
(* hardware that walks its tables.                                         *)
(*                                                                         *)
(* Pages 0 .. UserPages - 1 are the user space; find_free_virtual_range    *)
(* can run past its end, so a few pages behind it exist too.  The tables   *)
(* of a space are -2 (page directory pointers), -1 (page directory) and    *)
(* one page table per index i >= 0: all pages the code chooses by itself   *)
(* lie under the first entry of the two upper levels.  Frames come from    *)
(* alloc_pages, zeroed, and nothing in this file ever frees one, so the    *)
(* next frame is a counter.  The hardware sets the accessed bit, which     *)
(* is the bit the code uses as its copy-on-write mark (0x20), and keeps    *)
(* translations in the TLB until CR3 is loaded.                            *)
(***************************************************************************)
EXTENDS Integers, FiniteSets, FiniteSetsExt

CONSTANTS
  Spaces, First,    \* the address spaces; First exists from the start
  UserPages,        \* pages below USER_SPACE_END
  TableSize,        \* entries of a page table (512)
  NFrames,          \* frames alloc_pages can hand out
  MaxPages,         \* longest request, in pages
  MaxCalls,         \* bound on the calls made; faults and accesses are not counted
  Prots,            \* flags user programs ask for
  None

Flags == SUBSET {"P", "W", "U", "A"}

ASSUME VirtualMemoryAssumption ==
  /\ First \in Spaces
  /\ UserPages \in Nat \ {0} /\ TableSize \in Nat \ {0}
  /\ NFrames \in Nat \ {0} /\ MaxPages \in Nat \ {0} /\ MaxCalls \in Nat
  /\ Prots \subseteq Flags

VARIABLES
  vm,               \* per space: its VirtualMemoryManager, or None
  next,             \* frames handed out so far
  data,             \* contents of the frames
  cr3,              \* the space the CPU is in
  tlb,              \* its cached translations
  calls,            \* number of calls made
  reopened          \* history: frames of marked pages that protect_memory made
                    \* present again

vars == <<vm, next, data, cr3, tlb, calls, reopened>>

Pages == 0 .. UserPages + MaxPages - 2
Frames == 0 .. NFrames - 1
Run(v, n) == {v + i : i \in 0 .. n - 1}
PtIndex(v) == v \div TableSize
Live == {s \in Spaces : vm[s] # None}

\* An entry of a page table, and a VirtualMemoryManager.
Entry == [frame : Frames, flags : Flags]
Manager ==
  [tables : SUBSET (-2 .. UserPages + MaxPages - 2), pte : [Pages -> Entry \cup {None}],
   page_count : Int, cow_enabled : BOOLEAN, cloned : BOOLEAN]

ASSUME NoneAssumption == None \notin Entry /\ None \notin Manager /\ None \notin Int

\* is_unused: the entry is empty; a page marked copy-on-write is not.
Used(m, v) == m.pte[v] # None
TablesFor(v) == {-2, -1, PtIndex(v)}
Reached(m, v) == TablesFor(v) \subseteq m.tables
Present(m, v) == Used(m, v) /\ "P" \in m.pte[v].flags

new ==
  [tables |-> {}, pte |-> [v \in Pages |-> None], page_count |-> 0,
   cow_enabled |-> TRUE, cloned |-> FALSE]

-----------------------------------------------------------------------------
(* Walks.  A result is [m, next, ok]: the manager and the frame counter     *)
(* after the call, and whether it succeeded.                                *)

FirstOf(S, k) == {t \in S : Cardinality({u \in S : u < t}) < k}

\* map_page allocates the missing tables from the top down and counts each;
\* when memory runs out, those it has allocated stay.  The entry is counted
\* whether or not it replaces one.
map_page(m, from, v, frame, flags) ==
  LET missing == TablesFor(v) \ m.tables
      k == Min({Cardinality(missing), NFrames - from})
      ok == k = Cardinality(missing)
  IN [m |-> [m EXCEPT !.tables = @ \cup FirstOf(missing, k),
                      !.page_count = @ + k + (IF ok THEN 1 ELSE 0),
                      !.pte = IF ok THEN [@ EXCEPT ![v] = [frame |-> frame, flags |-> flags]]
                                    ELSE @],
      next |-> from + k, ok |-> ok]

\* alloc_pages(1) and map_page, the body of the loops of mmap.
MapFresh(r, v, flags) ==
  IF ~ r.ok THEN r
  ELSE IF r.next = NFrames THEN [r EXCEPT !.ok = FALSE]
  ELSE map_page(r.m, r.next + 1, v, r.next, flags)

\* Faulty variant: an empty entry is counted as well.
UnmapCountsEmpty(m, v) ==
  IF Reached(m, v) THEN [m EXCEPT !.pte[v] = None, !.page_count = @ - 1] ELSE m

\* unmap_page: the frame is not released and the TLB is not told.
unmap_page(m, v) ==
  IF Reached(m, v) /\ Used(m, v)
  THEN [m EXCEPT !.pte[v] = None, !.page_count = @ - 1] ELSE m

Marked(e) == [e EXCEPT !.flags = (@ \ {"P"}) \cup {"A"}]
mark_page_cow(m, vs) ==
  [m EXCEPT !.pte = [v \in Pages |-> IF v \in vs /\ Used(m, v) THEN Marked(@[v]) ELSE @[v]]]

is_cow_page(m, v) == m.cow_enabled /\ Used(m, v) /\ "A" \in m.pte[v].flags

\* The first base below USER_SPACE_END from which n pages are unused; the
\* end of the range is not compared with it.
find_free_virtual_range(m, n) ==
  LET fit == {b \in 0 .. UserPages - 1 : \A v \in Run(b, n) : ~ Used(m, v)}
  IN IF fit = {} THEN None ELSE Min(fit)

Commit(s, r) ==
  /\ vm' = [vm EXCEPT ![s] = r.m]
  /\ next' = r.next

-----------------------------------------------------------------------------
Init ==
  /\ vm = [s \in Spaces |-> IF s = First THEN new ELSE None]
  /\ next = 1                      \* new() has taken a frame for the pml4
  /\ data = [f \in Frames |-> 0]
  /\ cr3 = First
  /\ tlb = {} /\ calls = 0 /\ reopened = {}

\* Maps n pages from v on, one by one, each to a fresh frame.
MapEach(m, from, v, n, flags) ==
  LET r[i \in 0 .. n] == IF i = 0 THEN [m |-> m, next |-> from, ok |-> TRUE]
                         ELSE MapFresh(r[i - 1], v + i - 1, flags)
  IN r[n]

\* mmap without an address ...
mmap_anywhere(s, n, prot) ==
  /\ s \in Live
  /\ LET v == find_free_virtual_range(vm[s], n) IN
       /\ v # None
       /\ Commit(s, MapEach(vm[s], next, v, n, prot))
  /\ UNCHANGED <<data, cr3, tlb>>

\* ... and with one: pages already mapped there are replaced.
mmap_at(s, v, n, prot) ==
  /\ s \in Live
  /\ v + n < UserPages             \* validate_user_range: end >= USER_SPACE_END is refused
  /\ Commit(s, MapEach(vm[s], next, v, n, prot))
  /\ UNCHANGED <<data, cr3, tlb>>

\* allocate_user_pages takes its n frames first, and the tables behind them:
\* without a free range the frames are lost.
MapFrames(m, from, v, n, flags) ==
  LET r[i \in 0 .. n] ==
        IF i = 0 THEN [m |-> m, next |-> from + n, ok |-> v # None]
        ELSE IF r[i - 1].ok
        THEN map_page(r[i - 1].m, r[i - 1].next, v + i - 1, from + i - 1, flags)
        ELSE r[i - 1]
  IN r[n]

allocate_user_pages(s, n, flags) ==
  /\ s \in Live
  /\ next + n <= NFrames
  /\ Commit(s, MapFrames(vm[s], next, find_free_virtual_range(vm[s], n), n, flags))
  /\ UNCHANGED <<data, cr3, tlb>>

\* munmap stops at the first page that has no page table.
UnmapEach(m, v, n) ==
  LET r[i \in 0 .. n] ==
        IF i = 0 THEN m
        ELSE IF \A u \in Run(v, i) : Reached(r[i - 1], u)
        THEN unmap_page(r[i - 1], v + i - 1) ELSE r[i - 1]
  IN r[n]

munmap(s, v, n) ==
  /\ s \in Live
  /\ Run(v, n) \subseteq Pages
  /\ vm' = [vm EXCEPT ![s] = UnmapEach(@, v, n)]
  /\ UNCHANGED <<next, data, cr3, tlb>>

\* protect_memory replaces the flags of the pages it finds, also of those that
\* are marked copy-on-write and not present.
protect_memory(s, v, n, flags) ==
  /\ s \in Live
  /\ Run(v, n) \subseteq Pages
  /\ vm' = [vm EXCEPT ![s].pte = [w \in Pages |->
       IF w \in Run(v, n) /\ Used(vm[s], w) THEN [@[w] EXCEPT !.flags = flags] ELSE @[w]]]
  /\ reopened' = reopened \cup {vm[s].pte[w].frame :
       w \in {u \in Run(v, n) : Used(vm[s], u) /\ ~ Present(vm[s], u) /\ "P" \in flags}}
  /\ UNCHANGED <<next, data, cr3, tlb>>

\* Faulty variant: the clone's entries stay present.
CloneStaysPresent(s, c) ==
  /\ s \in Live /\ c \notin Live
  /\ next + 1 + Cardinality(vm[s].tables) <= NFrames
  /\ vm' = [vm EXCEPT ![s] = mark_page_cow(vm[s], Pages),
                      ![c] = [vm[s] EXCEPT !.page_count = 0, !.cloned = TRUE]]
  /\ next' = next + 1 + Cardinality(vm[s].tables)
  /\ UNCHANGED <<data, cr3, tlb>>

\* clone_address_space copies the tables from the top down.  Each page is
\* marked copy-on-write in the parent just before its entry is copied, which
\* clears its present bit, and the copy is not present either.  When memory
\* runs out there is no clone, but what was marked stays marked.
clone_address_space(s, c) ==
  /\ s \in Live /\ c \notin Live
  /\ next < NFrames
  /\ LET m == vm[s]
         free == NFrames - next
         position(t) == 2 + Cardinality({u \in m.tables : u < t})
         marked == mark_page_cow(m, {v \in Pages : PtIndex(v) \in m.tables
                                                  /\ position(PtIndex(v)) <= free})
         ok == 1 + Cardinality(m.tables) <= free
     IN /\ vm' = [vm EXCEPT ![s] = marked,
                            ![c] = IF ok THEN [marked EXCEPT !.page_count = 0, !.cloned = TRUE]
                                         ELSE None]
        /\ next' = next + Min({free, 1 + Cardinality(m.tables)})
  /\ UNCHANGED <<data, cr3, tlb>>

\* enable_cow and disable_cow.
set_cow(s, on) ==
  /\ s \in Live
  /\ vm' = [vm EXCEPT ![s].cow_enabled = on]
  /\ UNCHANGED <<next, data, cr3, tlb>>

switch_to(s) ==
  /\ s \in Live
  /\ cr3' = s
  /\ tlb' = {}
  /\ UNCHANGED <<vm, next, data>>

-----------------------------------------------------------------------------
(* The hardware, in the address space cr3, and the page fault handler.      *)

Cached(v) == {t \in tlb : t.page = v}
Uncache(v) == tlb \ Cached(v)

\* A walk loads the TLB and sets the accessed bit.
Walk(v) ==
  /\ Cached(v) = {}
  /\ Present(vm[cr3], v)
  /\ LET e == vm[cr3].pte[v] IN
       tlb' = tlb \cup {[page |-> v, frame |-> e.frame, writable |-> "W" \in e.flags]}
  /\ vm' = [vm EXCEPT ![cr3].pte[v].flags = @ \cup {"A"}]
  /\ UNCHANGED <<next, data, cr3>>

Store(v) ==
  /\ \E t \in Cached(v) : t.writable /\ data' = [data EXCEPT ![t.frame] = 1]
  /\ UNCHANGED <<vm, next, cr3, tlb>>

\* The fault on a page that is not present: a fresh frame is mapped, also
\* when the entry still names a frame (a page marked copy-on-write).
DemandFault(v) ==
  /\ Cached(v) = {} /\ ~ Present(vm[cr3], v)
  /\ Commit(cr3, MapFresh([m |-> vm[cr3], next |-> next, ok |-> TRUE], v, {"P", "W"}))
  /\ tlb' = Uncache(v)
  /\ UNCHANGED <<data, cr3>>

WriteFaults(v) ==
  IF Cached(v) = {} THEN Present(vm[cr3], v) /\ "W" \notin vm[cr3].pte[v].flags
                    ELSE \A t \in Cached(v) : ~ t.writable

\* Faulty variant: the page is translated after the new frame is mapped.
CopyFromNewFrame(v) ==
  /\ WriteFaults(v) /\ is_cow_page(vm[cr3], v) /\ next < NFrames
  /\ LET r == map_page(vm[cr3], next + 1, v, next, {"P", "W", "U"}) IN
       /\ Commit(cr3, r)
       /\ data' = [data EXCEPT ![next] = data[r.m.pte[v].frame]]
  /\ tlb' = Uncache(v)
  /\ UNCHANGED cr3

\* handle_cow_fault, on a write to a present page that is not writable:
\* allocate, translate, map, copy; the old frame is kept by nobody.
handle_cow_fault(v) ==
  /\ WriteFaults(v) /\ is_cow_page(vm[cr3], v) /\ next < NFrames
  /\ Commit(cr3, map_page(vm[cr3], next + 1, v, next, {"P", "W", "U"}))
  /\ data' = [data EXCEPT ![next] = data[vm[cr3].pte[v].frame]]
  /\ tlb' = Uncache(v)
  /\ UNCHANGED cr3

\* Any other protection fault is denied; the fault drops the translation.
AccessDenied(v) ==
  /\ WriteFaults(v) /\ ~ is_cow_page(vm[cr3], v)
  /\ tlb' = Uncache(v)
  /\ UNCHANGED <<vm, next, data, cr3>>

Hardware(v) ==
  Walk(v) \/ Store(v) \/ DemandFault(v) \/ handle_cow_fault(v) \/ AccessDenied(v)

Call(s) ==
  \E n \in 1 .. MaxPages :
    \/ \E prot \in Prots : mmap_anywhere(s, n, prot) \/ allocate_user_pages(s, n, prot)
    \/ \E v \in Pages :
         \/ \E prot \in Prots : mmap_at(s, v, n, prot)
         \/ munmap(s, v, n)

Kernel ==
  \/ \E s \in Live : Call(s)
  \/ \E s, c \in Spaces : clone_address_space(s, c)
  \/ \E s \in Spaces : switch_to(s) \/ \E on \in BOOLEAN : set_cow(s, on)

Protect ==
  \E s \in Live : \E v \in Pages : \E n \in 1 .. MaxPages : \E prot \in Prots :
    protect_memory(s, v, n, prot)

Next ==
  \/ /\ calls < MaxCalls /\ calls' = calls + 1
     /\ (Kernel /\ UNCHANGED reopened) \/ Protect
  \/ (\E v \in 0 .. UserPages - 1 : Hardware(v)) /\ UNCHANGED <<calls, reopened>>

Spec == Init /\ [][Next]_vars

-----------------------------------------------------------------------------
(* Properties *)

\* Frames space s can read or write now: through its tables or, in the
\* active space, through translations that are still cached.
Reachable(s) ==
  {vm[s].pte[v].frame : v \in {w \in Pages : Present(vm[s], w)}}
    \cup (IF s = cr3 THEN {t.frame : t \in tlb} ELSE {})

\* No frame can be reached from two address spaces, although clones share
\* frames in their tables and unmap_page and mark_page_cow leave cached
\* translations behind, unless protect_memory was called on a page marked
\* copy-on-write: it makes the shared frame present again, and nothing in it
\* looks at the mark.  What one process writes, no other sees but there.
SpacesAreIsolated ==
  \A s, c \in Live : s # c => Reachable(s) \cap Reachable(c) \subseteq reopened

\* In a space that is not a clone page_count never falls below the number of
\* tables and pages it has, whatever is mapped over, unmapped or refused: the
\* subtraction in unmap_page does not wrap.
PageCountCovers ==
  \A s \in Live : ~ vm[s].cloned =>
    vm[s].page_count >= Cardinality(vm[s].tables) + Cardinality({v \in Pages : Used(vm[s], v)})

\* A page fault never loses or changes what a page of any space holds, also
\* when it moves the page to another frame and when the page is marked
\* copy-on-write, but for the one page a not-present fault is about: after a
\* clone the pages of the parent and of the clone are not present, and the
\* first access to each takes that path and finds a zeroed frame.
FaultsKeepOtherPages ==
  [][\A v \in Pages : DemandFault(v) \/ handle_cow_fault(v) =>
       \A s \in Live, w \in Pages :
         /\ Used(vm[s], w)
         /\ s = cr3 /\ w = v => Cached(v) # {} \/ Present(vm[s], v)
         => /\ Used(vm'[s], w)
            /\ data'[vm'[s].pte[w].frame] = data[vm[s].pte[w].frame]]_vars

=============================================================================
