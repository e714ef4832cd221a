----------------------------- MODULE UserMemory -----------------------------
(***************************************************************************)
(* The memory system calls of syscall/core.rs: sys_mmap, sys_brk and       *)
(* sys_exit over the two allocators of that file, the bump allocator of    *)
(* virtual addresses each process has (PageAllocator) and the bitmap of    *)
(* physical pages all processes share (PhysicalPageAllocator).             *)
(*                                                                         *)
(* A call is a sequence of steps: the shared bitmap is locked for one page *)
(* at a time, so the calls of different processes interleave between any   *)
(* two pages.  Addresses are natural numbers; PAGE_SIZE of them make up a  *)
(* page, so that breaks inside a page exist.  Frames are page indices of   *)
(* the physical range, which is what start_addr + page_idx * PAGE_SIZE     *)
(* names.                                                                  *)
(***************************************************************************)
EXTENDS Integers, FiniteSets, FiniteSetsExt

CONSTANTS
  Process,          \* the processes
  PAGE_SIZE,        \* addresses per page
  total_pages,      \* physical pages
  heap_start, max_heap,      \* the range of the break, per process
  map_start, map_end,        \* the range of PageAllocator, per process
  Breaks,           \* the values user programs pass to brk
  Lengths,          \* the lengths user programs pass to mmap
  FixedAddrs,       \* the addresses they pass with MAP_FIXED
  LastAddr,         \* the end of the user address space
  None

ASSUME UserMemoryAssumption ==
  /\ PAGE_SIZE \in Nat \ {0}  /\ total_pages \in Nat \ {0}
  /\ heap_start \in Nat /\ max_heap \in Nat /\ heap_start <= max_heap
  /\ map_start \in Nat /\ map_end \in Nat /\ map_start <= map_end
  /\ Breaks \subseteq Nat /\ Lengths \subseteq Nat /\ FixedAddrs \subseteq Nat
  /\ LastAddr \in Nat /\ max_heap <= LastAddr /\ map_end <= LastAddr
  /\ \A a \in FixedAddrs, l \in Lengths : a + l <= LastAddr
  /\ None \notin Nat

VARIABLES
  bitmap,           \* frames marked allocated
  next_free_hint,
  page_table,       \* per process: virtual page -> frame
  current,          \* per process: PageAllocator.current
  heap_end,         \* per process
  call,             \* per process: the system call in progress, or None
  astray,           \* history: a failed brk released frames it had not mapped
  unruly            \* history: the processes that put their break inside a page
                    \* or mapped over the range of their heap

vars == <<bitmap, next_free_hint, page_table, current, heap_end, call, astray, unruly>>

Frames == 0 .. total_pages - 1
Page(addr) == addr \div PAGE_SIZE
PagesFor(bytes) == (bytes + PAGE_SIZE - 1) \div PAGE_SIZE
VPages == 0 .. Page(LastAddr) + 1

Mapped(p) == {v \in VPages : page_table[p][v] # None}
MappedFrames == UNION {{page_table[p][v] : v \in Mapped(p)} : p \in Process}
Held == {call[p].frame : p \in {q \in Process : call[q] # None}} \ {None}

-----------------------------------------------------------------------------
(* PhysicalPageAllocator. *)

\* The search of allocate_page: total_pages probes from the hint, wrapping.
allocate_page(taken, hint) ==
  LET probes == {k \in 0 .. total_pages - 1 : (hint + k) % total_pages \notin taken}
  IN IF probes = {} THEN None ELSE (hint + Min(probes)) % total_pages

\* deallocate_page refuses what is outside the range or already free.
deallocate_page(taken, frame) == taken \ {frame}

-----------------------------------------------------------------------------
(* Starting a call. *)

\* map_user_page and unmap_user_page act on the page an address lies in.
MapPage(p, addr, frame) == [page_table EXCEPT ![p][Page(addr)] = frame]
UnmapFirst(p, base, n) ==
  [page_table EXCEPT ![p] =
    [v \in VPages |-> IF v \in {Page(base + j * PAGE_SIZE) : j \in 0 .. n - 1}
                      THEN None ELSE @[v]]]

\* A system call in progress: the pages it loops over, how many it has done,
\* the frame at hand and, for brk, the new break.
Call == [op : {"mmap", "fixed", "brk", "exit"}, base : Nat, n : Nat, i : Nat,
         frame : Nat \cup {None}, arg : Nat \cup {None}]

ASSUME NoCallAssumption == None \notin Call

NewCall(op, base, n, arg) ==
  [op |-> op, base |-> base, n |-> n, i |-> 0, frame |-> None, arg |-> arg]

Init ==
  /\ bitmap = {} /\ next_free_hint = 0
  /\ page_table = [p \in Process |-> [v \in VPages |-> None]]
  /\ current = [p \in Process |-> map_start]
  /\ heap_end = [p \in Process |-> heap_start]
  /\ call = [p \in Process |-> None] /\ astray = FALSE /\ unruly = {}

\* What the history keeps of a call: whether it respects the heap.
MeetsHeap(base, n) == base < max_heap /\ base + n * PAGE_SIZE > heap_start
Ruly(p, ok) == unruly' = IF ok THEN unruly ELSE unruly \cup {p}

\* mmap without MAP_FIXED: PageAllocator.allocate_pages hands out the range,
\* and no existing mapping is looked for.
sys_mmap(p, length) ==
  /\ call[p] = None
  /\ current[p] + PagesFor(length) * PAGE_SIZE <= map_end
  /\ call' = [call EXCEPT ![p] = NewCall("mmap", current[p], PagesFor(length), None)]
  /\ Ruly(p, ~ MeetsHeap(current[p], PagesFor(length)))
  /\ current' = [current EXCEPT ![p] = @ + PagesFor(length) * PAGE_SIZE]
  /\ UNCHANGED <<bitmap, next_free_hint, page_table, heap_end, astray>>

\* mmap with MAP_FIXED: the caller's address is taken as it is.
sys_mmap_fixed(p, addr, length) ==
  /\ call[p] = None
  /\ call' = [call EXCEPT ![p] = NewCall("fixed", addr, PagesFor(length), None)]
  /\ Ruly(p, ~ MeetsHeap(addr, PagesFor(length)))
  /\ UNCHANGED <<bitmap, next_free_hint, page_table, current, heap_end, astray>>

\* brk above the break: the number of pages counts from the old break,
\* wherever in its page that break lies.
sys_brk_expand(p, new_brk) ==
  /\ call[p] = None
  /\ heap_start <= new_brk /\ new_brk <= max_heap
  /\ new_brk > heap_end[p]
  /\ call' = [call EXCEPT ![p] =
                NewCall("brk", heap_end[p], PagesFor(new_brk - heap_end[p]), new_brk)]
  /\ Ruly(p, new_brk % PAGE_SIZE = 0)
  /\ UNCHANGED <<bitmap, next_free_hint, page_table, current, heap_end, astray>>

\* Faulty variant: one page too many is unmapped.
ContractOneTooMany(p, new_brk) ==
  /\ call[p] = None
  /\ heap_start <= new_brk /\ new_brk < heap_end[p]
  /\ page_table' = UnmapFirst(p, new_brk - PAGE_SIZE, PagesFor(heap_end[p] - new_brk) + 1)
  /\ heap_end' = [heap_end EXCEPT ![p] = new_brk]
  /\ Ruly(p, new_brk % PAGE_SIZE = 0)
  /\ UNCHANGED <<bitmap, next_free_hint, current, call, astray>>

\* brk below the break: pages are unmapped, their frames are not released.
sys_brk_contract(p, new_brk) ==
  /\ call[p] = None
  /\ heap_start <= new_brk /\ new_brk < heap_end[p]
  /\ page_table' = UnmapFirst(p, new_brk, PagesFor(heap_end[p] - new_brk))
  /\ heap_end' = [heap_end EXCEPT ![p] = new_brk]
  /\ Ruly(p, new_brk % PAGE_SIZE = 0)
  /\ UNCHANGED <<bitmap, next_free_hint, current, call, astray>>

-----------------------------------------------------------------------------
(* The steps of a call in progress. *)

InCall(p, ops) == call[p] # None /\ call[p].op \in ops
VAddr(p) == call[p].base + call[p].i * PAGE_SIZE
AtPage(p) == call[p].i < call[p].n /\ call[p].frame = None
Undo(p) == UnmapFirst(p, call[p].base, call[p].i)
Return(p) == call' = [call EXCEPT ![p] = None]

\* One iteration takes a frame under the lock of PHYSICAL_ALLOCATOR ...
TakeFrame(p) ==
  /\ InCall(p, {"mmap", "fixed", "brk"}) /\ AtPage(p)
  /\ LET f == allocate_page(bitmap, next_free_hint) IN
       /\ f # None
       /\ bitmap' = bitmap \cup {f}
       /\ next_free_hint' = (f + 1) % total_pages
       /\ call' = [call EXCEPT ![p].frame = f]
  /\ UNCHANGED <<page_table, current, heap_end, astray, unruly>>

\* ... and maps it; map_user_page replaces whatever was mapped there.
MapFrame(p) ==
  /\ InCall(p, {"mmap", "fixed", "brk"}) /\ call[p].frame # None
  /\ page_table' = MapPage(p, VAddr(p), call[p].frame)
  /\ call' = [call EXCEPT ![p].frame = None, ![p].i = @ + 1]
  /\ UNCHANGED <<bitmap, next_free_hint, current, heap_end, astray, unruly>>

\* No frame is left: the pages mapped so far are unmapped, the call fails.
OutOfFrames(p) ==
  /\ InCall(p, {"mmap", "fixed", "brk"}) /\ AtPage(p)
  /\ allocate_page(bitmap, next_free_hint) = None
  /\ page_table' = Undo(p)
  /\ Return(p)
  /\ UNCHANGED <<bitmap, next_free_hint, current, heap_end, astray, unruly>>

\* Faulty variant: the pages mapped so far stay mapped to released frames.
FailReleasesMapped(p) ==
  /\ InCall(p, {"mmap", "fixed"}) /\ call[p].frame # None
  /\ page_table' = page_table
  /\ bitmap' = bitmap \ ({page_table[p][Page(call[p].base + j * PAGE_SIZE)] :
                             j \in 0 .. call[p].i - 1} \cup {call[p].frame})
  /\ Return(p)
  /\ UNCHANGED <<next_free_hint, current, heap_end, astray, unruly>>

\* map_user_page fails under sys_mmap: unmap, release the frame at hand.
MmapMapFails(p) ==
  /\ InCall(p, {"mmap", "fixed"}) /\ call[p].frame # None
  /\ page_table' = Undo(p)
  /\ bitmap' = deallocate_page(bitmap, call[p].frame)
  /\ Return(p)
  /\ UNCHANGED <<next_free_hint, current, heap_end, astray, unruly>>

\* map_user_page fails under sys_brk: the frames to release are computed
\* from the one at hand as if the allocator had handed out adjacent ones, and
\* the one at hand is kept.
BrkMapFailure(p) ==
  LET own == {page_table[p][Page(call[p].base + j * PAGE_SIZE)] : j \in 0 .. call[p].i - 1}
      released == {call[p].frame - call[p].i + j : j \in 0 .. call[p].i - 1}
  IN /\ InCall(p, {"brk"}) /\ call[p].frame # None
     /\ page_table' = Undo(p)
     /\ bitmap' = bitmap \ released
     /\ astray' = (astray \/ released # own)
     /\ Return(p)
     /\ UNCHANGED <<next_free_hint, current, heap_end, unruly>>

\* The loop is done: the mapping is returned, or the break is moved.
Finish(p) ==
  /\ InCall(p, {"mmap", "fixed", "brk"}) /\ call[p].i = call[p].n
  /\ heap_end' = IF call[p].op = "brk" THEN [heap_end EXCEPT ![p] = call[p].arg]
                                       ELSE heap_end
  /\ Return(p)
  /\ UNCHANGED <<bitmap, next_free_hint, page_table, current, astray, unruly>>

\* sys_exit releases the memory of the process and never returns.  What
\* deallocate_memory_resources releases is not in the repository: here the
\* frames the process has mapped.
sys_exit(p) ==
  /\ call[p] = None
  /\ bitmap' = bitmap \ {page_table[p][v] : v \in Mapped(p)}
  /\ page_table' = [page_table EXCEPT ![p] = [v \in VPages |-> None]]
  /\ call' = [call EXCEPT ![p] = [NewCall("exit", 0, 0, None) EXCEPT !.i = 1]]
  /\ UNCHANGED <<next_free_hint, current, heap_end, astray, unruly>>

Step(p) ==
  \/ \E l \in Lengths : sys_mmap(p, l)
  \/ \E a \in FixedAddrs, l \in Lengths : sys_mmap_fixed(p, a, l)
  \/ \E b \in Breaks : sys_brk_expand(p, b) \/ sys_brk_contract(p, b)
  \/ TakeFrame(p) \/ MapFrame(p) \/ OutOfFrames(p) \/ Finish(p)
  \/ MmapMapFails(p) \/ BrkMapFailure(p)
  \/ sys_exit(p)

Next == \E p \in Process : Step(p)

Spec == Init /\ [][Next]_vars

-----------------------------------------------------------------------------
(* Properties *)

\* A frame that a page table maps, or that a call is about to map, is marked
\* allocated in the bitmap, and it is in one place only: no interleaving of
\* mmap, brk and exit makes two pages share a frame or hands out a frame
\* still in use, with map_user_page failing anywhere, until the clean-up of
\* a failed brk has released a frame it computed wrongly.
FramesHaveOneOwner ==
  ~ astray =>
    /\ MappedFrames \cup Held \subseteq bitmap
    /\ \A p, q \in Process : \A v \in Mapped(p), w \in Mapped(q) :
         page_table[p][v] = page_table[q][w] => p = q /\ v = w
    /\ MappedFrames \cap Held = {}
    /\ \A p, q \in Process :
         (call[p] # None /\ call[q] # None /\ p # q /\ call[p].frame # None)
           => call[p].frame # call[q].frame

\* Every address below the break is backed by a page ("Expanding - allocate
\* pages"): what brk granted can be used until brk takes it back, whatever fails
\* in this process or in the others.  It holds for a process that moves its
\* break by whole pages and maps nothing over the range of its heap.  The code
\* asks for neither: brk counts pages from a break inside a page as if it began
\* one, and a failed MAP_FIXED unmaps heap pages it had replaced.
HeapIsMapped ==
  \A p \in Process \ unruly :
    ~ InCall(p, {"exit"}) =>
      \A a \in heap_start .. heap_end[p] - 1 : Page(a) \in Mapped(p)

=============================================================================
