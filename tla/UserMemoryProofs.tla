-------------------------- MODULE UserMemoryProofs --------------------------
(***************************************************************************)
(* Proofs about the memory system calls of UserMemory, for any number of   *)
(* processes and frames, any page size and any arguments of the calls.     *)
(***************************************************************************)
EXTENDS UserMemory, WellFoundedInduction, TLAPS

USE UserMemoryAssumption

-----------------------------------------------------------------------------
(* Page arithmetic and the search for a frame. *)

\* A multiple of the page size moves an address by that many pages.
LEMMA PageOfSum ==
  ASSUME NEW a \in Nat, NEW k \in Nat
  PROVE  Page(a + k * PAGE_SIZE) = Page(a) + k
  BY SMT DEF Page

\* Pages are in the order of their addresses.
LEMMA PageMonotone ==
  ASSUME NEW a \in Nat, NEW b \in Nat, a <= b
  PROVE  Page(a) \in Nat /\ Page(b) \in Nat /\ Page(a) <= Page(b)
  BY SMT DEF Page

\* An address is less than a page above the start of its page.
LEMMA PageBounds ==
  ASSUME NEW a \in Nat
  PROVE  /\ Page(a) \in Nat
         /\ Page(a) * PAGE_SIZE <= a
         /\ a < Page(a) * PAGE_SIZE + PAGE_SIZE
  BY SMT DEF Page

\* The loops over a range of bytes stop before its end is a page behind.
LEMMA PagesForBounds ==
  ASSUME NEW b \in Nat
  PROVE  /\ PagesFor(b) \in Nat
         /\ b <= PagesFor(b) * PAGE_SIZE
         /\ PagesFor(b) * PAGE_SIZE < b + PAGE_SIZE
<1>1. b + PAGE_SIZE - 1 \in Nat
  OBVIOUS
<1> QED
  BY <1>1, PageBounds DEF PagesFor, Page

\* A nonempty set of natural numbers has a least element.
LEMMA MinIsMember ==
  ASSUME NEW T, T \subseteq Nat, T # {}
  PROVE  Min(T) \in T
<1>1. PICK x \in T : \A y \in T : ~(<<y, x>> \in OpToRel(<, Nat))
  BY NatLessThanWellFounded, WFMin, Zenon
<1>2. \A y \in T : ~(y < x)
  BY <1>1, Zenon DEF OpToRel
<1>3. \A y \in T : x <= y
  BY <1>2
<1> QED
  BY <1>3, Zenon DEF Min

\* allocate_page hands out a frame that is not taken.
LEMMA AllocatedWasFree ==
  ASSUME NEW taken, NEW hint \in Nat, allocate_page(taken, hint) # None
  PROVE  allocate_page(taken, hint) \in Nat \ taken
<1> DEFINE probes == {k \in 0 .. total_pages - 1 : (hint + k) % total_pages \notin taken}
<1>1. probes # {} /\ allocate_page(taken, hint) = (hint + Min(probes)) % total_pages
  BY DEF allocate_page
<1>2. Min(probes) \in probes
  <2>1. probes \subseteq Nat
    OBVIOUS
  <2> HIDE DEF probes
  <2> QED
    BY <1>1, <2>1, MinIsMember, Zenon
<1>3. Min(probes) \in Nat /\ (hint + Min(probes)) % total_pages \notin taken
  BY <1>2
<1>4. \A a \in Nat : a % total_pages \in Nat
  OBVIOUS
<1> HIDE DEF probes
<1>5. (hint + Min(probes)) % total_pages \in Nat
  BY <1>3, <1>4
<1> QED
  BY <1>1, <1>3, <1>5

-----------------------------------------------------------------------------
(***************************************************************************)
(* Frames.  What makes FramesHaveOneOwner inductive is what it says        *)
(* itself, the types, and the extent of a call: a call holds a frame only  *)
(* inside its loop, and the loop of brk stays below the limit of the heap, *)
(* so that the clean-up looks at pages that exist.                         *)
(***************************************************************************)
\* The call is about to map a frame.
Holds(c) == c # None /\ c.frame # None

TypeOK ==
  /\ next_free_hint \in Nat
  /\ page_table \in [Process -> [VPages -> Nat \cup {None}]]
  /\ current \in [Process -> Nat] /\ heap_end \in [Process -> Nat]
  /\ call \in [Process -> Call \cup {None}]
  /\ astray \in BOOLEAN

\* The loop of sys_brk runs over the pages from the old break to the new one.
BrkExtent(c) ==
  c.op = "brk" => /\ c.arg \in Nat /\ c.base < c.arg /\ c.arg <= max_heap
                  /\ c.n = PagesFor(c.arg - c.base)

Extent(c) == c # None => /\ Holds(c) => c.i < c.n
                         /\ c.op \in {"mmap", "fixed", "brk"} => c.i <= c.n
                         /\ BrkExtent(c)

OneOwner ==
  /\ \A p \in Process, v \in VPages :
       page_table[p][v] # None => page_table[p][v] \in bitmap
  /\ \A p \in Process : Holds(call[p]) => call[p].frame \in bitmap
  /\ \A p, q \in Process, v, w \in VPages :
       page_table[p][v] # None /\ page_table[p][v] = page_table[q][w] => p = q /\ v = w
  /\ \A p, q \in Process, v \in VPages :
       Holds(call[p]) => page_table[q][v] # call[p].frame
  /\ \A p, q \in Process :
       Holds(call[p]) /\ Holds(call[q]) /\ call[p].frame = call[q].frame => p = q

Inv == TypeOK /\ (\A p \in Process : Extent(call[p])) /\ (~ astray => OneOwner)

\* OneOwner is FramesHaveOneOwner, said page by page.
LEMMA InvImpliesOneOwner == Inv => FramesHaveOneOwner
<1> SUFFICES ASSUME Inv, ~ astray
             PROVE  /\ MappedFrames \cup Held \subseteq bitmap
                    /\ \A p, q \in Process : \A v \in Mapped(p), w \in Mapped(q) :
                         page_table[p][v] = page_table[q][w] => p = q /\ v = w
                    /\ MappedFrames \cap Held = {}
                    /\ \A p, q \in Process :
                         (call[p] # None /\ call[q] # None /\ p # q /\ call[p].frame # None)
                           => call[p].frame # call[q].frame
  BY Zenon DEF FramesHaveOneOwner
<1>1. OneOwner
  BY DEF Inv
<1>2. \A f \in MappedFrames : \E p \in Process, v \in VPages :
        page_table[p][v] # None /\ f = page_table[p][v]
  BY DEF MappedFrames, Mapped
<1>3. \A f \in Held : \E p \in Process : Holds(call[p]) /\ f = call[p].frame
  BY Zenon DEF Held, Holds
<1>4. MappedFrames \cup Held \subseteq bitmap
  BY <1>1, <1>2, <1>3 DEF OneOwner
<1>5. MappedFrames \cap Held = {}
  BY <1>1, <1>2, <1>3 DEF OneOwner
<1>6. \A p, q \in Process : \A v \in Mapped(p), w \in Mapped(q) :
        page_table[p][v] = page_table[q][w] => p = q /\ v = w
  BY <1>1 DEF OneOwner, Mapped
<1>7. \A p, q \in Process :
        (call[p] # None /\ call[q] # None /\ p # q /\ call[p].frame # None)
           => call[p].frame # call[q].frame
  BY <1>1, Zenon DEF OneOwner, Holds
<1> QED
  BY <1>4, <1>5, <1>6, <1>7

\* A step that takes no frame and maps none keeps every frame with its owner
\* as long as it releases none that is mapped or held afterwards.
LEMMA OwnersShrink ==
  ASSUME OneOwner,
         \A q \in Process, v \in VPages : page_table'[q][v] # None =>
           page_table'[q][v] = page_table[q][v] /\ page_table[q][v] \in bitmap',
         \A q \in Process : Holds(call'[q]) =>
           /\ Holds(call[q]) /\ call'[q].frame = call[q].frame
           /\ call[q].frame \in bitmap'
  PROVE  OneOwner'
<1>1. \A q \in Process, v \in VPages : page_table'[q][v] # None => page_table'[q][v] \in bitmap'
  BY Zenon
<1>2. \A q \in Process : Holds(call'[q]) => call'[q].frame \in bitmap'
  BY Zenon
<1>3. \A p, q \in Process, v, w \in VPages :
        page_table'[p][v] # None /\ page_table'[p][v] = page_table'[q][w] => p = q /\ v = w
  BY DEF OneOwner
<1>4. \A p, q \in Process, v \in VPages : Holds(call'[p]) => page_table'[q][v] # call'[p].frame
  BY DEF OneOwner, Holds
<1>5. \A p, q \in Process :
        Holds(call'[p]) /\ Holds(call'[q]) /\ call'[p].frame = call'[q].frame => p = q
  BY Zenon DEF OneOwner
<1> QED
  BY <1>1, <1>2, <1>3, <1>4, <1>5, Zenon DEF OneOwner, Holds

\* What UnmapFirst leaves: the pages of the range are unmapped, the others
\* stay as they were.
LEMMA UnmapEffect ==
  ASSUME TypeOK, NEW p \in Process, NEW base \in Nat, NEW n \in Nat,
         page_table' = UnmapFirst(p, base, n)
  PROVE  /\ page_table' \in [Process -> [VPages -> Nat \cup {None}]]
         /\ \A q \in Process, v \in VPages :
              page_table'[q][v] =
                IF q = p /\ \E j \in 0 .. n - 1 : v = Page(base + j * PAGE_SIZE)
                THEN None ELSE page_table[q][v]
         /\ \A q \in Process \ {p} : page_table'[q] = page_table[q]
<1> DEFINE R == {Page(base + j * PAGE_SIZE) : j \in 0 .. n - 1}
<1>1. \A v : v \in R <=> \E j \in 0 .. n - 1 : v = Page(base + j * PAGE_SIZE)
  OBVIOUS
<1> DEFINE g == [v \in VPages |-> IF v \in R THEN None ELSE page_table[p][v]]
<1>2. page_table' = [page_table EXCEPT ![p] = g]
  BY Zenon DEF UnmapFirst
<1>3. page_table[p] \in [VPages -> Nat \cup {None}]
  BY DEF TypeOK
<1>4. /\ g \in [VPages -> Nat \cup {None}]
      /\ \A v \in VPages : g[v] = IF v \in R THEN None ELSE page_table[p][v]
  <2> HIDE DEF R
  <2> QED
    BY <1>3
<1> HIDE DEF R, g
<1>5. \A q \in Process : page_table'[q] = IF q = p THEN g ELSE page_table[q]
  BY <1>2 DEF TypeOK
<1>6. page_table' \in [Process -> [VPages -> Nat \cup {None}]]
  BY <1>2, <1>4 DEF TypeOK
<1> QED
  BY <1>1, <1>4, <1>5, <1>6

InRange(v, base, n) == \E j \in 0 .. n - 1 : v = Page(base + j * PAGE_SIZE)

UnmapsRange(table, p, base, n) ==
  /\ \A v \in VPages : table[p][v] = IF InRange(v, base, n) THEN None ELSE page_table[p][v]
  /\ \A q \in Process \ {p} : table[q] = page_table[q]

LEMMA UnmapOwn ==
  ASSUME TypeOK, NEW p \in Process, NEW base \in Nat, NEW n \in Nat
  PROVE  UnmapsRange(UnmapFirst(p, base, n), p, base, n)
<1> DEFINE R == {Page(base + j * PAGE_SIZE) : j \in 0 .. n - 1}
           g == [v \in VPages |-> IF v \in R THEN None ELSE page_table[p][v]]
           T == UnmapFirst(p, base, n)
<1>1. T = [page_table EXCEPT ![p] = g]
  BY Zenon DEF UnmapFirst
<1>2. \A v \in VPages : g[v] = IF v \in R THEN None ELSE page_table[p][v]
  BY Zenon
<1>3. \A v : v \in R <=> InRange(v, base, n)
  BY Zenon DEF InRange
<1> HIDE DEF R, g, T
<1>4. T[p] = g /\ \A q \in Process \ {p} : T[q] = page_table[q]
  BY <1>1, Zenon DEF TypeOK
<1>5. UnmapsRange(T, p, base, n)
  BY <1>2, <1>3, <1>4, Zenon DEF UnmapsRange
<1> QED
  BY <1>5, Zenon DEF T

\* A step that changes the call of p changes no other call.
LEMMA CallSet ==
  ASSUME TypeOK, NEW p \in Process, NEW c \in Call \cup {None},
         call' = [call EXCEPT ![p] = c]
  PROVE  /\ call' \in [Process -> Call \cup {None}]
         /\ \A q \in Process : call'[q] = IF q = p THEN c ELSE call[q]
  BY DEF TypeOK

\* The invariant survives a step that leaves p without a frame at hand and
\* releases no frame that is still mapped or that another call holds.
LEMMA ShrinkStep ==
  ASSUME Inv, NEW p \in Process, NEW c \in Call \cup {None}, ~ Holds(c), Extent(c),
         call' = [call EXCEPT ![p] = c],
         next_free_hint' \in Nat,
         page_table' \in [Process -> [VPages -> Nat \cup {None}]],
         current' \in [Process -> Nat], heap_end' \in [Process -> Nat],
         astray' \in BOOLEAN, ~ astray' => ~ astray,
         ~ astray' => \A q \in Process, v \in VPages : page_table'[q][v] # None =>
           page_table'[q][v] = page_table[q][v] /\ page_table[q][v] \in bitmap',
         ~ astray' => \A q \in Process \ {p} :
           Holds(call[q]) => call[q].frame \in bitmap'
  PROVE  Inv'
<1>1. /\ call' \in [Process -> Call \cup {None}]
      /\ \A q \in Process : call'[q] = IF q = p THEN c ELSE call[q]
  BY CallSet, Zenon DEF Inv
<1>2. TypeOK'
  BY <1>1 DEF TypeOK
<1>3. \A q \in Process : Extent(call'[q])
  BY <1>1 DEF Inv
<1>4. ~ astray' => OneOwner'
  <2> SUFFICES ASSUME ~ astray' PROVE OneOwner'
    OBVIOUS
  <2>1. OneOwner
    BY DEF Inv
  <2>2. \A q \in Process : Holds(call'[q]) =>
           /\ Holds(call[q]) /\ call'[q].frame = call[q].frame
           /\ call[q].frame \in bitmap'
    BY <1>1
  <2> QED
    BY <2>1, <2>2, OwnersShrink
<1> QED
  BY <1>2, <1>3, <1>4, Zenon DEF Inv, Extent, Holds, BrkExtent

\* A step that leaves the frames alone and starts or ends a call.
LEMMA CallOnly ==
  ASSUME Inv, NEW p \in Process, NEW c \in Call \cup {None}, ~ Holds(c), Extent(c),
         call' = [call EXCEPT ![p] = c],
         current' \in [Process -> Nat], heap_end' \in [Process -> Nat],
         UNCHANGED <<bitmap, next_free_hint, page_table, astray>>
  PROVE  Inv'
<1>1. TypeOK /\ (~ astray => OneOwner)
  BY DEF Inv
<1>2. /\ next_free_hint' \in Nat /\ astray' \in BOOLEAN /\ (~ astray' => ~ astray)
      /\ page_table' \in [Process -> [VPages -> Nat \cup {None}]]
  BY <1>1 DEF TypeOK
<1>3. ~ astray' => \A q \in Process, v \in VPages : page_table'[q][v] # None =>
           page_table'[q][v] = page_table[q][v] /\ page_table[q][v] \in bitmap'
  BY <1>1 DEF OneOwner
<1>4. ~ astray' => \A q \in Process \ {p} : Holds(call[q]) => call[q].frame \in bitmap'
  BY <1>1 DEF OneOwner
<1> QED
  BY <1>2, <1>3, <1>4, ShrinkStep, Zenon

-----------------------------------------------------------------------------
(* One lemma per system call and step. *)

LEMMA MmapKeepsInv ==
  ASSUME Inv, NEW p \in Process, NEW l \in Lengths, sys_mmap(p, l)
  PROVE  Inv'
<1> DEFINE c == NewCall("mmap", current[p], PagesFor(l), None)
<1>1. TypeOK /\ l \in Nat /\ PagesFor(l) \in Nat /\ current[p] \in Nat
  BY PagesForBounds DEF Inv, TypeOK
<1>2. c \in Call /\ ~ Holds(c) /\ c.op = "mmap" /\ c.n \in Nat /\ c.i = 0
  BY <1>1 DEF NewCall, Call, Holds
<1>3. /\ call' = [call EXCEPT ![p] = c]
      /\ current' = [current EXCEPT ![p] = @ + PagesFor(l) * PAGE_SIZE]
      /\ UNCHANGED <<bitmap, next_free_hint, page_table, heap_end, astray>>
  BY DEF sys_mmap
<1> HIDE DEF c
<1>4. Extent(c)
  BY <1>2 DEF Extent, BrkExtent
<1>5. current' \in [Process -> Nat] /\ heap_end' \in [Process -> Nat]
  <2>1. current[p] + PagesFor(l) * PAGE_SIZE \in Nat
    BY <1>1
  <2> QED
    BY <1>1, <1>3, <2>1 DEF TypeOK
<1> QED
  BY <1>2, <1>3, <1>4, <1>5, CallOnly, Zenon

LEMMA FixedKeepsInv ==
  ASSUME Inv, NEW p \in Process, NEW a \in FixedAddrs, NEW l \in Lengths,
         sys_mmap_fixed(p, a, l)
  PROVE  Inv'
<1> DEFINE c == NewCall("fixed", a, PagesFor(l), None)
<1>1. TypeOK /\ l \in Nat /\ PagesFor(l) \in Nat /\ a \in Nat
  BY PagesForBounds DEF Inv
<1>2. c \in Call /\ ~ Holds(c) /\ c.op = "fixed" /\ c.n \in Nat /\ c.i = 0
  BY <1>1 DEF NewCall, Call, Holds
<1>3. /\ call' = [call EXCEPT ![p] = c]
      /\ UNCHANGED <<bitmap, next_free_hint, page_table, current, heap_end, astray>>
  BY DEF sys_mmap_fixed
<1> HIDE DEF c
<1>4. Extent(c)
  BY <1>2 DEF Extent, BrkExtent
<1>5. current' \in [Process -> Nat] /\ heap_end' \in [Process -> Nat]
  BY <1>1, <1>3 DEF TypeOK
<1> QED
  BY <1>2, <1>3, <1>4, <1>5, CallOnly, Zenon

LEMMA ExpandKeepsInv ==
  ASSUME Inv, NEW p \in Process, NEW b \in Breaks, sys_brk_expand(p, b)
  PROVE  Inv'
<1> DEFINE c == NewCall("brk", heap_end[p], PagesFor(b - heap_end[p]), b)
<1>1. /\ TypeOK /\ b \in Nat /\ heap_end[p] \in Nat /\ heap_end[p] < b /\ b <= max_heap
      /\ PagesFor(b - heap_end[p]) \in Nat
  <2>1. TypeOK /\ b \in Nat /\ heap_end[p] \in Nat /\ heap_end[p] < b /\ b <= max_heap
    BY DEF Inv, TypeOK, sys_brk_expand
  <2> QED
    BY <2>1, PagesForBounds
<1>2. /\ c \in Call /\ ~ Holds(c) /\ c.op = "brk" /\ c.base = heap_end[p] /\ c.arg = b
      /\ c.n = PagesFor(b - heap_end[p]) /\ c.i = 0
  BY <1>1 DEF NewCall, Call, Holds
<1>3. /\ call' = [call EXCEPT ![p] = c]
      /\ UNCHANGED <<bitmap, next_free_hint, page_table, current, heap_end, astray>>
  BY DEF sys_brk_expand
<1> HIDE DEF c
<1>4. Extent(c)
  BY <1>1, <1>2 DEF Extent, BrkExtent
<1>5. current' \in [Process -> Nat] /\ heap_end' \in [Process -> Nat]
  BY <1>1, <1>3 DEF TypeOK
<1> QED
  BY <1>2, <1>3, <1>4, <1>5, CallOnly, Zenon

LEMMA FinishKeepsInv ==
  ASSUME Inv, NEW p \in Process, Finish(p)
  PROVE  Inv'
<1>1. TypeOK /\ Extent(call[p]) /\ call[p] # None
  BY DEF Inv, Finish, InCall
<1>2. /\ call' = [call EXCEPT ![p] = None]
      /\ UNCHANGED <<bitmap, next_free_hint, page_table, current, astray>>
  BY DEF Finish, Return
<1>3. current' \in [Process -> Nat]
  BY <1>1, <1>2 DEF TypeOK
<1>4. heap_end' \in [Process -> Nat]
  BY <1>1 DEF Finish, TypeOK, Extent, BrkExtent
<1>5. ~ Holds(None) /\ Extent(None)
  BY DEF Holds, Extent
<1> QED
  BY <1>2, <1>3, <1>4, <1>5, CallOnly, Zenon

\* Pages are unmapped and the call returns; the frames stay marked, or the
\* ones released are neither mapped any more nor held by another call.
LEMMA ReturnKeepsInv ==
  ASSUME Inv, NEW p \in Process, Return(p),
         page_table' = Undo(p), call[p] # None,
         next_free_hint' = next_free_hint, current' = current, heap_end' = heap_end,
         astray' \in BOOLEAN, ~ astray' => ~ astray,
         ~ astray' => \A q \in Process, v \in VPages :
           page_table'[q][v] # None => page_table[q][v] \in bitmap',
         ~ astray' => \A q \in Process \ {p} :
           Holds(call[q]) => call[q].frame \in bitmap'
  PROVE  Inv'
<1>1. TypeOK /\ call[p].base \in Nat /\ call[p].i \in Nat
  BY SMTT(40) DEF Inv, TypeOK, Call
<1>2. /\ page_table' \in [Process -> [VPages -> Nat \cup {None}]]
      /\ \A q \in Process, v \in VPages :
           page_table'[q][v] # None => page_table'[q][v] = page_table[q][v]
  BY <1>1, UnmapEffect DEF Undo
<1>3. ~ Holds(None) /\ Extent(None) /\ call' = [call EXCEPT ![p] = None]
  BY DEF Holds, Extent, Return
<1>4. /\ next_free_hint' \in Nat
      /\ current' \in [Process -> Nat] /\ heap_end' \in [Process -> Nat]
  BY <1>1 DEF TypeOK
<1> QED
  BY <1>2, <1>3, <1>4, ShrinkStep, Zenon

LEMMA OutOfFramesKeepsInv ==
  ASSUME Inv, NEW p \in Process, OutOfFrames(p)
  PROVE  Inv'
<1>1. TypeOK /\ (~ astray => OneOwner) /\ call[p] # None
  BY DEF Inv, OutOfFrames, InCall
<1>2. /\ page_table' = Undo(p) /\ Return(p)
      /\ UNCHANGED <<bitmap, next_free_hint, current, heap_end, astray>>
  BY DEF OutOfFrames
<1>3. call[p].base \in Nat /\ call[p].i \in Nat
  BY <1>1, SMTT(40) DEF TypeOK, Call
<1>4. \A q \in Process, v \in VPages :
        page_table'[q][v] # None => page_table'[q][v] = page_table[q][v]
  BY <1>1, <1>2, <1>3, UnmapEffect, SMTT(40) DEF Undo
<1>5. ~ astray' => \A q \in Process, v \in VPages :
        page_table'[q][v] # None => page_table[q][v] \in bitmap'
  BY <1>1, <1>2, <1>4 DEF OneOwner
<1>6. ~ astray' => \A q \in Process \ {p} : Holds(call[q]) => call[q].frame \in bitmap'
  BY <1>1, <1>2 DEF OneOwner
<1>7. astray' \in BOOLEAN /\ (~ astray' => ~ astray)
  BY <1>1, <1>2, SMTT(40) DEF TypeOK
<1> QED
  BY <1>1, <1>2, <1>5, <1>6, <1>7, ReturnKeepsInv

LEMMA MmapMapFailsKeepsInv ==
  ASSUME Inv, NEW p \in Process, MmapMapFails(p)
  PROVE  Inv'
<1>1. TypeOK /\ (~ astray => OneOwner) /\ call[p] # None /\ Holds(call[p])
  BY DEF Inv, MmapMapFails, InCall, Holds
<1>2. /\ page_table' = Undo(p) /\ Return(p) /\ bitmap' = bitmap \ {call[p].frame}
      /\ UNCHANGED <<next_free_hint, current, heap_end, astray>>
  BY DEF MmapMapFails, deallocate_page
<1>3. call[p].base \in Nat /\ call[p].i \in Nat
  BY <1>1, SMTT(40) DEF TypeOK, Call
<1>4. \A q \in Process, v \in VPages :
        page_table'[q][v] # None => page_table'[q][v] = page_table[q][v]
  BY <1>1, <1>2, <1>3, UnmapEffect, SMTT(40) DEF Undo
<1>5. ~ astray' => \A q \in Process, v \in VPages :
        page_table'[q][v] # None => page_table[q][v] \in bitmap'
  BY <1>1, <1>2, <1>4 DEF OneOwner
<1>6. ~ astray' => \A q \in Process \ {p} : Holds(call[q]) => call[q].frame \in bitmap'
  BY <1>1, <1>2 DEF OneOwner
<1>7. astray' \in BOOLEAN /\ (~ astray' => ~ astray)
  BY <1>1, <1>2 DEF TypeOK
<1> QED
  BY <1>1, <1>2, <1>5, <1>6, <1>7, ReturnKeepsInv, SMTT(40)

\* The pages the loop of brk has done are pages of the address space.
LEMMA BrkPagesExist ==
  ASSUME TypeOK, NEW p \in Process, call[p] # None, Extent(call[p]),
         call[p].op = "brk", NEW j \in 0 .. call[p].n - 1
  PROVE  /\ call[p].base + j * PAGE_SIZE \in Nat
         /\ call[p].base + j * PAGE_SIZE < call[p].arg
         /\ Page(call[p].base + j * PAGE_SIZE) \in VPages
<1> DEFINE b == call[p].base
           e == call[p].arg
           n == call[p].n
<1>1. b \in Nat /\ e \in Nat /\ n \in Nat /\ b < e /\ e <= max_heap /\ n = PagesFor(e - b)
  BY DEF TypeOK, Call, Extent, BrkExtent
<1>2. j \in Nat /\ j <= n - 1
  BY <1>1
<1> HIDE DEF b, e, n
<1>3. n * PAGE_SIZE < e - b + PAGE_SIZE
  BY <1>1, PagesForBounds
<1>4. j * PAGE_SIZE \in Nat /\ j * PAGE_SIZE <= (n - 1) * PAGE_SIZE
  BY <1>1, <1>2
<1>5. (n - 1) * PAGE_SIZE = n * PAGE_SIZE - PAGE_SIZE
  BY <1>1
<1>6. n * PAGE_SIZE \in Nat
  BY <1>1
<1>7. b + j * PAGE_SIZE \in Nat /\ b + j * PAGE_SIZE < e
  BY <1>1, <1>3, <1>4, <1>5, <1>6
<1>8. b + j * PAGE_SIZE <= LastAddr
  BY <1>1, <1>7
<1>9. Page(b + j * PAGE_SIZE) \in Nat /\ Page(b + j * PAGE_SIZE) <= Page(LastAddr)
      /\ Page(LastAddr) \in Nat
  BY <1>7, <1>8, PageMonotone
<1>10. Page(b + j * PAGE_SIZE) \in VPages
  BY <1>9 DEF VPages
<1> QED
  BY <1>7, <1>10 DEF b, e

\* When the guess of the failed brk is right, what it releases is what it
\* unmaps; nothing else maps or holds those frames.
LEMMA BrkMapFailureKeepsInv ==
  ASSUME Inv, NEW p \in Process, BrkMapFailure(p)
  PROVE  Inv'
<1> DEFINE own == {page_table[p][Page(call[p].base + j * PAGE_SIZE)] : j \in 0 .. call[p].i - 1}
           released == {call[p].frame - call[p].i + j : j \in 0 .. call[p].i - 1}
<1>1. /\ TypeOK /\ (~ astray => OneOwner) /\ call[p] # None /\ Holds(call[p])
      /\ Extent(call[p]) /\ call[p].op = "brk"
  BY SMTT(40) DEF Inv, BrkMapFailure, InCall, Holds
<1>2. /\ page_table' = Undo(p) /\ Return(p) /\ bitmap' = bitmap \ released
      /\ astray' = (astray \/ released # own)
      /\ UNCHANGED <<next_free_hint, current, heap_end>>
  BY DEF BrkMapFailure
<1>3. call[p].base \in Nat /\ call[p].i \in Nat /\ call[p].n \in Nat /\ call[p].i < call[p].n
  BY <1>1 DEF TypeOK, Call, Extent
<1>4. \A q \in Process, v \in VPages :
        page_table'[q][v] # None =>
          /\ page_table'[q][v] = page_table[q][v]
          /\ q = p => \A j \in 0 .. call[p].i - 1 : v # Page(call[p].base + j * PAGE_SIZE)
  <2>1. TypeOK /\ page_table' = UnmapFirst(p, call[p].base, call[p].i)
    BY <1>1, <1>2, SMTT(40) DEF Undo
  <2>2. \A q \in Process, v \in VPages :
          page_table'[q][v] =
            IF q = p /\ \E j \in 0 .. call[p].i - 1 : v = Page(call[p].base + j * PAGE_SIZE)
            THEN None ELSE page_table[q][v]
    BY <1>3, <2>1, UnmapEffect, SMTT(40)
  <2> QED
    BY <2>2, Zenon
<1>5. \A f \in own : \E w \in VPages :
        /\ f = page_table[p][w]
        /\ \E j \in 0 .. call[p].i - 1 : w = Page(call[p].base + j * PAGE_SIZE)
  <2> SUFFICES ASSUME NEW j \in 0 .. call[p].i - 1
               PROVE  Page(call[p].base + j * PAGE_SIZE) \in VPages
    OBVIOUS
  <2>1. j \in 0 .. call[p].n - 1
    BY <1>3, SMTT(40)
  <2> QED
    BY <1>1, <2>1, BrkPagesExist, SMTT(40)
<1>6. ~ astray' => ~ astray /\ bitmap' = bitmap \ own
  BY <1>2, Zenon
<1> HIDE DEF own, released
<1>7. ~ astray' => \A q \in Process, v \in VPages :
        page_table'[q][v] # None => page_table[q][v] \in bitmap'
  BY <1>1, <1>4, <1>5, <1>6, SMTT(40) DEF OneOwner
<1>8. ~ astray' => \A q \in Process \ {p} : Holds(call[q]) => call[q].frame \in bitmap'
  BY <1>1, <1>5, <1>6, SMTT(40) DEF OneOwner
<1>9. astray' \in BOOLEAN /\ (~ astray' => ~ astray)
  BY <1>1, <1>2 DEF TypeOK
<1> QED
  BY <1>1, <1>2, <1>7, <1>8, <1>9, ReturnKeepsInv, SMTT(40)

LEMMA ContractKeepsInv ==
  ASSUME Inv, NEW p \in Process, NEW b \in Breaks, sys_brk_contract(p, b)
  PROVE  Inv'
<1>1. /\ TypeOK /\ (~ astray => OneOwner) /\ (\A q \in Process : Extent(call[q]))
      /\ b \in Nat /\ heap_end[p] \in Nat /\ b < heap_end[p]
  BY DEF Inv, TypeOK, sys_brk_contract
<1>2. heap_end[p] - b \in Nat /\ PagesFor(heap_end[p] - b) \in Nat
  BY <1>1, PagesForBounds, SMTT(40)
<1>3. /\ page_table' = UnmapFirst(p, b, PagesFor(heap_end[p] - b))
      /\ heap_end' = [heap_end EXCEPT ![p] = b]
      /\ UNCHANGED <<bitmap, next_free_hint, current, call, astray>>
  BY SMTT(40) DEF sys_brk_contract
<1>4. /\ page_table' \in [Process -> [VPages -> Nat \cup {None}]]
      /\ \A q \in Process, v \in VPages :
           page_table'[q][v] # None => page_table'[q][v] = page_table[q][v]
  BY <1>1, <1>2, <1>3, UnmapEffect
<1>5. TypeOK'
  BY <1>1, <1>3, <1>4, SMTT(40) DEF TypeOK
<1>6. ~ astray' => OneOwner'
  BY <1>1, <1>3, <1>4, OwnersShrink, SMTT(40) DEF OneOwner
<1> QED
  BY <1>1, <1>3, <1>5, <1>6 DEF Inv

LEMMA ExitKeepsInv ==
  ASSUME Inv, NEW p \in Process, sys_exit(p)
  PROVE  Inv'
<1> DEFINE c == [NewCall("exit", 0, 0, None) EXCEPT !.i = 1]
           mine == {page_table[p][v] : v \in Mapped(p)}
<1>1. TypeOK /\ (~ astray => OneOwner)
  BY DEF Inv
<1>2. /\ bitmap' = bitmap \ mine
      /\ page_table' = [page_table EXCEPT ![p] = [v \in VPages |-> None]]
      /\ call' = [call EXCEPT ![p] = c]
      /\ UNCHANGED <<next_free_hint, current, heap_end, astray>>
  BY DEF sys_exit
<1>3. c \in Call /\ c.op = "exit" /\ c.frame = None
  BY DEF NewCall, Call
<1>4. \A f \in mine : \E w \in VPages : f # None /\ f = page_table[p][w]
  BY DEF Mapped
<1> HIDE DEF c, mine
<1>5. ~ Holds(c) /\ Extent(c)
  BY <1>3 DEF Holds, Extent, BrkExtent
<1>6. /\ page_table' \in [Process -> [VPages -> Nat \cup {None}]]
      /\ \A q \in Process, v \in VPages :
           page_table'[q][v] # None => q # p /\ page_table'[q][v] = page_table[q][v]
  BY <1>1, <1>2, SMTT(40) DEF TypeOK
<1>7. ~ astray' => \A q \in Process, v \in VPages : page_table'[q][v] # None =>
        page_table'[q][v] = page_table[q][v] /\ page_table[q][v] \in bitmap'
  BY <1>1, <1>2, <1>4, <1>6, SMTT(40) DEF OneOwner
<1>8. ~ astray' => \A q \in Process \ {p} : Holds(call[q]) => call[q].frame \in bitmap'
  BY <1>1, <1>2, <1>4 DEF OneOwner
<1>9. /\ next_free_hint' \in Nat /\ astray' \in BOOLEAN /\ (~ astray' => ~ astray)
      /\ current' \in [Process -> Nat] /\ heap_end' \in [Process -> Nat]
  BY <1>1, <1>2 DEF TypeOK
<1> QED
  BY <1>2, <1>3, <1>5, <1>6, <1>7, <1>8, <1>9, ShrinkStep, Zenon

\* The frame allocate_page hands out was free, so nobody has it.
LEMMA TakeFrameKeepsInv ==
  ASSUME Inv, NEW p \in Process, TakeFrame(p)
  PROVE  Inv'
<1> DEFINE f == allocate_page(bitmap, next_free_hint)
           c == [call[p] EXCEPT !.frame = f]
<1>1. /\ TypeOK /\ (~ astray => OneOwner) /\ (\A q \in Process : Extent(call[q]))
      /\ call[p] # None /\ call[p].frame = None /\ call[p].i < call[p].n
      /\ call[p] \in Call
  BY DEF Inv, TakeFrame, InCall, AtPage, TypeOK
<1>2. /\ bitmap' = bitmap \cup {f} /\ next_free_hint' = (f + 1) % total_pages
      /\ call' = [call EXCEPT ![p] = c] /\ f # None
      /\ UNCHANGED <<page_table, current, heap_end, astray>>
  BY DEF TakeFrame
<1>3. f \in Nat /\ f \notin bitmap
  <2>1. next_free_hint \in Nat
    BY <1>1 DEF TypeOK
  <2> QED
    BY <1>2, <2>1, AllocatedWasFree
<1> HIDE DEF f
<1>4. /\ c \in Call /\ c.frame = f /\ c.op = call[p].op /\ c.i = call[p].i
      /\ c.n = call[p].n /\ c.base = call[p].base /\ c.arg = call[p].arg
  BY <1>1, <1>3, SMTT(40) DEF Call
<1> HIDE DEF c
<1>5. Extent(c)
  BY <1>1, <1>4, SMTT(40) DEF Extent, BrkExtent
<1>6. /\ call' \in [Process -> Call \cup {None}]
      /\ \A q \in Process : call'[q] = IF q = p THEN c ELSE call[q]
  BY <1>1, <1>2, <1>4, CallSet, ZenonT(40)
<1>7. next_free_hint' \in Nat
  <2>1. \A a \in Nat : a % total_pages \in Nat
    OBVIOUS
  <2> QED
    BY <1>2, <1>3, <2>1
<1>8. TypeOK'
  BY <1>1, <1>2, <1>6, <1>7 DEF TypeOK
<1>9. \A q \in Process : Extent(call'[q])
  BY <1>1, <1>5, <1>6, SMTT(40)
<1>10. ~ astray' => OneOwner'
  <2> SUFFICES ASSUME ~ astray' PROVE OneOwner'
    BY SMTT(40)
  <2>1. OneOwner /\ page_table' = page_table
    BY <1>1, <1>2, SMTT(40)
  <2>2. ~ Holds(call[p])
    BY <1>1 DEF Holds
  <2>3. \A q \in Process : Holds(call'[q]) =>
          call'[q].frame = IF q = p THEN f ELSE call[q].frame
    BY <1>4, <1>6
  <2>4. \A q \in Process : Holds(call'[q]) /\ q # p => Holds(call[q])
    BY <1>6, SMTT(40)
  <2>5. \A q \in Process, v \in VPages : page_table'[q][v] # None => page_table'[q][v] \in bitmap'
    BY <1>2, <2>1, SMTT(40) DEF OneOwner
  <2>6. \A q \in Process : Holds(call'[q]) => call'[q].frame \in bitmap'
    BY <1>2, <2>1, <2>3, <2>4, SMTT(40) DEF OneOwner
  <2>7. \A q, r \in Process, v \in VPages : Holds(call'[q]) => page_table'[r][v] # call'[q].frame
    BY <1>2, <1>3, <2>1, <2>3, <2>4, SMTT(40) DEF OneOwner
  <2>8. \A q, r \in Process :
          Holds(call'[q]) /\ Holds(call'[r]) /\ call'[q].frame = call'[r].frame => q = r
    BY <1>3, <2>1, <2>3, <2>4, SMTT(40) DEF OneOwner
  <2> QED
    BY <2>1, <2>5, <2>6, <2>7, <2>8 DEF OneOwner
<1> QED
  BY <1>8, <1>9, <1>10 DEF Inv

\* What MapPage does to the page tables.
LEMMA MapEffect ==
  ASSUME TypeOK, NEW p \in Process, NEW a, NEW f \in Nat,
         page_table' = MapPage(p, a, f)
  PROVE  /\ page_table' \in [Process -> [VPages -> Nat \cup {None}]]
         /\ \A q \in Process, v \in VPages :
              page_table'[q][v] = IF q = p /\ v = Page(a) THEN f ELSE page_table[q][v]
         /\ \A q \in Process \ {p} : page_table'[q] = page_table[q]
<1> DEFINE g == [page_table[p] EXCEPT ![Page(a)] = f]
<1>1. page_table[p] \in [VPages -> Nat \cup {None}]
  BY DEF TypeOK
<1>2. /\ g \in [VPages -> Nat \cup {None}]
      /\ \A v \in VPages : g[v] = IF v = Page(a) THEN f ELSE page_table[p][v]
  BY <1>1, Zenon
<1>3. page_table' = [page_table EXCEPT ![p] = g]
  BY DEF MapPage
<1> HIDE DEF g
<1>4. \A q \in Process : page_table'[q] = IF q = p THEN g ELSE page_table[q]
  BY <1>3 DEF TypeOK
<1>5. page_table' \in [Process -> [VPages -> Nat \cup {None}]]
  BY <1>2, <1>3 DEF TypeOK
<1> QED
  BY <1>2, <1>4, <1>5

\* The frame at hand moves from the call to the page; what the page mapped
\* before stays marked and is mapped nowhere.
LEMMA MapFrameKeepsInv ==
  ASSUME Inv, NEW p \in Process, MapFrame(p)
  PROVE  Inv'
<1> DEFINE f == call[p].frame
           a == VAddr(p)
           c == [call[p] EXCEPT !.frame = None, !.i = @ + 1]
<1>1. /\ TypeOK /\ (~ astray => OneOwner) /\ (\A q \in Process : Extent(call[q]))
      /\ call[p] # None /\ f # None /\ Holds(call[p]) /\ call[p] \in Call
  BY DEF Inv, MapFrame, InCall, TypeOK, Holds
<1>2. /\ page_table' = MapPage(p, a, f) /\ call' = [call EXCEPT ![p] = c]
      /\ UNCHANGED <<bitmap, next_free_hint, current, heap_end, astray>>
  BY Zenon DEF MapFrame
<1>3. f \in Nat
  BY <1>1 DEF Call
<1>4. /\ c \in Call /\ c.frame = None /\ c.op = call[p].op /\ c.i = call[p].i + 1
      /\ c.n = call[p].n /\ c.base = call[p].base /\ c.arg = call[p].arg
      /\ call[p].i \in Nat /\ call[p].n \in Nat
  <2>1. \A k \in Call : /\ [k EXCEPT !.frame = None] \in Call
                        /\ [k EXCEPT !.frame = None].frame = None
                        /\ [k EXCEPT !.frame = None].op = k.op
                        /\ [k EXCEPT !.frame = None].i = k.i
                        /\ [k EXCEPT !.frame = None].n = k.n
                        /\ [k EXCEPT !.frame = None].base = k.base
                        /\ [k EXCEPT !.frame = None].arg = k.arg
    BY DEF Call
  <2>2. \A k \in Call : /\ k.i \in Nat /\ k.n \in Nat
                        /\ [k EXCEPT !.i = @ + 1] \in Call
                        /\ [k EXCEPT !.i = @ + 1].frame = k.frame
                        /\ [k EXCEPT !.i = @ + 1].op = k.op
                        /\ [k EXCEPT !.i = @ + 1].i = k.i + 1
                        /\ [k EXCEPT !.i = @ + 1].n = k.n
                        /\ [k EXCEPT !.i = @ + 1].base = k.base
                        /\ [k EXCEPT !.i = @ + 1].arg = k.arg
    BY DEF Call
  <2> DEFINE d == [call[p] EXCEPT !.frame = None]
  <2>3. c = [d EXCEPT !.i = @ + 1]
    BY <1>1 DEF Call
  <2>4. d \in Call /\ d.i = call[p].i
    BY <1>1, <2>1
  <2> HIDE DEF d, c
  <2>5. c \in Call /\ c.frame = d.frame /\ c.op = d.op /\ c.i = d.i + 1 /\ c.n = d.n
        /\ c.base = d.base /\ c.arg = d.arg
    BY <2>2, <2>3, <2>4
  <2>6. d.frame = None /\ d.op = call[p].op /\ d.n = call[p].n
        /\ d.base = call[p].base /\ d.arg = call[p].arg
    BY <1>1, <2>1 DEF d
  <2>7. call[p].i \in Nat /\ call[p].n \in Nat
    BY <1>1 DEF Call
  <2> QED
    BY <2>4, <2>5, <2>6, <2>7
<1>5. call[p].i < call[p].n
  BY <1>1 DEF Extent
<1>6. /\ page_table' \in [Process -> [VPages -> Nat \cup {None}]]
      /\ \A q \in Process, v \in VPages :
           page_table'[q][v] = IF q = p /\ v = Page(a) THEN f ELSE page_table[q][v]
  BY <1>1, <1>2, <1>3, MapEffect, SMTT(40)
<1> HIDE DEF c, a
<1>7. Extent(c)
  BY <1>1, <1>4, <1>5, SMTT(40) DEF Extent, BrkExtent, Holds
<1>8. /\ call' \in [Process -> Call \cup {None}]
      /\ \A q \in Process : call'[q] = IF q = p THEN c ELSE call[q]
  BY <1>1, <1>2, <1>4, CallSet, ZenonT(40)
<1>9. TypeOK'
  BY <1>1, <1>2, <1>6, <1>8, SMTT(40) DEF TypeOK
<1>10. \A q \in Process : Extent(call'[q])
  BY <1>1, <1>7, <1>8, SMTT(40)
<1>11. ~ astray' => OneOwner'
  <2> SUFFICES ASSUME ~ astray' PROVE OneOwner'
    OBVIOUS
  <2>1. OneOwner /\ bitmap' = bitmap
    BY <1>1, <1>2, SMTT(40)
  <2>2. \A q \in Process : Holds(call'[q]) => q # p /\ call'[q] = call[q]
    BY <1>4, <1>8, SMTT(40) DEF Holds
  <2>3. f \in bitmap /\ \A q \in Process, v \in VPages : page_table[q][v] # f
    BY <1>1, <2>1, SMTT(40) DEF OneOwner
  <2>4. \A q \in Process \ {p} : Holds(call[q]) => call[q].frame # f
    BY <1>1, <2>1, SMTT(40) DEF OneOwner
  <2> HIDE DEF f
  <2>5. \A q \in Process, v \in VPages : page_table'[q][v] # None => page_table'[q][v] \in bitmap'
    BY <1>6, <2>1, <2>3, SMTT(40) DEF OneOwner
  <2>6. \A q \in Process : Holds(call'[q]) => call'[q].frame \in bitmap'
    BY <2>1, <2>2, SMTT(40) DEF OneOwner
  <2>7. \A q, r \in Process, v, w \in VPages :
          page_table'[q][v] # None /\ page_table'[q][v] = page_table'[r][w] => q = r /\ v = w
    BY <1>6, <2>1, <2>3, SMTT(40) DEF OneOwner
  <2>8. \A q, r \in Process, v \in VPages : Holds(call'[q]) => page_table'[r][v] # call'[q].frame
    BY <1>6, <2>1, <2>2, <2>4, SMTT(40) DEF OneOwner
  <2>9. \A q, r \in Process :
          Holds(call'[q]) /\ Holds(call'[r]) /\ call'[q].frame = call'[r].frame => q = r
    BY <2>1, <2>2 DEF OneOwner
  <2> QED
    BY <2>5, <2>6, <2>7, <2>8, <2>9, SMTT(40) DEF OneOwner
<1> QED
  BY <1>9, <1>10, <1>11 DEF Inv
-----------------------------------------------------------------------------

LEMMA InitInv == Init => Inv
<1> SUFFICES ASSUME Init PROVE Inv
  OBVIOUS
<1>1. TypeOK
  BY Zenon DEF Init, TypeOK
<1>2. \A p \in Process : call[p] = None
  BY DEF Init
<1>3. \A p \in Process, v \in VPages : page_table[p][v] = None
  BY DEF Init
<1>4. OneOwner
  BY <1>2, <1>3 DEF OneOwner, Holds
<1> QED
  BY <1>1, <1>2, <1>4 DEF Inv, Extent

LEMMA NextInv == Inv /\ [Next]_vars => Inv'
<1> SUFFICES ASSUME Inv, [Next]_vars PROVE Inv'
  OBVIOUS
<1>1. CASE Next
  BY <1>1, MmapKeepsInv, FixedKeepsInv, ExpandKeepsInv, ContractKeepsInv,
     TakeFrameKeepsInv, MapFrameKeepsInv, OutOfFramesKeepsInv, FinishKeepsInv,
     MmapMapFailsKeepsInv, BrkMapFailureKeepsInv, ExitKeepsInv, Zenon DEF Next, Step
<1>2. CASE UNCHANGED vars
  <2>1. /\ UNCHANGED <<bitmap, next_free_hint, page_table, call, astray>>
        /\ UNCHANGED <<current, heap_end>>
    BY <1>2 DEF vars
  <2>2. TypeOK'
    BY <2>1, SMTT(40) DEF Inv, TypeOK
  <2>3. ~ astray' => OneOwner'
    BY <2>1 DEF Inv, OneOwner
  <2>4. \A p \in Process : Extent(call'[p])
    BY <2>1 DEF Inv
  <2> QED
    BY <2>2, <2>3, <2>4 DEF Inv
<1> QED
  BY <1>1, <1>2

\* However the mmap, brk and exit calls of any number of processes interleave
\* over the shared bitmap, and wherever map_user_page fails, a frame mapped or
\* about to be mapped is marked allocated and has one owner, until the clean-up
\* of a failed brk has released a frame it computed wrongly.
THEOREM FramesAreOwned == Spec => []FramesHaveOneOwner
<1>1. Spec => []Inv
  BY InitInv, NextInv, PTL DEF Spec
<1> QED
  BY <1>1, InvImpliesOneOwner, PTL

-----------------------------------------------------------------------------
(***************************************************************************)
(* The heap.  brk counts its pages from the old break, wherever in a page  *)
(* that lies, and MAP_FIXED takes any address, so the heap is backed only  *)
(* for the processes that move their break by whole pages and map outside  *)
(* the range of the heap: those not in unruly.  For such a process, a call *)
(* that fails half-way unmaps pages above the break or outside the heap,   *)
(* never a page below the break, and no other process touches its tables.  *)
(***************************************************************************)
HeapIsAligned == heap_start % PAGE_SIZE = 0

Exited(c) == c # None /\ c.op = "exit"

\* The pages from lo up to hi are mapped.
MappedUpTo(table, lo, hi) == \A v \in VPages : lo <= v /\ v < hi => table[v] # None

\* The break is at a page boundary, the pages below it are mapped, and a call
\* in progress works above the break or outside the heap.
HeapOf(c, table, brk) ==
  /\ brk = Page(brk) * PAGE_SIZE /\ heap_start <= brk /\ brk <= max_heap
  /\ ~ Exited(c) => MappedUpTo(table, Page(heap_start), Page(brk))
  /\ c # None => /\ c.op = "brk" => /\ c.base = brk /\ c.arg = Page(c.arg) * PAGE_SIZE
                                    /\ MappedUpTo(table, Page(brk), Page(brk) + c.i)
                 /\ c.op \in {"mmap", "fixed"} =>
                      max_heap <= c.base \/ c.base + c.n * PAGE_SIZE <= heap_start

HeapInv == \A p \in Process \ unruly : HeapOf(call[p], page_table[p], heap_end[p])

\* An address that is a multiple of the page size starts its page.
LEMMA AlignedStartsPage ==
  ASSUME NEW a \in Nat, a % PAGE_SIZE = 0
  PROVE  a = Page(a) * PAGE_SIZE
  BY SMT DEF Page

\* Every byte below a break at a page boundary lies in a page below it.
LEMMA HeapInvMapped == Inv /\ HeapInv => HeapIsMapped
<1> SUFFICES ASSUME Inv, HeapInv, NEW p \in Process \ unruly, ~ InCall(p, {"exit"}),
                    NEW a \in heap_start .. heap_end[p] - 1
             PROVE  Page(a) \in Mapped(p)
  BY SMTT(40) DEF HeapIsMapped
<1> DEFINE b == heap_end[p]
<1>1. b \in Nat /\ b <= max_heap /\ b = Page(b) * PAGE_SIZE
      /\ MappedUpTo(page_table[p], Page(heap_start), Page(b))
  BY SMTT(40) DEF Inv, TypeOK, HeapInv, HeapOf, InCall, Exited
<1> HIDE DEF b
<1>2. a \in Nat /\ heap_start <= a /\ a < b /\ a <= LastAddr
  BY <1>1 DEF b
<1>3. /\ Page(a) \in Nat /\ Page(heap_start) <= Page(a) /\ Page(a) <= Page(LastAddr)
      /\ Page(LastAddr) \in Nat
  BY <1>2, PageMonotone
<1>4. Page(a) < Page(b)
  <2>1. Page(b) \in Nat /\ Page(a) * PAGE_SIZE <= a
    BY <1>1, <1>2, PageBounds
  <2>2. Page(a) * PAGE_SIZE < Page(b) * PAGE_SIZE
    BY <1>1, <1>2, <1>3, <2>1
  <2>3. \A x, y \in Nat : x * PAGE_SIZE < y * PAGE_SIZE => x < y
    BY SMT
  <2> QED
    BY <1>3, <2>1, <2>2, <2>3
<1>5. Page(a) \in VPages
  BY <1>3, SMTT(40) DEF VPages
<1> QED
  BY <1>1, <1>3, <1>4, <1>5 DEF MappedUpTo, Mapped

\* A step of p leaves the heaps of the others alone.
LEMMA HeapStep ==
  ASSUME HeapInv, NEW p \in Process, unruly \subseteq unruly',
         \A q \in Process \ {p} :
           /\ call'[q] = call[q] /\ page_table'[q] = page_table[q]
           /\ heap_end'[q] = heap_end[q],
         p \notin unruly' => HeapOf(call'[p], page_table'[p], heap_end'[p])
  PROVE  HeapInv'
<1>1. \A q \in Process \ unruly' : HeapOf(call'[q], page_table'[q], heap_end'[q])
  BY ZenonT(40) DEF HeapInv
<1> QED
  BY <1>1, SMTT(40) DEF HeapInv, HeapOf, MappedUpTo, Exited

\* The clean-up of a call that fails unmaps pages above the break or outside
\* the heap.
LEMMA UndoKeepsHeap ==
  ASSUME Inv, HeapInv, NEW p \in Process, p \notin unruly, unruly' = unruly,
         call[p] # None,
         call[p].op \in {"mmap", "fixed", "brk"},
         page_table' = Undo(p), Return(p), heap_end' = heap_end
  PROVE  HeapInv'
<1> DEFINE c == call[p]
           b == heap_end[p]
<1>1. /\ TypeOK /\ Extent(c) /\ HeapOf(c, page_table[p], b)
      /\ c.base \in Nat /\ c.i \in Nat /\ c.n \in Nat /\ b \in Nat /\ c.i <= c.n
  BY ZenonT(40) DEF Inv, TypeOK, Call, HeapInv, Extent
<1>2. /\ \A v \in VPages :
           page_table'[p][v] = IF InRange(v, c.base, c.i) THEN None ELSE page_table[p][v]
      /\ \A q \in Process \ {p} : page_table'[q] = page_table[q]
  <2>1. UnmapsRange(UnmapFirst(p, c.base, c.i), p, c.base, c.i)
    BY <1>1, UnmapOwn, Zenon
  <2>2. page_table' = UnmapFirst(p, c.base, c.i)
    BY Zenon DEF Undo
  <2>3. UnmapsRange(page_table', p, c.base, c.i)
    BY <2>1, <2>2, Zenon
  <2> QED
    BY <2>3, Zenon DEF UnmapsRange
<1>3. call' = [call EXCEPT ![p] = None]
  BY ZenonT(40) DEF Return
<1>4. /\ call'[p] = None
      /\ \A q \in Process \ {p} : call'[q] = call[q]
  BY <1>1, <1>3, SMTT(40) DEF TypeOK
<1>5. ~ Exited(c)
  BY DEF Exited
<1> HIDE DEF c, b
<1>6. \A j \in 0 .. c.i - 1 : Page(c.base + j * PAGE_SIZE) = Page(c.base) + j
  <2> SUFFICES ASSUME NEW j \in 0 .. c.i - 1
               PROVE  Page(c.base + j * PAGE_SIZE) = Page(c.base) + j
    BY Zenon
  <2>1. j \in Nat /\ c.base \in Nat
    BY <1>1, SMTT(40)
  <2> QED
    BY <2>1, PageOfSum, Zenon
<1>7. Page(b) \in Nat /\ Page(c.base) \in Nat /\ Page(heap_start) \in Nat
  BY <1>1, PageBounds, SMTT(40)
<1>8. Page(b) <= Page(c.base) \/ Page(c.base) + c.n <= Page(heap_start)
  <2>1. CASE c.op = "brk"
    BY <1>1, <1>7, <2>1, SMTT(40) DEF HeapOf, c
  <2>2. CASE max_heap <= c.base
    <3>1. b <= c.base
      BY <1>1, <2>2, SMTT(40) DEF HeapOf
    <3> QED
      BY <1>1, <3>1, PageMonotone, SMTT(40)
  <2>3. CASE c.base + c.n * PAGE_SIZE <= heap_start
    <3>1. c.base + c.n * PAGE_SIZE \in Nat
      BY <1>1, SMTT(40)
    <3>2. Page(c.base + c.n * PAGE_SIZE) <= Page(heap_start)
      BY <2>3, <3>1, PageMonotone, SMTT(40)
    <3> QED
      BY <1>1, <3>2, PageOfSum, SMTT(40)
  <2>4. c # None /\ c.op \in {"mmap", "fixed", "brk"}
    BY Zenon DEF c
  <2>5. c.op = "brk" \/ max_heap <= c.base \/ c.base + c.n * PAGE_SIZE <= heap_start
    BY <1>1, <2>4, Zenon DEF HeapOf
  <2> QED
    BY <2>1, <2>2, <2>3, <2>5, Zenon
<1>9. MappedUpTo(page_table[p], Page(heap_start), Page(b))
  BY <1>1, <1>5, SMTT(40) DEF HeapOf
<1>10. MappedUpTo(page_table'[p], Page(heap_start), Page(b))
  <2> SUFFICES ASSUME NEW v \in VPages, Page(heap_start) <= v, v < Page(b)
               PROVE  page_table'[p][v] # None
    BY DEF MappedUpTo
  <2>1. v \in Int /\ page_table[p][v] # None
    BY <1>9, SMTT(40) DEF MappedUpTo, VPages
  <2>2. \A j \in 0 .. c.i - 1 : v # Page(c.base) + j
    BY <1>1, <1>7, <1>8, <2>1, SMTT(40)
  <2>3. ~ InRange(v, c.base, c.i)
    BY <1>6, <2>2, Zenon DEF InRange
  <2> QED
    BY <1>2, <2>1, <2>3, Zenon
<1>11. HeapOf(None, page_table'[p], b)
  BY <1>1, <1>10, Zenon DEF HeapOf
<1> QED
  BY <1>2, <1>4, <1>11, HeapStep, ZenonT(40) DEF b

\* A new call starts above the break or outside the heap.
LEMMA StartKeepsHeap ==
  ASSUME Inv, HeapInv, NEW p \in Process, unruly \subseteq unruly', p \notin unruly',
         \/ \E l \in Lengths : sys_mmap(p, l)
         \/ \E a \in FixedAddrs, l \in Lengths : sys_mmap_fixed(p, a, l)
         \/ \E b \in Breaks : sys_brk_expand(p, b)
  PROVE  HeapInv'
<1>1. /\ TypeOK /\ call[p] = None /\ UNCHANGED <<page_table, heap_end>>
      /\ HeapOf(None, page_table[p], heap_end[p])
  BY DEF Inv, HeapInv, sys_mmap, sys_mmap_fixed, sys_brk_expand
<1>2. heap_end[p] \in Nat /\ current[p] \in Nat /\ Page(heap_end[p]) \in Nat
  BY <1>1, PageBounds, SMTT(40) DEF TypeOK
<1>3. MappedUpTo(page_table[p], Page(heap_start), Page(heap_end[p]))
  BY <1>1, ZenonT(40) DEF HeapOf, Exited
<1>4. MappedUpTo(page_table[p], Page(heap_end[p]), Page(heap_end[p]) + 0)
  BY <1>2, SMTT(40) DEF MappedUpTo, VPages
<1>5. ASSUME NEW base \in Nat, NEW n \in Nat, NEW op \in {"mmap", "fixed"},
             call' = [call EXCEPT ![p] = NewCall(op, base, n, None)],
             Ruly(p, ~ MeetsHeap(base, n))
      PROVE  HeapInv'
  <2> DEFINE c == NewCall(op, base, n, None)
  <2>1. c.op = op /\ c.base = base /\ c.n = n
    BY DEF NewCall
  <2> HIDE DEF c
  <2>2. call'[p] = c /\ \A q \in Process \ {p} : call'[q] = call[q]
    BY <1>1, <1>5, SMTT(40) DEF TypeOK, c
  <2>3. ~ MeetsHeap(base, n)
    BY <1>5, Zenon DEF Ruly
  <2>4. max_heap <= base \/ base + n * PAGE_SIZE <= heap_start
    <3>1. n * PAGE_SIZE \in Nat
      OBVIOUS
    <3> QED
      BY <2>3, <3>1 DEF MeetsHeap
  <2>5. c.op # "brk"
    BY <1>5, <2>1
  <2>6. HeapOf(c, page_table[p], heap_end[p])
    BY <1>1, <1>3, <2>1, <2>4, <2>5, Zenon DEF HeapOf
  <2> QED
    BY <1>1, <2>2, <2>6, HeapStep, ZenonT(40)
<1>6. ASSUME \/ \E l \in Lengths : sys_mmap(p, l)
             \/ \E a \in FixedAddrs, l \in Lengths : sys_mmap_fixed(p, a, l)
      PROVE  HeapInv'
  <2>1. \A l \in Lengths : PagesFor(l) \in Nat
    BY PagesForBounds
  <2>2. FixedAddrs \subseteq Nat
    BY Zenon
  <2> QED
    BY <1>2, <1>5, <1>6, <2>1, <2>2, ZenonT(40) DEF sys_mmap, sys_mmap_fixed
<1>7. ASSUME NEW b \in Breaks, sys_brk_expand(p, b) PROVE HeapInv'
  <2> DEFINE c == NewCall("brk", heap_end[p], PagesFor(b - heap_end[p]), b)
  <2>1. call' = [call EXCEPT ![p] = c]
    BY <1>7, SMTT(40) DEF sys_brk_expand
  <2>2. c.op = "brk" /\ c.base = heap_end[p] /\ c.arg = b /\ c.i = 0
    BY DEF NewCall
  <2> HIDE DEF c
  <2>3. call'[p] = c /\ \A q \in Process \ {p} : call'[q] = call[q]
    BY <1>1, <2>1 DEF TypeOK
  <2>4. b = Page(b) * PAGE_SIZE
    <3>1. b % PAGE_SIZE = 0 /\ b \in Nat
      BY <1>7, Zenon DEF sys_brk_expand, Ruly
    <3> QED
      BY <3>1, AlignedStartsPage, Zenon
  <2>5. HeapOf(c, page_table[p], heap_end[p])
    BY <1>1, <1>3, <1>4, <2>2, <2>4, Zenon DEF HeapOf
  <2> QED
    BY <1>1, <2>3, <2>5, HeapStep, ZenonT(40)
<1> QED
  BY <1>6, <1>7, Zenon

\* brk below the break unmaps the pages from the new break on.
LEMMA ContractKeepsHeap ==
  ASSUME Inv, HeapInv, NEW p \in Process, unruly \subseteq unruly', p \notin unruly',
         NEW b \in Breaks, sys_brk_contract(p, b)
  PROVE  HeapInv'
<1> DEFINE n == PagesFor(heap_end[p] - b)
<1>1. /\ TypeOK /\ call[p] = None /\ heap_start <= b /\ b < heap_end[p] /\ b \in Nat
      /\ HeapOf(None, page_table[p], heap_end[p]) /\ heap_end[p] \in Nat
  BY SMTT(40) DEF Inv, TypeOK, HeapInv, sys_brk_contract
<1>2. n \in Nat
  BY <1>1, PagesForBounds, SMTT(40)
<1>3. /\ page_table' = UnmapFirst(p, b, n) /\ heap_end' = [heap_end EXCEPT ![p] = b]
      /\ UNCHANGED <<current, call>>
  BY ZenonT(40) DEF sys_brk_contract
<1> HIDE DEF n
<1>4. /\ \A v \in VPages : page_table'[p][v] =
           IF \E j \in 0 .. n - 1 : v = Page(b + j * PAGE_SIZE)
           THEN None ELSE page_table[p][v]
      /\ \A q \in Process \ {p} : page_table'[q] = page_table[q]
  <2>1. UnmapsRange(UnmapFirst(p, b, n), p, b, n)
    BY <1>1, <1>2, UnmapOwn, Zenon
  <2>2. UnmapsRange(page_table', p, b, n)
    BY <1>3, <2>1, Zenon
  <2> QED
    BY <2>2, Zenon DEF UnmapsRange, InRange
<1>5. heap_end'[p] = b /\ \A q \in Process \ {p} : heap_end'[q] = heap_end[q]
  BY <1>1, <1>3, SMTT(40) DEF TypeOK
<1>6. MappedUpTo(page_table'[p], Page(heap_start), Page(b))
  <2> SUFFICES ASSUME NEW v \in VPages, Page(heap_start) <= v, v < Page(b)
               PROVE  page_table'[p][v] # None
    BY DEF MappedUpTo
  <2>1. Page(b) \in Nat /\ Page(heap_end[p]) \in Nat /\ Page(b) <= Page(heap_end[p])
    BY <1>1, PageMonotone, SMTT(40)
  <2>2. v \in Int /\ page_table[p][v] # None
    BY <1>1, <2>1, SMTT(40) DEF HeapOf, Exited, MappedUpTo, VPages
  <2>3. \A j \in 0 .. n - 1 : Page(b + j * PAGE_SIZE) = Page(b) + j
    BY <1>1, <1>2, PageOfSum, SMTT(40)
  <2>4. \A j \in 0 .. n - 1 : v # Page(b + j * PAGE_SIZE)
    <3>1. \A j \in 0 .. n - 1 : v # Page(b) + j
      BY <1>2, <2>1, <2>2
    <3> QED
      BY <2>3, <3>1, SMTT(40)
  <2> QED
    BY <1>4, <2>2, <2>4
<1>7. b = Page(b) * PAGE_SIZE
  <2>1. b % PAGE_SIZE = 0
    BY Zenon DEF sys_brk_contract, Ruly
  <2> QED
    BY <1>1, <2>1, AlignedStartsPage, Zenon
<1>8. HeapOf(None, page_table'[p], b)
  <2>1. heap_end[p] <= max_heap
    BY <1>1, Zenon DEF HeapOf
  <2>2. b <= max_heap
    BY <1>1, <2>1, SMTT(40)
  <2> QED
    BY <1>1, <1>6, <1>7, <2>1, <2>2, Zenon DEF HeapOf
<1> QED
  BY <1>1, <1>3, <1>4, <1>5, <1>8, HeapStep, ZenonT(40)

\* Taking a frame changes nothing the heap depends on.
LEMMA TakeFrameKeepsHeap ==
  ASSUME Inv, HeapInv, NEW p \in Process, p \notin unruly, unruly' = unruly,
         TakeFrame(p)
  PROVE  HeapInv'
<1> DEFINE c == [call[p] EXCEPT !.frame = allocate_page(bitmap, next_free_hint)]
<1>1. /\ TypeOK /\ call[p] # None /\ call[p] \in Call
      /\ call[p].op \in {"mmap", "fixed", "brk"}
      /\ HeapOf(call[p], page_table[p], heap_end[p])
  BY DEF Inv, TypeOK, HeapInv, TakeFrame, InCall
<1>2. call' = [call EXCEPT ![p] = c] /\ UNCHANGED <<page_table, current, heap_end>>
  BY DEF TakeFrame
<1>3. /\ c.op = call[p].op /\ c.i = call[p].i /\ c.n = call[p].n
      /\ c.base = call[p].base /\ c.arg = call[p].arg
  BY <1>1, SMTT(40) DEF Call
<1> HIDE DEF c
<1>4. call'[p] = c /\ \A q \in Process \ {p} : call'[q] = call[q]
  BY <1>1, <1>2, SMTT(40) DEF TypeOK
<1>5. HeapOf(c, page_table[p], heap_end[p])
  BY <1>1, <1>3, ZenonT(40) DEF HeapOf, Exited
<1> QED
  BY <1>2, <1>4, <1>5, HeapStep

\* Mapping a frame unmaps nothing, and brk gets one page further.
LEMMA MapFrameKeepsHeap ==
  ASSUME Inv, HeapInv, NEW p \in Process, p \notin unruly, unruly' = unruly,
         MapFrame(p)
  PROVE  HeapInv'
<1> DEFINE k == call[p]
           c == [call[p] EXCEPT !.frame = None, !.i = @ + 1]
           a == VAddr(p)
           b == heap_end[p]
<1>1. /\ TypeOK /\ k # None /\ k \in Call /\ k.frame # None /\ b \in Nat
      /\ HeapOf(k, page_table[p], b) /\ Extent(k)
      /\ k.op \in {"mmap", "fixed", "brk"}
  BY DEF Inv, TypeOK, HeapInv, MapFrame, InCall
<1>2. /\ page_table' = MapPage(p, a, k.frame)
      /\ call' = [call EXCEPT ![p] = c] /\ UNCHANGED <<current, heap_end>>
  BY ZenonT(40) DEF MapFrame
<1>3. /\ c.op = k.op /\ c.i = k.i + 1 /\ c.n = k.n
      /\ c.base = k.base /\ c.arg = k.arg
  BY <1>1 DEF Call
<1>4. k.frame \in Nat /\ k.i \in Nat /\ k.n \in Nat /\ k.base \in Nat /\ k.i < k.n
  BY <1>1, Zenon DEF Call, Extent, Holds
<1>5. a = k.base + k.i * PAGE_SIZE
  BY SMTT(40) DEF VAddr
<1>6. k.op = "brk" => Page(a) \in VPages
  <2>1. k.i \in 0 .. k.n - 1
    BY <1>4, SMTT(40)
  <2> QED
    BY <1>1, <1>5, <2>1, BrkPagesExist, ZenonT(40)
<1> HIDE DEF c, k, a
<1>7. /\ \A v \in VPages :
           page_table'[p][v] = IF v = Page(a) THEN k.frame ELSE page_table[p][v]
      /\ \A q \in Process \ {p} : page_table'[q] = page_table[q]
  BY <1>1, <1>2, <1>4, MapEffect, SMTT(40)
<1>8. call'[p] = c /\ \A q \in Process \ {p} : call'[q] = call[q]
  BY <1>1, <1>2, Zenon DEF TypeOK
<1> HIDE DEF b
<1>9. Page(a) = Page(k.base) + k.i /\ Page(k.base) \in Nat
  BY <1>4, <1>5, PageOfSum, PageBounds, ZenonT(40)
<1>10. \A lo, hi : MappedUpTo(page_table[p], lo, hi) => MappedUpTo(page_table'[p], lo, hi)
  BY <1>1, <1>7, SMTT(40) DEF MappedUpTo
<1>11. ~ Exited(c) /\ ~ Exited(k)
  BY <1>1, <1>3, SMTT(40) DEF Exited
<1>12. MappedUpTo(page_table'[p], Page(heap_start), Page(b))
  BY <1>1, <1>10, <1>11, SMTT(40) DEF HeapOf
<1>13. k.op = "brk" => MappedUpTo(page_table'[p], Page(b), Page(b) + (k.i + 1))
  <2> SUFFICES ASSUME k.op = "brk", NEW v \in VPages, Page(b) <= v, v < Page(b) + (k.i + 1)
               PROVE  page_table'[p][v] # None
    BY SMTT(40) DEF MappedUpTo
  <2>1. MappedUpTo(page_table[p], Page(b), Page(b) + k.i) /\ k.base = b
    BY <1>1 DEF HeapOf
  <2>2. v \in Int
    BY SMTT(40) DEF VPages
  <2>3. CASE v = Page(b) + k.i
    BY <1>1, <1>7, <1>9, <2>1, <2>3, ZenonT(40)
  <2>4. CASE v # Page(b) + k.i
    <3>1. v < Page(b) + k.i
      BY <1>4, <1>9, <2>1, <2>2, <2>4, SMTT(40)
    <3> QED
      BY <1>10, <2>1, <3>1, SMTT(40) DEF MappedUpTo
  <2> QED
    BY <2>3, <2>4, SMTT(40)
<1>14. HeapOf(c, page_table'[p], b)
  BY <1>1, <1>3, <1>12, <1>13 DEF HeapOf
<1> QED
  BY <1>2, <1>7, <1>8, <1>14, HeapStep, Zenon DEF b

\* When the loop of brk is done, the pages up to the new break are mapped.
LEMMA FinishKeepsHeap ==
  ASSUME Inv, HeapInv, NEW p \in Process, p \notin unruly, unruly' = unruly,
         Finish(p)
  PROVE  HeapInv'
<1> DEFINE k == call[p]
           b == heap_end[p]
           t == page_table[p]
<1>1. /\ TypeOK /\ k # None /\ k \in Call /\ k.i = k.n /\ b \in Nat
      /\ HeapOf(k, t, b) /\ Extent(k)
      /\ k.op \in {"mmap", "fixed", "brk"}
  BY SMTT(40) DEF Inv, TypeOK, HeapInv, Finish, InCall
<1>2. /\ call' = [call EXCEPT ![p] = None] /\ UNCHANGED <<page_table, current>>
      /\ heap_end' = IF k.op = "brk" THEN [heap_end EXCEPT ![p] = k.arg] ELSE heap_end
  BY SMTT(40) DEF Finish, Return
<1> HIDE DEF k
<1>3. call'[p] = None /\ \A q \in Process \ {p} : call'[q] = call[q]
  BY <1>1, <1>2, SMTT(40) DEF TypeOK
<1>4. /\ heap_end'[p] = IF k.op = "brk" THEN k.arg ELSE b
      /\ \A q \in Process \ {p} : heap_end'[q] = heap_end[q]
  BY <1>1, <1>2, SMTT(40) DEF TypeOK
<1> HIDE DEF b, t
<1>5. MappedUpTo(t, Page(heap_start), Page(b))
  BY <1>1, SMTT(40) DEF HeapOf, Exited
<1>6. CASE k.op # "brk"
  <2>1. HeapOf(None, t, b)
    BY <1>1, <1>5, SMTT(40) DEF HeapOf
  <2> QED
    BY <1>2, <1>3, <1>4, <1>6, <2>1, HeapStep, SMTT(40) DEF b, t
<1>7. CASE k.op = "brk"
  <2>1. /\ k.arg \in Nat /\ k.base = b /\ b < k.arg /\ k.arg <= max_heap
        /\ k.n = PagesFor(k.arg - b) /\ heap_start <= b
        /\ b = Page(b) * PAGE_SIZE /\ k.arg = Page(k.arg) * PAGE_SIZE
        /\ MappedUpTo(t, Page(b), Page(b) + k.n)
    BY <1>1, <1>7 DEF Extent, BrkExtent, HeapOf
  <2>2. Page(b) \in Nat /\ Page(k.arg) \in Nat /\ k.n \in Nat
    BY <1>1, <2>1, PageBounds DEF Call
  <2>3. Page(k.arg) <= Page(b) + k.n
    <3>1. k.arg - b \in Nat /\ k.arg - b <= k.n * PAGE_SIZE
      BY <1>1, <2>1, PagesForBounds, SMTT(40)
    <3>2. Page(k.arg) * PAGE_SIZE <= Page(b) * PAGE_SIZE + k.n * PAGE_SIZE
      BY <1>1, <2>1, <2>2, <3>1
    <3>3. \A x, y, z \in Nat : x * PAGE_SIZE <= y * PAGE_SIZE + z * PAGE_SIZE => x <= y + z
      BY SMTT(40)
    <3> QED
      BY <2>2, <3>2, <3>3, SMTT(40)
  <2>4. MappedUpTo(t, Page(heap_start), Page(k.arg))
    <3> SUFFICES ASSUME NEW v \in VPages, Page(heap_start) <= v, v < Page(k.arg)
                 PROVE  t[v] # None
      BY DEF MappedUpTo
    <3>1. v \in Int
      BY DEF VPages
    <3>2. v < Page(b) \/ (Page(b) <= v /\ v < Page(b) + k.n)
      BY <2>2, <2>3, <3>1, SMTT(40)
    <3> QED
      BY <1>5, <2>1, <3>2, SMTT(40) DEF MappedUpTo
  <2>5. HeapOf(None, t, k.arg)
    BY <1>1, <2>1, <2>4, SMTT(40) DEF HeapOf
  <2> QED
    BY <1>2, <1>3, <1>4, <1>7, <2>5, HeapStep, ZenonT(40) DEF t
<1> QED
  BY <1>6, <1>7, SMTT(40)

\* A process that has exited has no heap to speak of.
LEMMA ExitKeepsHeap ==
  ASSUME Inv, HeapInv, NEW p \in Process, p \notin unruly, unruly' = unruly,
         sys_exit(p)
  PROVE  HeapInv'
<1> DEFINE c == [NewCall("exit", 0, 0, None) EXCEPT !.i = 1]
<1>1. TypeOK /\ HeapOf(call[p], page_table[p], heap_end[p])
  BY Zenon DEF Inv, HeapInv
<1>2. /\ page_table' = [page_table EXCEPT ![p] = [v \in VPages |-> None]]
      /\ call' = [call EXCEPT ![p] = c] /\ UNCHANGED <<current, heap_end>>
  BY DEF sys_exit
<1>3. c \in Call /\ c.op = "exit"
  BY DEF NewCall, Call
<1> HIDE DEF c
<1>4. /\ call'[p] = c /\ \A q \in Process \ {p} : call'[q] = call[q]
      /\ \A q \in Process \ {p} : page_table'[q] = page_table[q]
  BY <1>1, <1>2 DEF TypeOK
<1>5. Exited(c)
  BY <1>3, NoCallAssumption, SMTT(40) DEF Exited
<1>6. HeapOf(c, page_table'[p], heap_end[p])
  BY <1>1, <1>3, <1>5, Zenon DEF HeapOf
<1> QED
  BY <1>2, <1>4, <1>6, HeapStep, ZenonT(40)

\* A step of p changes the tables, the break and the call of p only.
LEMMA OthersUntouched ==
  ASSUME TypeOK, NEW p \in Process, Step(p), NEW q \in Process \ {p}
  PROVE  /\ call'[q] = call[q] /\ page_table'[q] = page_table[q]
         /\ heap_end'[q] = heap_end[q]
<1>1. CASE \/ \E l \in Lengths : sys_mmap(p, l)
           \/ \E a \in FixedAddrs, l \in Lengths : sys_mmap_fixed(p, a, l)
           \/ \E b \in Breaks : sys_brk_expand(p, b)
  BY <1>1, Zenon DEF TypeOK, sys_mmap, sys_mmap_fixed, sys_brk_expand
<1>2. CASE \E b \in Breaks : sys_brk_contract(p, b)
  BY <1>2, Zenon DEF TypeOK, sys_brk_contract, UnmapFirst
<1>3. CASE TakeFrame(p) \/ Finish(p)
  BY <1>3, Zenon DEF TypeOK, TakeFrame, Finish, Return
<1>4. CASE MapFrame(p)
  BY <1>4, Zenon DEF TypeOK, MapFrame, MapPage
<1>5. CASE OutOfFrames(p) \/ MmapMapFails(p) \/ BrkMapFailure(p)
  BY <1>5, Zenon DEF TypeOK, OutOfFrames, MmapMapFails, BrkMapFailure, Undo, UnmapFirst, Return
<1>6. CASE sys_exit(p)
  BY <1>6, Zenon DEF TypeOK, sys_exit
<1> QED
  BY <1>1, <1>2, <1>3, <1>4, <1>5, <1>6, Zenon DEF Step

\* A process once unruly stays so; only the calls that start make it so.
LEMMA UnrulyGrows ==
  ASSUME NEW p \in Process, Step(p)
  PROVE  unruly \subseteq unruly'
BY Zenon DEF Step, Ruly, sys_mmap, sys_mmap_fixed, sys_brk_expand, sys_brk_contract, TakeFrame,
   MapFrame, OutOfFrames, Finish, MmapMapFails, BrkMapFailure, sys_exit

LEMMA NextHeap ==
  ASSUME Inv, HeapInv, [Next]_vars
  PROVE  HeapInv'
<1>1. ASSUME NEW p \in Process, Step(p) PROVE HeapInv'
  <2>1. unruly \subseteq unruly' /\ TypeOK
    BY <1>1, UnrulyGrows, Zenon DEF Inv
  <2>2. CASE p \in unruly'
    BY <1>1, <2>1, <2>2, OthersUntouched, HeapStep, ZenonT(40)
  <2>3. CASE p \notin unruly'
    <3>1. CASE \/ \E l \in Lengths : sys_mmap(p, l)
               \/ \E a \in FixedAddrs, l \in Lengths : sys_mmap_fixed(p, a, l)
               \/ \E b \in Breaks : sys_brk_expand(p, b)
      BY <2>1, <2>3, <3>1, StartKeepsHeap, ZenonT(40)
    <3>2. CASE \E b \in Breaks : sys_brk_contract(p, b)
      BY <2>1, <2>3, <3>2, ContractKeepsHeap, ZenonT(40)
    <3>3. CASE OutOfFrames(p) \/ MmapMapFails(p) \/ BrkMapFailure(p)
      <4>1. /\ call[p] # None /\ call[p].op \in {"mmap", "fixed", "brk"}
            /\ page_table' = Undo(p) /\ Return(p) /\ heap_end' = heap_end
            /\ unruly' = unruly
        BY <3>3, Zenon DEF OutOfFrames, MmapMapFails, BrkMapFailure, InCall
      <4> QED
        BY <2>3, <4>1, UndoKeepsHeap, ZenonT(40)
    <3>4. CASE TakeFrame(p) \/ MapFrame(p) \/ Finish(p) \/ sys_exit(p)
      <4>1. unruly' = unruly
        BY <3>4, Zenon DEF TakeFrame, MapFrame, Finish, sys_exit
      <4> QED
        BY <2>3, <3>4, <4>1, TakeFrameKeepsHeap, MapFrameKeepsHeap, FinishKeepsHeap,
           ExitKeepsHeap, ZenonT(40)
    <3> QED
      BY <1>1, <3>1, <3>2, <3>3, <3>4, Zenon DEF Step
  <2> QED
    BY <2>2, <2>3, Zenon
<1>2. CASE UNCHANGED vars
  BY <1>2, ZenonT(40) DEF vars, HeapInv, HeapOf, MappedUpTo, Exited
<1> QED
  BY <1>1, <1>2, Zenon DEF Next

LEMMA InitHeap ==
  ASSUME HeapIsAligned, Init
  PROVE  HeapInv
<1> SUFFICES ASSUME NEW p \in Process
             PROVE  HeapOf(call[p], page_table[p], heap_end[p])
  BY DEF HeapInv
<1>1. /\ call[p] = None /\ heap_end[p] = heap_start
  BY DEF Init
<1>2. heap_start = Page(heap_start) * PAGE_SIZE /\ Page(heap_start) \in Nat
  BY AlignedStartsPage, PageBounds DEF HeapIsAligned
<1>3. MappedUpTo(page_table[p], Page(heap_start), Page(heap_start))
  BY <1>2 DEF MappedUpTo, VPages
<1>4. heap_start <= heap_start /\ heap_start <= max_heap
  BY UserMemoryAssumption
<1> QED
  BY <1>1, <1>2, <1>3, <1>4, Zenon DEF HeapOf

\* When the heap starts at a page boundary, every address brk has granted to a
\* process that moves its break by whole pages and maps outside its heap stays
\* backed by a page until brk takes it back, whatever frames run out, whichever
\* map_user_page fails, and whatever the other processes do.
THEOREM HeapStaysMapped ==
  ASSUME HeapIsAligned
  PROVE  Spec => []HeapIsMapped
<1>1. Init => Inv /\ HeapInv
  BY InitInv, InitHeap
<1>2. Inv /\ HeapInv /\ [Next]_vars => (Inv /\ HeapInv)'
  BY NextInv, NextHeap
<1>3. Spec => [](Inv /\ HeapInv)
  BY <1>1, <1>2, PTL DEF Spec
<1> QED
  BY <1>3, HeapInvMapped, PTL
=============================================================================
