---------------------------- MODULE KernelPaging ----------------------------
(***************************************************************************)
(* The page tables of arch/paging.rs and the hardware that walks them.     *)
(*                                                                         *)
(* An entry is an address and a set of flag bits.  addr() and set_addr     *)
(* take bits 4 .. 47 for the address, so that the flags from bit 4 on (PCD,*)
(* A, D, PS, G) belong to both.  Of these the code sets none in an entry   *)
(* that points to a table; the hardware sets A (0x20) in every entry it    *)
(* uses.  From then on addr() is 0x20 too large, four entries of eight     *)
(* bytes.                                                                  *)
(*                                                                         *)
(* A page is the sequence of its indices.  The four levels of the code     *)
(* treat the upper three alike, and here their number is Len(v) - 1.       *)
(* Tables are page aligned; indices stay Shift below the size of a table,  *)
(* so that a walk that goes astray stays inside it.                        *)
(***************************************************************************)
EXTENDS Integers, Functions, SequenceEnds

CONSTANTS
  Virt,             \* pages: sequences of indices of the same length
  Frames,           \* frames to map
  Flags,            \* what callers pass as flags: sets of bits
  TableSize,        \* ENTRY_COUNT, 512 in the code
  MaxTables,        \* tables the heap has room for
  Unmapped

Shift == 4
Low == {"P", "W", "U", "PWT"}
High == {"PCD", "A", "D", "PS", "G"}

ASSUME PagingAssumption ==
  /\ TableSize \in Nat /\ TableSize > Shift /\ MaxTables \in Nat /\ MaxTables > 0
  /\ \A v \in Virt : v \in Seq(0 .. TableSize - Shift - 1) /\ Len(v) > 1
  /\ \A v, w \in Virt : Len(v) = Len(w)
  /\ Frames \subseteq Nat /\ Flags \subseteq SUBSET (Low \cup High)
  /\ Unmapped \notin [addr : Nat, flags : SUBSET (Low \cup High)]

VARIABLES
  tables,           \* table 1 is KERNEL_PML4, unused ones are zero
  next,             \* the next table the heap returns
  walked,           \* history: entries of upper tables the hardware used
  want              \* history: what the calls so far asked for, for each page

pagingVars == <<tables, next, walked, want>>

Root == 1
NoSlot == <<0, 0>>
Entry(a, f) == [addr |-> a, flags |-> f]
empty == Entry(0, {})

present(e) == "P" \in e.flags
set_addr(e, a) == Entry(a, e.flags \cap Low)
set_flags(e, f) == Entry(e.addr, f)

At(m, slot) == m[slot[1]][slot[2]]
Put(m, slot, e) == [m EXCEPT ![slot[1]][slot[2]] = e]

\* The entry number i of the table that e points to, for the code.
addr(e, i) == <<e.addr, i + (IF "A" \in e.flags THEN Shift ELSE 0)>>

\* The walk all functions share: the slot of the last level, or none.
FindSlot(m, root, v) ==
  LET slot[k \in 1 .. Len(v)] ==
        IF k = 1 THEN <<root, v[1]>>
        ELSE LET s == slot[k - 1]
             IN IF s = NoSlot \/ ~ present(At(m, s)) THEN NoSlot ELSE addr(At(m, s), v[k])
  IN slot[Len(v)]

translate(m, root, v) ==
  LET slot == FindSlot(m, root, v)
  IN IF slot # NoSlot /\ present(At(m, slot)) THEN At(m, slot) ELSE Unmapped

get_page_flags(m, root, v) ==
  LET slot == FindSlot(m, root, v)
  IN IF slot # NoSlot /\ present(At(m, slot)) THEN At(m, slot).flags ELSE {}

\* External: the hardware goes by the page number alone.  The path has the
\* slots it uses, with the last one or NoSlot at the end.
HwPath(m, root, v) ==
  LET path[k \in 1 .. Len(v)] ==
        IF k = 1 THEN << <<root, v[1]>> >>
        ELSE LET p == path[k - 1]
                 s == Last(p)
             IN IF s = NoSlot THEN p
                ELSE Append(p, IF present(At(m, s)) THEN <<At(m, s).addr, v[k]>> ELSE NoSlot)
  IN path[Len(v)]
HwSlot(m, root, v) == Last(HwPath(m, root, v))
HwWalk(m, root, v) ==
  LET slot == HwSlot(m, root, v)
  IN IF slot # NoSlot /\ present(At(m, slot)) THEN At(m, slot) ELSE Unmapped

-----------------------------------------------------------------------------
\* A walk that makes the tables it needs: where it is, and what it has made.
Walk(m, n, slot) == [mem |-> m, next |-> n, slot |-> slot]

\* One level of map_page: a missing table is taken from the heap.
Descend(s, i) ==
  LET e == At(s.mem, s.slot)
      new == Entry(s.next, (e.flags \cap Low) \cup {"P", "W"})
  IN IF present(e) THEN Walk(s.mem, s.next, addr(e, i))
     ELSE Walk(Put(s.mem, s.slot, new), s.next + 1, addr(new, i))

\* Faulty variant: the flags are written before the address.
LeafFlagsFirst(e, phys, flags) == set_addr(set_flags(e, flags), phys)

Leaf(e, phys, flags) == set_flags(set_addr(e, phys), flags)

\* The walk of map_page, and the tables after it.
AfterMap(m, n, v, phys, flags) ==
  LET down[k \in 1 .. Len(v)] ==
        IF k = 1 THEN Walk(m, n, <<Root, v[1]>>) ELSE Descend(down[k - 1], v[k])
      d == down[Len(v)]
  IN Walk(Put(d.mem, d.slot, Leaf(At(d.mem, d.slot), phys, flags)), d.next, d.slot)

\* The tables after unmap_page: the address stays in the entry.
AfterUnmap(m, v) ==
  LET slot == FindSlot(m, Root, v)
  IN IF slot = NoSlot THEN m ELSE Put(m, slot, set_flags(At(m, slot), {}))

\* Only states in which the heap had room for the new tables are kept.
Becomes(s) == s.next <= MaxTables + 1 /\ tables' = s.mem /\ next' = s.next

\* A mapping without the present bit is none.
Ask(v, phys, flags) ==
  want' = [want EXCEPT ![v] = IF "P" \in flags THEN Entry(phys, flags) ELSE Unmapped]

map_page(v, phys, flags) ==
  /\ Becomes(AfterMap(tables, next, v, phys, flags))
  /\ Ask(v, phys, flags)
  /\ UNCHANGED walked

unmap_page(v) ==
  /\ tables' = AfterUnmap(tables, v)
  /\ Ask(v, 0, {})
  /\ UNCHANGED <<next, walked>>

remap_page(v, phys, flags) ==
  /\ Becomes(AfterMap(AfterUnmap(tables, v), next, v, phys, flags))
  /\ Ask(v, phys, flags)
  /\ UNCHANGED walked

\* set_page_flags; protect_page passes Present and perhaps Writable.
set_page_flags(v, flags) ==
  /\ translate(tables, Root, v) # Unmapped
  /\ LET slot == FindSlot(tables, Root, v) IN tables' = Put(tables, slot, set_flags(At(tables, slot), flags))
  /\ Ask(v, translate(tables, Root, v).addr, flags)
  /\ UNCHANGED <<next, walked>>

\* mark_page_accessed and mark_page_dirty.
mark_page(v, bit) ==
  /\ translate(tables, Root, v) # Unmapped
  /\ LET slot == FindSlot(tables, Root, v)
         flags == At(tables, slot).flags \cup {bit}
     IN tables' = Put(tables, slot, set_flags(At(tables, slot), flags)) /\ Ask(v, At(tables, slot).addr, flags)
  /\ UNCHANGED <<next, walked>>

\* The frame is whichever allocate_frame returns.
alloc_and_map_user_page(v, phys, flags) ==
  /\ Becomes(AfterMap(tables, next, v, phys, flags \cup {"U"}))
  /\ Ask(v, phys, flags \cup {"U"})
  /\ UNCHANGED walked

ensure_page_mapped(v, phys, flags) ==
  /\ translate(tables, Root, v) = Unmapped
  /\ map_page(v, phys, flags)

\* External: an access the hardware completes.
Access(v) ==
  /\ HwWalk(tables, Root, v) # Unmapped
  /\ LET path == HwPath(tables, Root, v)
     IN /\ tables' = [t \in DOMAIN tables |-> [i \in DOMAIN tables[t] |->
                     IF <<t, i>> \in Range(path)
                     THEN set_flags(tables[t][i], tables[t][i].flags \cup {"A"}) ELSE tables[t][i]]]
        /\ walked' = walked \cup Range(Front(path))
  /\ UNCHANGED <<next, want>>

-----------------------------------------------------------------------------
\* Faulty variant: the last entry of a table is not copied.
CopyTableShort(m, old, new) ==
  [m EXCEPT ![new] = [i \in DOMAIN @ |-> IF i < TableSize - Shift - 1 THEN m[old][i] ELSE empty]]

CopyTable(m, old, new) == [m EXCEPT ![new] = m[old]]

Clone(m, n, root) == [mem |-> m, next |-> n, root |-> root]

\* clone_page_table: the tables of the second level are copied, those below
\* shared.  Present, writable and user in an entry of the new root are those
\* of the FIRST entry of the table it points to.  The new root is table next,
\* its copies follow.  Said for tables whose entries have no A bit yet.
CloneEntry(s, i) ==
  LET e == s.mem[Root][i]
      first == s.mem[e.addr][0]
      copy == Entry(s.next, first.flags \cap {"P", "W", "U"})
  IN IF ~ present(e) \/ "PS" \in e.flags THEN Clone(Put(s.mem, <<s.root, i>>, e), s.next, s.root)
     ELSE Clone(Put(CopyTable(s.mem, e.addr, s.next), <<s.root, i>>, copy), s.next + 1, s.root)

clone_page_table ==
  LET done[k \in 0 .. TableSize] ==
        IF k = 0 THEN Clone(tables, next + 1, next)
        ELSE CloneEntry(done[k - 1], k - 1)
  IN done[TableSize]

-----------------------------------------------------------------------------
Spare == TableSize + 1
PagingInit ==
  /\ tables = [t \in 1 .. MaxTables + Spare |-> [i \in 0 .. TableSize - 1 |-> empty]]
  /\ next = 2 /\ walked = {} /\ want = [v \in Virt |-> Unmapped]

\* What the code does; then with the hardware that uses the tables.
Build ==
  \/ \E v \in Virt, phys \in Frames, flags \in Flags :
       \/ map_page(v, phys, flags) \/ remap_page(v, phys, flags)
       \/ alloc_and_map_user_page(v, phys, flags) \/ ensure_page_mapped(v, phys, flags)
  \/ \E v \in Virt, flags \in Flags : set_page_flags(v, flags)
  \/ \E v \in Virt, bit \in {"A", "D"} : mark_page(v, bit)
  \/ \E v \in Virt : unmap_page(v)

PagingNext == Build \/ \E v \in Virt : Access(v)

PagingSpec == PagingInit /\ [][PagingNext]_pagingVars
-----------------------------------------------------------------------------

\* A clone of tables the hardware has not used maps every page as they do,
\* provided that each table of the second level has its first entry present
\* and writable, which stands for the whole table.
CloneMapsTheSame ==
  (/\ walked = {}
   /\ next + Spare <= MaxTables + Spare
   /\ \A i \in 0 .. TableSize - 1 : present(tables[Root][i]) =>
        {"P", "W"} \subseteq tables[tables[Root][i].addr][0].flags)
  => LET c == clone_page_table
     IN \A v \in Virt : HwWalk(c.mem, c.root, v) = HwWalk(tables, Root, v)

\* Before the hardware uses them the tables are a function from pages to
\* frames and flags: after any sequence of calls the hardware finds each page
\* mapped as the last call about it asked, calls about other pages, which share
\* its tables at some levels, have not touched it, and translate_virt_to_phys
\* and get_page_flags tell the same.  Once the accessed bit is set in an entry
\* of an upper table, the walks of the code go astray and nothing of this holds.
TranslationIsAsAsked ==
  walked = {} => \A v \in Virt :
    /\ HwWalk(tables, Root, v) = want[v]
    /\ translate(tables, Root, v) = want[v]
    /\ get_page_flags(tables, Root, v) = (IF want[v] = Unmapped THEN {} ELSE want[v].flags)
=============================================================================
