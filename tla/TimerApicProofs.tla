--------------------------- MODULE TimerApicProofs ---------------------------
(***************************************************************************)
(* Proofs about the waits of Timer, for counters of any width, any         *)
(* frequency and calibration, any arguments and any number of resets, and  *)
(* about the register programs of Apic, for any number of pins, any choice *)
(* of operations and any number of them.                                   *)
(***************************************************************************)
EXTENDS Timer, Apic, TLAPS

(* The register programs of the I/O APIC. *)

OpSet == [name : Ops, irq : Irqs, arg : {0, 1}]

\* The low word that an entry with the fields w has.
FieldsWord(w) ==
  Bits(w.vector, 0, 8) \cup Bits(w.mode, 8, 3)
    \cup (IF w.logical THEN {11} ELSE {}) \cup (IF w.active_low THEN {13} ELSE {})
    \cup (IF w.level THEN {15} ELSE {}) \cup (IF w.masked THEN {16} ELSE {})

Fields ==
  [vector : Nat, mode : Nat, logical : BOOLEAN, active_low : BOOLEAN, level : BOOLEAN,
   masked : BOOLEAN, cpu : Nat]

\* The accesses of an operation once the I/O APIC is registered.
AccessesOf(op) ==
  IF op.name \in Entries THEN EntryProgram(op.irq, Entry(op))
  ELSE ChangeProgram(op.irq)
LastAccess(op) == 4

RunOK(r) ==
  \/ r = IdleRun
  \/ \E op \in OpSet, pc \in 1 .. 4, val \in SUBSET Nat :
       pc <= LastAccess(op) /\ r = [op |-> op, pc |-> pc, val |-> val, program |-> AccessesOf(op)]

ApicTypeOK ==
  /\ IOAPIC_COUNT \in {0, 1} /\ select \in Nat /\ torn \in BOOLEAN
  /\ low \in [Pins -> SUBSET Nat] /\ high \in [Pins -> SUBSET Nat]
  /\ want \in [Pins -> Fields]
  /\ run = [a \in Actors |-> run[a]] /\ \A a \in Actors : RunOK(run[a])

\* How far an operation has come, by its next access.
Underway(r) ==
  /\ r.op.name \in Entries =>
       /\ r.pc = 2 => select = Register(r.op.irq)
       /\ r.pc = 4 => select = Register(r.op.irq) + 1
       /\ r.pc >= 3 /\ r.op.irq \in Pins => low[r.op.irq] = Entry(r.op).low
  /\ r.op.name \in Changes =>
       /\ r.pc \in {2, 4} => select = Register(r.op.irq)
       /\ r.pc >= 3 /\ r.op.irq \in Pins => r.val = low[r.op.irq]

\* Half of the new entry has been written.
HalfWritten(p) ==
  \E a \in Actors : /\ Busy(a) /\ run[a].op.name \in Entries
                    /\ run[a].op.irq = p /\ run[a].pc >= 3

Before == 
  /\ \A a \in Actors : ~ Busy(a)
  /\ \A p \in Pins : low[p] \in {{}, {16}} /\ high[p] = {} /\ want[p] = Fresh(0, 0)

Intact ==
  /\ \A a, b \in Actors : Busy(a) /\ Busy(b) => a = b
  /\ \A a \in Actors : Busy(a) => Underway(run[a])
  /\ \A p \in Pins : ~ HalfWritten(p) => low[p] = FieldsWord(want[p])
  /\ \A p \in Pins : high[p] = Bits(want[p].cpu, 24, 8)

ApicInv ==
  /\ ApicTypeOK
  /\ IOAPIC_COUNT = 0 => Before
  /\ IOAPIC_COUNT = 1 /\ ~ torn => Intact

-----------------------------------------------------------------------------
(* Words. *)

LEMMA BitsRange ==
  \A n \in Nat, from \in Nat, width \in Nat : Bits(n, from, width) \subseteq from .. from + width - 1
BY DEF Bits

LEMMA BitsOfZero ==
  ASSUME NEW from \in Nat, NEW width \in 0 .. 8
  PROVE  Bits(0, from, width) = {}
<1>1. \A j \in 0 .. width - 1 : Weight[j + 1] \in Nat \ {0}
  BY DEF Weight
<1>2. \A m \in Nat \ {0} : (0 \div m) % 2 = 0
  OBVIOUS
<1>3. \A j \in 0 .. width - 1 : (0 \div Weight[j + 1]) % 2 = 0
  BY <1>1, <1>2, Zenon
<1> QED
  BY <1>3 DEF Bits

\* What an entry keeps of a word written over an old one.
Kept(word, old) == (word \cap ((0 .. 11) \cup {13, 15, 16})) \cup (old \cap {12, 14})

LEMMA WordBits ==
  ASSUME NEW w \in Fields
  PROVE  /\ Bits(w.vector, 0, 8) \subseteq 0 .. 7 /\ Bits(w.mode, 8, 3) \subseteq 8 .. 10
         /\ FieldsWord(w) \subseteq (0 .. 11) \cup {13, 15, 16}
<1>1. w.vector \in Nat /\ w.mode \in Nat
  BY Zenon DEF Fields
<1>2. Bits(w.vector, 0, 8) \subseteq 0 .. 0 + 8 - 1 /\ Bits(w.mode, 8, 3) \subseteq 8 .. 8 + 3 - 1
  BY <1>1, BitsRange, Zenon
<1> QED
  BY <1>2 DEF FieldsWord

\* The fields asked for by an operation with a flag, for both values of it.
LEMMA AskedFlag ==
  ASSUME NEW op \in OpSet, NEW w
  PROVE  \E flag \in BOOLEAN :
           /\ (op.arg = 1) = flag
           /\ op.name = "set_irq_mask" => Asked(op, w) = [w EXCEPT !.masked = flag]
           /\ op.name = "trigger" => Asked(op, w) = [w EXCEPT !.level = flag]
           /\ op.name = "polarity" => Asked(op, w) = [w EXCEPT !.active_low = flag]
           /\ op.name = "destination" => Asked(op, w) = [w EXCEPT !.logical = flag]
<1>1. (op.arg = 1) \in BOOLEAN
  BY Zenon
<1> WITNESS (op.arg = 1) \in BOOLEAN
<1>2. CASE op.name = "set_irq_mask"
  BY <1>2, Zenon DEF Asked
<1>3. CASE op.name = "trigger"
  BY <1>3, Zenon DEF Asked
<1>4. CASE op.name = "polarity"
  BY <1>4, Zenon DEF Asked
<1>5. CASE op.name = "destination"
  BY <1>5, Zenon DEF Asked
<1> QED
  BY <1>2, <1>3, <1>4, <1>5, Zenon

LEMMA OpNumbers ==
  ASSUME NEW op \in OpSet
  PROVE  /\ op.name \in Ops /\ op.irq \in Nat /\ op.arg \in {0, 1} /\ op.arg \in Nat
         /\ 3 * op.arg \in Nat /\ 32 + op.irq \in Nat
<1>1. op.name \in Ops /\ op.irq \in Irqs /\ op.arg \in {0, 1}
  BY Zenon DEF OpSet
<1>2. op.irq \in Nat /\ op.arg \in Nat
  <2>1. Irqs \subseteq Nat /\ {0, 1} \subseteq Nat
    BY ApicAssumption
  <2> QED
    BY <1>1, <2>1, Zenon
<1>3. 3 * op.arg \in Nat /\ 32 + op.irq \in Nat
  BY <1>2
<1> QED
  BY <1>1, <1>2, <1>3, Zenon

LEMMA AskedType ==
  ASSUME NEW op \in OpSet, NEW w \in Fields
  PROVE  Asked(op, w) \in Fields
<1> PICK flag \in BOOLEAN :
           /\ (op.arg = 1) = flag
           /\ op.name = "set_irq_mask" => Asked(op, w) = [w EXCEPT !.masked = flag]
           /\ op.name = "trigger" => Asked(op, w) = [w EXCEPT !.level = flag]
           /\ op.name = "polarity" => Asked(op, w) = [w EXCEPT !.active_low = flag]
           /\ op.name = "destination" => Asked(op, w) = [w EXCEPT !.logical = flag]
  BY AskedFlag, Zenon
<1>1. CASE op.name \in {"set_irq_mask", "trigger", "polarity", "destination"}
  BY <1>1, Zenon DEF Fields
<1>2. op.arg \in Nat /\ op.irq \in Nat /\ 3 * op.arg \in Nat /\ 32 + op.irq \in Nat
  BY ApicAssumption DEF OpSet
<1>3. CASE op.name \in Entries
  <2>1. \A v, c \in Nat : Fresh(v, c) \in Fields
    BY Zenon DEF Fresh, Fields
  <2>2. Asked(op, w) = Fresh(op.arg, Self) \/ Asked(op, w) = Fresh(32 + op.irq, op.arg)
    BY <1>3, Zenon DEF Asked, Entries
  <2> QED
    BY ApicAssumption, <1>2, <2>1, <2>2
<1>4. CASE op.name \in {"mask_irq", "unmask_irq"}
  BY <1>4, Zenon DEF Asked, Fields
<1>5. CASE op.name = "delivery"
  BY <1>2, <1>5, Zenon DEF Asked, Fields
<1>6. CASE op.name \in {"remote_irr", "shorthand"}
  BY <1>6, Zenon DEF Asked
<1> QED
  BY ApicAssumption, <1>1, <1>3, <1>4, <1>5, <1>6, Zenon DEF OpSet, Changes

LEMMA EntryWord ==
  ASSUME NEW op \in OpSet, op.name \in Entries, NEW w \in Fields
  PROVE  /\ Kept(Entry(op).low, FieldsWord(w)) = Entry(op).low
         /\ Entry(op).low = FieldsWord(Asked(op, w))
         /\ Entry(op).high \cap 24 .. 31 = Bits(Asked(op, w).cpu, 24, 8)
<1>0. op.arg \in Nat /\ op.irq \in Nat /\ 32 + op.irq \in Nat
  BY OpNumbers, Zenon
<1> DEFINE v == IF op.name = "setup_irq" THEN op.arg ELSE 32 + op.irq
           c == IF op.name = "setup_irq" THEN Self ELSE op.arg
<1>1. v \in Nat /\ c \in Nat
  BY ApicAssumption, <1>0
<1>2. Entry(op) = [low |-> Bits(v, 0, 8), high |-> Bits(c, 24, 8)]
  BY Zenon DEF Entry, setup_irq, route_irq_to_cpu
<1>3. Asked(op, w) = Fresh(v, c)
  BY Zenon DEF Asked, Entries
<1> HIDE DEF v, c
<1>4. Bits(v, 0, 8) \subseteq 0 .. 0 + 8 - 1 /\ Bits(c, 24, 8) \subseteq 24 .. 24 + 8 - 1
  BY <1>1, BitsRange, Zenon
<1>5. FieldsWord(Fresh(v, c)) = Bits(v, 0, 8)
  BY BitsOfZero DEF FieldsWord, Fresh
<1>6. FieldsWord(w) \cap {12, 14} = {}
  BY WordBits
<1> QED
  BY <1>2, <1>3, <1>4, <1>5, <1>6 DEF Kept, Fresh

LEMMA ChangedWord ==
  ASSUME NEW op \in OpSet, op.name \in Changes, NEW w \in Fields
  PROVE  /\ Kept(Changed(op, FieldsWord(w)), FieldsWord(w)) = FieldsWord(Asked(op, w))
         /\ Asked(op, w).cpu = w.cpu
<1>1. Bits(w.vector, 0, 8) \subseteq 0 .. 7 /\ Bits(w.mode, 8, 3) \subseteq 8 .. 10
  BY WordBits, Zenon
<1>2. 3 * op.arg \in Nat /\ Bits(3 * op.arg, 8, 3) \subseteq 8 .. 10
  BY BitsRange DEF OpSet
<1>3. op.arg \in {0, 1} /\ Bits(op.arg, 18, 2) \subseteq 18 .. 19
  BY BitsRange DEF OpSet
<1>4. Asked(op, w).cpu = w.cpu
  BY Zenon DEF Asked, Changes, Fields
<1> USE DEF Fields, FieldsWord, Kept, Changed, Asked, Changes, SetBit
<1>a. CASE op.name = "mask_irq"
  BY <1>a, <1>1, <1>4 DEF mask_irq
<1>b. CASE op.name = "unmask_irq"
  BY <1>b, <1>1, <1>4 DEF unmask_irq
<1>c. CASE op.name = "set_irq_mask"
  <2> PICK flag \in BOOLEAN : (op.arg = 1) = flag /\ Asked(op, w) = [w EXCEPT !.masked = flag]
    BY <1>c, AskedFlag, Zenon
  <2> QED
    BY <1>c, <1>1, <1>4, SMTT(40) DEF set_irq_mask
<1>d. CASE op.name = "trigger"
  <2> PICK flag \in BOOLEAN : (op.arg = 1) = flag /\ Asked(op, w) = [w EXCEPT !.level = flag]
    BY <1>d, AskedFlag, Zenon
  <2> QED
    BY <1>d, <1>1, <1>4, SMTT(40) DEF configure_irq_trigger_mode
<1>e. CASE op.name = "remote_irr"
  BY <1>e, <1>1, <1>4 DEF set_irq_remote_irr
<1>f. CASE op.name = "polarity"
  <2> PICK flag \in BOOLEAN : (op.arg = 1) = flag /\ Asked(op, w) = [w EXCEPT !.active_low = flag]
    BY <1>f, AskedFlag, Zenon
  <2> QED
    BY <1>f, <1>1, <1>4, SMTT(40) DEF configure_irq_polarity
<1>g. CASE op.name = "destination"
  <2> PICK flag \in BOOLEAN : (op.arg = 1) = flag /\ Asked(op, w) = [w EXCEPT !.logical = flag]
    BY <1>g, AskedFlag, Zenon
  <2> QED
    BY <1>g, <1>1, <1>4, SMTT(40) DEF configure_irq_destination_mode
<1>h. CASE op.name = "delivery"
  BY <1>h, <1>1, <1>2, <1>4 DEF configure_irq_delivery_mode
<1>i. CASE op.name = "shorthand"
  BY <1>i, <1>1, <1>3, <1>4 DEF set_irq_destination_shorthand
<1> QED
  BY <1>a, <1>b, <1>c, <1>d, <1>e, <1>f, <1>g, <1>h, <1>i, Zenon

-----------------------------------------------------------------------------
(* Accesses. *)

\* With the I/O APIC registered no operation is refused.
LEMMA ProgramIs ==
  ASSUME NEW op \in OpSet, IOAPIC_COUNT = 1
  PROVE  Program(op) = AccessesOf(op)
<1>1. find_ioapic_by_gsi(op.irq) = 1
  <2> DEFINE found == {i \in 1 .. IOAPIC_COUNT : /\ op.irq >= IOAPIC_INFO[i].gsi_base
                            /\ op.irq <= IOAPIC_INFO[i].gsi_base + IOAPIC_INFO[i].max_redir}
  <2>1. \A i \in found : i = 1
    OBVIOUS
  <2>2. find_ioapic_by_gsi(op.irq)
          = IF found = {} THEN 1 ELSE CHOOSE i \in found : \A j \in found : i <= j
    BY Zenon DEF find_ioapic_by_gsi
  <2> HIDE DEF found
  <2>3. CASE found = {}
    BY <2>2, <2>3, Zenon
  <2>4. CASE found # {}
    <3>1. \E i \in found : \A j \in found : i <= j
      BY <2>1, <2>4
    <3>2. (CHOOSE i \in found : \A j \in found : i <= j) \in found
      BY <3>1, Zenon
    <3> QED
      BY <2>1, <2>2, <2>4, <3>2, Zenon
  <2> QED
    BY <2>3, <2>4, Zenon
<1> QED
  BY <1>1 DEF Program, AccessesOf

\* The accesses of each kind of operation.
LEMMA EntryAccesses ==
  ASSUME NEW op \in OpSet, op.name \in Entries
  PROVE  /\ AccessesOf(op)[1] = Access("select", Register(op.irq), {})
         /\ AccessesOf(op)[2] = Access("write", 0, Entry(op).low)
         /\ AccessesOf(op)[3] = Access("select", Register(op.irq) + 1, {})
         /\ AccessesOf(op)[4] = Access("write", 0, Entry(op).high)
         /\ Len(AccessesOf(op)) = 4 /\ LastAccess(op) = 4 /\ AccessesOf(op) # <<>>
BY Zenon DEF AccessesOf, EntryProgram, LastAccess, Entries

LEMMA ChangeAccesses ==
  ASSUME NEW op \in OpSet, op.name \in Changes
  PROVE  /\ AccessesOf(op)[1] = Access("select", Register(op.irq), {})
         /\ AccessesOf(op)[2] = Access("read", 0, {})
         /\ AccessesOf(op)[3] = Access("select", Register(op.irq), {})
         /\ AccessesOf(op)[4] = Access("change", 0, {})
         /\ Len(AccessesOf(op)) = 4 /\ LastAccess(op) = 4 /\ AccessesOf(op) # <<>>
BY Zenon DEF AccessesOf, ChangeProgram, LastAccess, Entries, Changes

LEMMA OpKinds ==
  ASSUME NEW op \in OpSet
  PROVE  /\ op.name \in Entries \/ op.name \in Changes
         /\ ~(op.name \in Entries /\ op.name \in Changes)
         /\ op # Nothing
<1>1. op.name \in Ops
  BY OpNumbers, Zenon
<1>2. op.name \in Entries \cup Changes
  BY ApicAssumption, <1>1, Zenon
<1>3. op.name # "none"
  BY <1>2, Zenon DEF Entries, Changes
<1>4. op # Nothing
  BY <1>3 DEF Nothing
<1> QED
  BY <1>2, <1>4, Zenon DEF Entries, Changes

\* The register that an operation selects is the one of its entry.
LEMMA SelectedPin ==
  ASSUME NEW irq \in Nat
  PROVE  /\ select = Register(irq) => /\ IsLow <=> irq \in Pins
                                      /\ ~ IsHigh /\ Pin = irq
         /\ select = Register(irq) + 1 => /\ IsHigh <=> irq \in Pins
                                          /\ ~ IsLow /\ Pin = irq
BY DEF Register, IsLow, IsHigh, Pin, Pins

LEMMA AccessFields ==
  \A do, reg, val : /\ Access(do, reg, val).do = do /\ Access(do, reg, val).reg = reg
                    /\ Access(do, reg, val).val = val
BY Zenon DEF Access

\* Each access, by what it does.
LEMMA AccessKinds ==
  ASSUME NEW op \in OpSet, NEW pc \in 1 .. 4, pc <= LastAccess(op), NEW n, n = AccessesOf(op)[pc]
  PROVE  /\ n.do = "select" => /\ pc = 1 \/ pc = 3
                               /\ pc # LastAccess(op)
                               /\ n.reg = Register(op.irq)
                                    + (IF pc = 3 /\ op.name \in Entries THEN 1 ELSE 0)
         /\ n.do = "read" => op.name \in Changes /\ pc = 2 /\ pc # LastAccess(op)
         /\ n.do = "write" => /\ op.name \in Entries
                              /\ \/ pc = 2 /\ pc # LastAccess(op) /\ n.val = Entry(op).low
                                 \/ pc = 4 /\ pc = LastAccess(op) /\ n.val = Entry(op).high
         /\ n.do = "change" => op.name \in Changes /\ pc = 4 /\ pc = LastAccess(op)
<1>1. pc = 1 \/ pc = 2 \/ pc = 3 \/ pc = 4
  OBVIOUS
<1>2. Register(op.irq) \in Nat
  BY OpNumbers, SMTT(40) DEF Register
<1>3. CASE op.name \in Entries
  <2>1. op.name \notin Changes /\ LastAccess(op) = 4
    BY <1>3, OpKinds, EntryAccesses, Zenon
  <2>2. CASE pc = 1
    <3>1. n = Access("select", Register(op.irq), {})
      BY <1>3, <2>2, EntryAccesses, Zenon
    <3>2. n.do = "select" /\ n.reg = Register(op.irq) /\ n.val = {}
      BY <3>1, AccessFields
    <3> QED
      BY <1>2, <1>3, <2>1, <2>2, <3>2
  <2>3. CASE pc = 2
    <3>1. n = Access("write", 0, Entry(op).low)
      BY <1>3, <2>3, EntryAccesses, Zenon
    <3>2. n.do = "write" /\ n.reg = 0 /\ n.val = Entry(op).low
      BY <3>1, AccessFields
    <3> QED
      BY <1>2, <1>3, <2>1, <2>3, <3>2
  <2>4. CASE pc = 3
    <3>1. n = Access("select", Register(op.irq) + 1, {})
      BY <1>3, <2>4, EntryAccesses, Zenon
    <3>2. n.do = "select" /\ n.reg = Register(op.irq) + 1 /\ n.val = {}
      BY <3>1, AccessFields
    <3> QED
      BY <1>2, <1>3, <2>1, <2>4, <3>2
  <2>5. CASE pc = 4
    <3>1. n = Access("write", 0, Entry(op).high)
      BY <1>3, <2>5, EntryAccesses, Zenon
    <3>2. n.do = "write" /\ n.reg = 0 /\ n.val = Entry(op).high
      BY <3>1, AccessFields, SMTT(40)
    <3> QED
      BY <1>2, <1>3, <2>1, <2>5, <3>2, Zenon
  <2> QED
    BY <1>1, <2>1, <2>2, <2>3, <2>4, <2>5, Zenon
<1>4. CASE op.name \in Changes
  <2>1. op.name \notin Entries /\ LastAccess(op) = 4
    BY <1>4, OpKinds, ChangeAccesses, Zenon
  <2>2. CASE pc = 1
    <3>1. n = Access("select", Register(op.irq), {})
      BY <1>4, <2>2, ChangeAccesses, Zenon
    <3>2. n.do = "select" /\ n.reg = Register(op.irq) /\ n.val = {}
      BY <3>1, AccessFields
    <3> QED
      BY <1>2, <1>4, <2>1, <2>2, <3>2
  <2>3. CASE pc = 2
    <3>1. n = Access("read", 0, {})
      BY <1>4, <2>3, ChangeAccesses, Zenon
    <3>2. n.do = "read" /\ n.reg = 0 /\ n.val = {}
      BY <3>1, AccessFields
    <3> QED
      BY <1>2, <1>4, <2>1, <2>3, <3>2
  <2>4. CASE pc = 3
    <3>1. n = Access("select", Register(op.irq), {})
      BY <1>4, <2>4, ChangeAccesses, Zenon
    <3>2. n.do = "select" /\ n.reg = Register(op.irq) /\ n.val = {}
      BY <3>1, AccessFields
    <3> QED
      BY <1>2, <1>4, <2>1, <2>4, <3>2
  <2>5. CASE pc = 4
    <3>1. n = Access("change", 0, {})
      BY <1>4, <2>5, ChangeAccesses, Zenon
    <3>2. n.do = "change" /\ n.reg = 0 /\ n.val = {}
      BY <3>1, AccessFields, SMTT(40)
    <3> QED
      BY <1>2, <1>4, <2>1, <2>5, <3>2, Zenon
  <2> QED
    BY <1>1, <2>1, <2>2, <2>3, <2>4, <2>5, Zenon
<1> QED
  BY <1>3, <1>4, OpKinds, Zenon

\* An actor with operation op makes its access number pc, and then has read v.
Advances(a, v, op, pc, val) ==
  /\ pc <= LastAccess(op)
  /\ run[a] = [op |-> op, pc |-> pc, val |-> val, program |-> AccessesOf(op)]
  /\ Now(a) = AccessesOf(op)[pc]
  /\ run' = [run EXCEPT ![a] = IF pc = LastAccess(op) THEN IdleRun ELSE
               [op |-> op, pc |-> pc + 1, val |-> v, program |-> AccessesOf(op)]]
  /\ want' = IF pc = LastAccess(op) /\ op.irq \in Pins
             THEN [want EXCEPT ![op.irq] = Asked(op, @)] ELSE want

\* An operation under way makes its next access.
LEMMA AdvanceStep ==
  ASSUME ApicTypeOK, NEW a \in Actors, NEW v, Advance(a, v)
  PROVE  \E op \in OpSet, pc \in 1 .. 4, val \in SUBSET Nat : Advances(a, v, op, pc, val)
<1>1. run[a] # IdleRun
  BY DEF Advance, Busy, IdleRun
<1>2. PICK op \in OpSet, pc \in 1 .. 4, val \in SUBSET Nat :
        pc <= LastAccess(op) /\ run[a] = [op |-> op, pc |-> pc, val |-> val, program |-> AccessesOf(op)]
  BY <1>1, Zenon DEF ApicTypeOK, RunOK
<1>3. Len(AccessesOf(op)) = LastAccess(op)
  BY OpKinds, EntryAccesses, ChangeAccesses, ZenonT(40)
<1> DEFINE r == run[a]
<1>4. r.op = op /\ r.pc = pc /\ r.val = val /\ r.program = AccessesOf(op)
  BY <1>2
<1>5. run' = [run EXCEPT ![a] = IF r.pc = Len(r.program) THEN IdleRun
                 ELSE [op |-> r.op, pc |-> r.pc + 1, val |-> v, program |-> r.program]]
  BY Zenon DEF Advance
<1>6. want' = IF r.pc = Len(r.program) /\ r.op.irq \in Pins
              THEN [want EXCEPT ![r.op.irq] = Asked(r.op, @)] ELSE want
  BY Zenon DEF Advance
<1>7. Now(a) = r.program[r.pc]
  BY Zenon DEF Now
<1> HIDE DEF r
<1>8. run' = [run EXCEPT ![a] = IF pc = LastAccess(op) THEN IdleRun ELSE
                [op |-> op, pc |-> pc + 1, val |-> v, program |-> AccessesOf(op)]]
  BY <1>3, <1>4, <1>5, Zenon
<1>9. want' = IF pc = LastAccess(op) /\ op.irq \in Pins
               THEN [want EXCEPT ![op.irq] = Asked(op, @)] ELSE want
  BY <1>3, <1>4, <1>6, Zenon
<1> QED
  BY <1>2, <1>4, <1>7, <1>8, <1>9, Zenon DEF Advances

-----------------------------------------------------------------------------
(* Steps. *)

LEMMA NextRunOK ==
  ASSUME NEW op \in OpSet, NEW pc \in 1 .. 4, NEW v \in SUBSET Nat, pc <= LastAccess(op)
  PROVE  RunOK(IF pc = LastAccess(op) THEN IdleRun ELSE
                 [op |-> op, pc |-> pc + 1, val |-> v, program |-> AccessesOf(op)])
<1>1. CASE pc = LastAccess(op)
  BY <1>1, Zenon DEF RunOK
<1>2. CASE pc # LastAccess(op)
  <2>1. LastAccess(op) = 4
    BY Zenon DEF LastAccess
  <2>2. pc + 1 \in 1 .. 4 /\ pc + 1 <= LastAccess(op)
    BY <1>2, <2>1
  <2> QED
    BY <1>2, <2>2, Zenon DEF RunOK
<1> QED
  BY <1>1, <1>2, Zenon

\* An access keeps the types, whatever the handler does.
LEMMA AdvanceType ==
  ASSUME ApicTypeOK, NEW a \in Actors, NEW v \in SUBSET Nat, Advance(a, v),
         low' \in [Pins -> SUBSET Nat], high' \in [Pins -> SUBSET Nat], select' \in Nat
  PROVE  ApicTypeOK'
<1>1. PICK op \in OpSet, pc \in 1 .. 4, val \in SUBSET Nat : Advances(a, v, op, pc, val)
  BY AdvanceStep, Zenon
<1>2. PICK r : /\ RunOK(r) /\ run' = [run EXCEPT ![a] = r]
  BY <1>1, NextRunOK, Zenon DEF Advances
<1>3. run' = [b \in Actors |-> run'[b]] /\ \A b \in Actors : RunOK(run'[b])
  BY <1>2, Zenon DEF ApicTypeOK
<1>4. want' \in [Pins -> Fields]
  <2>1. \A p \in Pins : Asked(op, want[p]) \in Fields
    BY AskedType, Zenon DEF ApicTypeOK
  <2> QED
    BY <1>1, <2>1, Zenon DEF ApicTypeOK, Advances
<1>5. IOAPIC_COUNT' \in {0, 1} /\ torn' \in BOOLEAN
  BY Zenon DEF Advance, ApicTypeOK
<1> QED
  BY <1>3, <1>4, <1>5, Zenon DEF ApicTypeOK, RunOK

\* The entries are intact after a step of a, while nobody else works, if a has
\* come as far as its next access says and no entry is wrong but the one it has
\* half written.
LEMMA AloneIntact ==
  ASSUME NEW a \in Actors, NEW r,
         \A b \in Actors : b # a => ~ Busy(b),
         run' = [b \in Actors |-> IF b = a THEN r ELSE run[b]],
         r.op # Nothing => Underway(r)',
         \A p \in Pins :
           \/ r.op # Nothing /\ r.op.name \in Entries /\ r.op.irq = p /\ r.pc >= 3
           \/ low'[p] = FieldsWord(want'[p]),
         \A p \in Pins : high'[p] = Bits(want'[p].cpu, 24, 8)
  PROVE  Intact'
<1>1. run'[a] = r /\ \A b \in Actors : b # a => run'[b] = run[b]
  BY Zenon
<1>2. \A b \in Actors : b # a => ~ Busy(b)'
  BY <1>1, Zenon DEF Busy
<1>3. Busy(a)' => Underway(run[a])'
  BY <1>1, Zenon DEF Busy, Underway
<1>4. \A p \in Pins : ~ HalfWritten(p)' => low'[p] = FieldsWord(want'[p])
  BY <1>1, Zenon DEF HalfWritten, Busy
<1> QED
  BY <1>2, <1>3, <1>4, Zenon DEF Intact

\* Before an access of an operation, with no handler at work in between: who
\* makes it is alone, and how far it has come.
LEMMA StepAlone ==
  ASSUME ApicInv, ~ torn, NEW a \in Actors, NEW v, Advance(a, v)
  PROVE  /\ Intact /\ \A b \in Actors : b # a => ~ Busy(b)
         /\ Underway(run[a]) /\ Busy(a)
BY Zenon DEF ApicInv, Advance, CanRun, Intact

\* No entry is wrong but the one that is half written.
LEMMA EntriesRight ==
  ASSUME Intact, NEW a \in Actors, \A b \in Actors : b # a => ~ Busy(b), Busy(a),
         NEW p \in Pins
  PROVE  /\ \/ run[a].op.name \in Entries /\ run[a].op.irq = p /\ run[a].pc >= 3
            \/ low[p] = FieldsWord(want[p])
         /\ high[p] = Bits(want[p].cpu, 24, 8)
BY Zenon DEF Intact, HalfWritten

LEMMA SelectIntact ==
  ASSUME ApicInv, ~ torn, NEW a \in Actors, Select(a)
  PROVE  Intact'
<1>1. PICK v : v = run[a].val
  BY Zenon
<1>2. Advance(a, v)
  BY <1>1, Zenon DEF Select
<1>3. Intact /\ (\A b \in Actors : b # a => ~ Busy(b)) /\ Underway(run[a]) /\ Busy(a)
  BY <1>2, StepAlone, Zenon
<1>4. PICK op \in OpSet, pc \in 1 .. 4, val \in SUBSET Nat : Advances(a, v, op, pc, val)
  BY <1>2, AdvanceStep, Zenon DEF ApicInv
<1>5. Now(a).do = "select" /\ select' = Now(a).reg /\ low' = low /\ high' = high
  BY Zenon DEF Select
<1>6. /\ op.name \in Entries \/ op.name \in Changes
      /\ pc = 1 \/ pc = 3
      /\ pc # LastAccess(op)
      /\ select' = Register(op.irq) + (IF pc = 3 /\ op.name \in Entries THEN 1 ELSE 0)
  <2>1. PICK n : n = AccessesOf(op)[pc] /\ n.do = "select" /\ select' = n.reg
    BY <1>4, <1>5, Zenon DEF Advances
  <2> QED
    BY <2>1, <1>4, AccessKinds, OpKinds DEF Advances
<1>7. want' = want
  BY <1>4, <1>6, Zenon DEF Advances
<1> DEFINE r == [op |-> op, pc |-> pc + 1, val |-> v, program |-> AccessesOf(op)]
<1>8. run' = [b \in Actors |-> IF b = a THEN r ELSE run[b]]
  BY <1>4, <1>6, Zenon DEF ApicInv, ApicTypeOK, Advances
<1>9. r.op = op /\ r.pc = pc + 1 /\ r.val = val
  BY <1>1, <1>4 DEF Advances
<1>10. run[a].op = op /\ run[a].pc = pc /\ run[a].val = val
  BY <1>4 DEF Advances
<1> HIDE DEF r
<1>11. Underway(r)'
  <2>1. CASE op.name \in Entries
    BY <2>1, <1>3, <1>5, <1>6, <1>9, <1>10, OpKinds, OpNumbers, SMTT(40) DEF Underway, Register
  <2>2. CASE op.name \in Changes
    BY <2>2, <1>3, <1>5, <1>6, <1>9, <1>10, OpKinds, OpNumbers DEF Underway, Register
  <2> QED
    BY <1>6, <2>1, <2>2, Zenon
<1>12. r.op # Nothing
  BY <1>9, OpKinds, Zenon
<1>13. \A p \in Pins :
         /\ \/ r.op # Nothing /\ r.op.name \in Entries /\ r.op.irq = p /\ r.pc >= 3
            \/ low'[p] = FieldsWord(want'[p])
         /\ high'[p] = Bits(want'[p].cpu, 24, 8)
  BY <1>3, <1>5, <1>7, <1>9, <1>10, <1>12, EntriesRight
<1> QED
  BY <1>3, <1>8, <1>11, <1>13, AloneIntact, Zenon


LEMMA ReadIntact ==
  ASSUME ApicInv, ~ torn, NEW a \in Actors, Read(a)
  PROVE  Intact'
<1>1. PICK v : v = IF IsLow THEN low[Pin] ELSE IF IsHigh THEN high[Pin] ELSE {}
  BY Zenon
<1>2. Advance(a, v)
  BY <1>1, ZenonT(40) DEF Read
<1>3. Intact /\ (\A b \in Actors : b # a => ~ Busy(b)) /\ Underway(run[a]) /\ Busy(a)
  BY <1>2, StepAlone, Zenon
<1>4. PICK op \in OpSet, pc \in 1 .. 4, val \in SUBSET Nat : Advances(a, v, op, pc, val)
  BY <1>2, AdvanceStep, Zenon DEF ApicInv
<1>5. Now(a).do = "read" /\ select' = select /\ low' = low /\ high' = high
  BY Zenon DEF Read
<1>6. op.name \in Changes /\ pc = 2 /\ pc # LastAccess(op)
  <2>1. PICK n : n = AccessesOf(op)[pc] /\ n.do = "read"
    BY <1>4, <1>5, Zenon DEF Advances
  <2> QED
    BY <2>1, <1>4, AccessKinds DEF Advances
<1>7. want' = want
  BY <1>4, <1>6, Zenon DEF Advances
<1> DEFINE r == [op |-> op, pc |-> pc + 1, val |-> v, program |-> AccessesOf(op)]
<1>8. run' = [b \in Actors |-> IF b = a THEN r ELSE run[b]]
  BY <1>4, <1>6, Zenon DEF ApicInv, ApicTypeOK, Advances
<1>9. r.op = op /\ r.pc = 3 /\ r.val = v
  BY <1>6, SMTT(40)
<1>10. run[a].op = op /\ run[a].pc = 2
  BY <1>4, <1>6, SMTT(40) DEF Advances
<1> HIDE DEF r
<1>11. select = Register(op.irq)
  BY <1>3, <1>6, <1>10, Zenon DEF Underway
<1>12. op.irq \in Pins => v = low[op.irq]
  BY <1>1, <1>11, SelectedPin, OpNumbers, Zenon
<1>13. op.name \notin Entries
  BY <1>6, OpKinds, Zenon
<1>14. Underway(r)'
  BY <1>5, <1>9, <1>12, <1>13, SMTT(40) DEF Underway
<1>15. \A p \in Pins :
         /\ \/ r.op # Nothing /\ r.op.name \in Entries /\ r.op.irq = p /\ r.pc >= 3
            \/ low'[p] = FieldsWord(want'[p])
         /\ high'[p] = Bits(want'[p].cpu, 24, 8)
  BY <1>3, <1>5, <1>7, <1>10, <1>13, EntriesRight, Zenon
<1> QED
  BY <1>3, <1>8, <1>14, <1>15, AloneIntact, Zenon

\* What a word written to the selected register leaves in the entries.
LEMMA StoredLow ==
  ASSUME ApicTypeOK, NEW irq \in Nat, select = Register(irq), NEW word, Store(word)
  PROVE  /\ high' = high
         /\ \A p \in Pins : low'[p] = IF p = irq THEN Kept(word, low[p]) ELSE low[p]
<1>1. (IsLow <=> irq \in Pins) /\ ~ IsHigh /\ Pin = irq
  BY SelectedPin, Zenon
<1> QED
  BY <1>1, ZenonT(40) DEF Store, ApicTypeOK, Kept

LEMMA StoredHigh ==
  ASSUME ApicTypeOK, NEW irq \in Nat, select = Register(irq) + 1, NEW word, Store(word)
  PROVE  /\ low' = low
         /\ \A p \in Pins : high'[p] = IF p = irq THEN word \cap 24 .. 31 ELSE high[p]
<1>1. (IsHigh <=> irq \in Pins) /\ ~ IsLow /\ Pin = irq
  BY SelectedPin, Zenon
<1> QED
  BY <1>1, Zenon DEF Store, ApicTypeOK

\* The entries after a write of each kind: the low and the high half of a new
\* entry, and the changed low half.
LEMMA WriteLow ==
  ASSUME ApicInv, ~ torn, NEW a \in Actors, NEW op \in OpSet, NEW v, NEW val,
         Advances(a, v, op, 2, val), op.name \in Entries, Store(Entry(op).low),
         Intact, \A b \in Actors : b # a => ~ Busy(b), Underway(run[a]), Busy(a),
         2 # LastAccess(op)
  PROVE  Intact'
<1>1. run[a].op = op /\ run[a].pc = 2
  BY DEF Advances
<1>2. select = Register(op.irq)
  BY <1>1, Zenon DEF Underway
<1>3. /\ high' = high
      /\ \A p \in Pins : low'[p] = IF p = op.irq THEN Kept(Entry(op).low, low[p]) ELSE low[p]
  BY <1>2, OpNumbers, StoredLow, SMTT(40), ZenonT(40) DEF ApicInv
<1>4. \A p \in Pins : low[p] = FieldsWord(want[p]) /\ high[p] = Bits(want[p].cpu, 24, 8)
  BY <1>1, EntriesRight
<1>5. \A p \in Pins : want[p] \in Fields
  BY Zenon DEF ApicInv, ApicTypeOK
<1>6. op.irq \in Pins => low'[op.irq] = Entry(op).low
  BY <1>3, <1>4, <1>5, EntryWord, ZenonT(40)
<1>7. want' = want
  BY Zenon DEF Advances
<1> DEFINE r == [op |-> op, pc |-> 3, val |-> v, program |-> AccessesOf(op)]
<1>8. run' = [b \in Actors |-> IF b = a THEN r ELSE run[b]]
  BY DEF ApicInv, ApicTypeOK, Advances
<1>9. r.op = op /\ r.pc = 3
  BY Zenon
<1> HIDE DEF r
<1>10. op.name \notin Changes /\ r.op # Nothing
  BY <1>9, OpKinds, Zenon
<1>11. Underway(r)'
  BY <1>6, <1>9, <1>10, SMTT(40), ZenonT(40) DEF Underway, Entry, setup_irq, route_irq_to_cpu
<1>12. \A p \in Pins :
         /\ \/ r.op # Nothing /\ r.op.name \in Entries /\ r.op.irq = p /\ r.pc >= 3
            \/ low'[p] = FieldsWord(want'[p])
         /\ high'[p] = Bits(want'[p].cpu, 24, 8)
  BY <1>3, <1>4, <1>7, <1>9, <1>10
<1> QED
  BY <1>8, <1>11, <1>12, AloneIntact, Zenon

LEMMA LastWrite ==
  ASSUME ApicInv, NEW a \in Actors, NEW op \in OpSet, NEW v, NEW val,
         Advances(a, v, op, 4, val), 4 = LastAccess(op),
         \A b \in Actors : b # a => ~ Busy(b),
         \A p \in Pins : p # op.irq => low'[p] = FieldsWord(want[p]) /\ high'[p] = Bits(want[p].cpu, 24, 8),
         op.irq \in Pins => /\ low'[op.irq] = FieldsWord(Asked(op, want[op.irq]))
                            /\ high'[op.irq] = Bits(Asked(op, want[op.irq]).cpu, 24, 8)
  PROVE  Intact'
<1>1. run' = [b \in Actors |-> IF b = a THEN IdleRun ELSE run[b]]
  BY Zenon DEF ApicInv, ApicTypeOK, Advances
<1>2. \A p \in Pins : want'[p] = IF p = op.irq THEN Asked(op, want[p]) ELSE want[p]
  BY Zenon DEF ApicInv, ApicTypeOK, Advances
<1>3. \A p \in Pins : low'[p] = FieldsWord(want'[p]) /\ high'[p] = Bits(want'[p].cpu, 24, 8)
  BY <1>2, ZenonT(40)
<1>4. IdleRun.op = Nothing
  BY Zenon DEF IdleRun
<1> QED
  BY <1>1, <1>3, <1>4, AloneIntact, ZenonT(40)

LEMMA WriteHigh ==
  ASSUME ApicInv, ~ torn, NEW a \in Actors, NEW op \in OpSet, NEW v, NEW val,
         Advances(a, v, op, 4, val), op.name \in Entries, Store(Entry(op).high),
         Intact, \A b \in Actors : b # a => ~ Busy(b), Underway(run[a]), Busy(a),
         4 = LastAccess(op)
  PROVE  Intact'
<1>1. run[a].op = op /\ run[a].pc = 4
  BY SMTT(40) DEF Advances
<1>2. /\ select = Register(op.irq) + 1
      /\ op.irq \in Pins => low[op.irq] = Entry(op).low
  BY <1>1 DEF Underway
<1>3. /\ low' = low
      /\ \A p \in Pins : high'[p] = IF p = op.irq THEN Entry(op).high \cap 24 .. 31 ELSE high[p]
  <2>1. op.irq \in Nat /\ ApicTypeOK
    BY OpNumbers, Zenon DEF ApicInv
  <2> QED
    BY <1>2, <2>1, StoredHigh, ZenonT(40)
<1>4. \A p \in Pins : p # op.irq => low[p] = FieldsWord(want[p]) /\ high[p] = Bits(want[p].cpu, 24, 8)
  BY <1>1, EntriesRight, Zenon
<1>5. \A p \in Pins : want[p] \in Fields
  BY Zenon DEF ApicInv, ApicTypeOK
<1>6. op.irq \in Pins => /\ low'[op.irq] = FieldsWord(Asked(op, want[op.irq]))
                         /\ high'[op.irq] = Bits(Asked(op, want[op.irq]).cpu, 24, 8)
  <2> SUFFICES ASSUME op.irq \in Pins
               PROVE  /\ low'[op.irq] = FieldsWord(Asked(op, want[op.irq]))
                      /\ high'[op.irq] = Bits(Asked(op, want[op.irq]).cpu, 24, 8)
    BY Zenon
  <2>1. /\ Entry(op).low = FieldsWord(Asked(op, want[op.irq]))
        /\ Entry(op).high \cap 24 .. 31 = Bits(Asked(op, want[op.irq]).cpu, 24, 8)
    BY <1>5, EntryWord, Zenon
  <2>2. low'[op.irq] = Entry(op).low /\ high'[op.irq] = Entry(op).high \cap 24 .. 31
    BY <1>2, <1>3, ZenonT(40)
  <2> QED
    BY <2>1, <2>2, ZenonT(40)
<1>7. \A p \in Pins : p # op.irq => low'[p] = FieldsWord(want[p]) /\ high'[p] = Bits(want[p].cpu, 24, 8)
  BY <1>3, <1>4, Zenon
<1> QED
  BY <1>6, <1>7, LastWrite, ZenonT(40)

LEMMA WriteChange ==
  ASSUME ApicInv, ~ torn, NEW a \in Actors, NEW op \in OpSet, NEW v, NEW val,
         Advances(a, v, op, 4, val), op.name \in Changes, Store(Changed(op, val)),
         Intact, \A b \in Actors : b # a => ~ Busy(b), Underway(run[a]), Busy(a),
         4 = LastAccess(op)
  PROVE  Intact'
<1>1. run[a].op = op /\ run[a].pc = 4 /\ run[a].val = val
  BY DEF Advances
<1>2. op.name \notin Entries
  BY OpKinds, Zenon
<1>3. select = Register(op.irq) /\ (op.irq \in Pins => val = low[op.irq])
  BY <1>1, SMTT(40) DEF Underway
<1>4. /\ high' = high
      /\ \A p \in Pins : low'[p] = IF p = op.irq THEN Kept(Changed(op, val), low[p]) ELSE low[p]
  BY <1>3, OpNumbers, StoredLow, Zenon DEF ApicInv
<1>5. \A p \in Pins : low[p] = FieldsWord(want[p]) /\ high[p] = Bits(want[p].cpu, 24, 8)
  BY <1>1, <1>2, EntriesRight, Zenon
<1>6. \A p \in Pins : want[p] \in Fields
  BY Zenon DEF ApicInv, ApicTypeOK
<1>7. op.irq \in Pins => /\ low'[op.irq] = FieldsWord(Asked(op, want[op.irq]))
                         /\ high'[op.irq] = Bits(Asked(op, want[op.irq]).cpu, 24, 8)
  <2> SUFFICES ASSUME op.irq \in Pins
               PROVE  /\ low'[op.irq] = FieldsWord(Asked(op, want[op.irq]))
                      /\ high'[op.irq] = Bits(Asked(op, want[op.irq]).cpu, 24, 8)
    BY Zenon
  <2>1. low'[op.irq] = Kept(Changed(op, FieldsWord(want[op.irq])), FieldsWord(want[op.irq]))
    BY <1>3, <1>4, <1>5, ZenonT(40)
  <2>2. /\ Kept(Changed(op, FieldsWord(want[op.irq])), FieldsWord(want[op.irq])) = FieldsWord(Asked(op, want[op.irq]))
        /\ Asked(op, want[op.irq]).cpu = want[op.irq].cpu
    BY <1>6, ChangedWord, ZenonT(40)
  <2> QED
    BY <1>4, <1>5, <2>1, <2>2, ZenonT(40)
<1>8. \A p \in Pins : p # op.irq => low'[p] = FieldsWord(want[p]) /\ high'[p] = Bits(want[p].cpu, 24, 8)
  BY <1>4, <1>5, Zenon
<1> QED
  BY <1>2, <1>7, <1>8, LastWrite

LEMMA WriteIntact ==
  ASSUME ApicInv, ~ torn, NEW a \in Actors, Write(a)
  PROVE  Intact'
<1>1. PICK v : v = run[a].val
  BY Zenon
<1>2. Advance(a, v)
  BY <1>1, Zenon DEF Write
<1>3. Intact /\ (\A b \in Actors : b # a => ~ Busy(b)) /\ Underway(run[a]) /\ Busy(a)
  BY <1>2, StepAlone, Zenon
<1>4. PICK op \in OpSet, pc \in 1 .. 4, val \in SUBSET Nat : Advances(a, v, op, pc, val)
  BY <1>2, AdvanceStep, Zenon DEF ApicInv
<1>5. run[a].op = op /\ run[a].val = val
  BY <1>4 DEF Advances
<1>6. PICK n : /\ n = AccessesOf(op)[pc] /\ n.do \in {"write", "change"}
               /\ Store(IF n.do = "write" THEN n.val ELSE Changed(op, val))
  <2>1. Now(a) = AccessesOf(op)[pc]
    BY <1>4, Zenon DEF Advances
  <2>2. Now(a).do \in {"write", "change"}
    BY Zenon DEF Write
  <2>3. Store(IF Now(a).do = "write" THEN Now(a).val ELSE Changed(run[a].op, run[a].val))
    BY ZenonT(40) DEF Write
  <2> QED
    BY <1>5, <2>1, <2>2, <2>3, ZenonT(40)
<1>7. pc <= LastAccess(op)
  BY <1>4, Zenon DEF Advances
<1>8. CASE n.do = "write"
  <2>1. /\ op.name \in Entries
        /\ \/ pc = 2 /\ pc # LastAccess(op) /\ n.val = Entry(op).low
           \/ pc = 4 /\ pc = LastAccess(op) /\ n.val = Entry(op).high
    BY <1>6, <1>7, <1>8, AccessKinds
  <2>2. Store(n.val)
    BY <1>6, <1>8, ZenonT(40)
  <2>3. CASE pc = 2
    <3>1. Store(Entry(op).low) /\ 2 # LastAccess(op) /\ Advances(a, v, op, 2, val)
      BY <1>4, <2>1, <2>2, <2>3, SMTT(40)
    <3> QED
      BY <1>3, <2>1, <3>1, WriteLow, Zenon
  <2>4. CASE pc = 4
    <3>1. Store(Entry(op).high) /\ 4 = LastAccess(op) /\ Advances(a, v, op, 4, val)
      BY <1>4, <2>1, <2>2, <2>4, SMTT(40)
    <3> QED
      BY <1>3, <2>1, <3>1, WriteHigh, Zenon
  <2> QED
    BY <2>1, <2>3, <2>4, Zenon
<1>9. CASE n.do = "change"
  <2>1. op.name \in Changes /\ pc = 4 /\ pc = LastAccess(op)
    BY <1>6, <1>7, <1>9, AccessKinds, SMTT(40)
  <2>2. Store(Changed(op, val))
    BY <1>6, <1>9, Zenon
  <2>3. Advances(a, v, op, 4, val) /\ 4 = LastAccess(op)
    BY <1>4, <2>1, Zenon
  <2> QED
    BY <1>3, <2>1, <2>2, <2>3, WriteChange, Zenon
<1> QED
  BY <1>6, <1>8, <1>9, Zenon


-----------------------------------------------------------------------------
(* The invariant. *)

\* init_ioapics masks every entry: none is in use yet.
LEMMA InitIntact ==
  ASSUME ApicInv, init_ioapics
  PROVE  ApicTypeOK' /\ Intact'
<1>1. (\A a \in Actors : ~ Busy(a)) /\ run' = run
  BY Zenon DEF ApicInv, Before, init_ioapics
<1>2. \A p \in Pins : low[p] \in {{}, {16}} /\ high[p] = {} /\ want[p] = Fresh(0, 0)
  BY Zenon DEF ApicInv, Before, init_ioapics
<1> DEFINE w == [Fresh(0, 0) EXCEPT !.masked = TRUE]
<1>3. w \in Fields /\ FieldsWord(w) = {16} /\ Bits(w.cpu, 24, 8) = {}
  <2> DEFINE f == Fresh(0, 0)
  <2>0. /\ f \in Fields /\ f.vector = 0 /\ f.mode = 0 /\ ~ f.logical /\ ~ f.active_low
        /\ ~ f.level /\ f.cpu = 0
    BY Zenon DEF Fresh, Fields
  <2> HIDE DEF f
  <2>1. /\ w \in Fields /\ w.vector = 0 /\ w.mode = 0 /\ ~ w.logical /\ ~ w.active_low
        /\ ~ w.level /\ w.masked /\ w.cpu = 0
    <3>1. w = [f EXCEPT !.masked = TRUE]
      BY Zenon DEF f
    <3> HIDE DEF w
    <3> QED
      BY <2>0, <3>1, Zenon DEF Fields
  <2> HIDE DEF w
  <2>2. Bits(0, 0, 8) = {} /\ Bits(0, 8, 3) = {} /\ Bits(0, 24, 8) = {}
    BY BitsOfZero
  <2> QED
    BY <2>1, <2>2, Zenon DEF FieldsWord
<1>4. \A p \in Pins : low'[p] = {16} /\ high'[p] = {} /\ want'[p] = w
  <2>1. high' = high /\ low' = [p \in Pins |-> mask_irq(low[p])]
    BY Zenon DEF init_ioapics
  <2>2. want' = [p \in Pins |-> [want[p] EXCEPT !.masked = TRUE]]
    BY Zenon DEF init_ioapics
  <2>3. \A p \in Pins : low'[p] = {16}
    BY <1>2, <2>1, Zenon DEF mask_irq
  <2>4. \A p \in Pins : high'[p] = {}
    BY <1>2, <2>1, Zenon
  <2>5. \A p \in Pins : want'[p] = w
    BY <1>2, <2>2, Zenon
  <2> QED
    BY <2>3, <2>4, <2>5, Zenon
<1> HIDE DEF w
<1>5. \A a \in Actors : ~ Busy(a)'
  BY <1>1, Zenon DEF Busy
<1>6. Intact'
  BY <1>3, <1>4, <1>5, ZenonT(40) DEF Intact
<1>7. low' \in [Pins -> SUBSET Nat] /\ high' \in [Pins -> SUBSET Nat]
  BY <1>2 DEF init_ioapics, ApicInv, ApicTypeOK, mask_irq
<1>8. want' \in [Pins -> Fields]
  <2>1. want' = [p \in Pins |-> want'[p]]
    BY Zenon DEF init_ioapics
  <2> QED
    BY <1>3, <1>4, <2>1, Zenon
<1>9. IOAPIC_COUNT' \in {0, 1} /\ select' \in Nat /\ torn' \in BOOLEAN
  BY ApicAssumption DEF init_ioapics, ApicInv, ApicTypeOK, Register
<1>10. run' = [a \in Actors |-> run'[a]] /\ \A a \in Actors : RunOK(run'[a])
  BY <1>1, Zenon DEF ApicInv, ApicTypeOK
<1> QED
  BY <1>6, <1>7, <1>8, <1>9, <1>10, Zenon DEF ApicTypeOK, RunOK

LEMMA BeginInv ==
  ASSUME ApicInv, NEW a \in Actors, NEW op \in OpSet, Begin(a, op)
  PROVE  ApicInv'
<1>1. IOAPIC_COUNT = 1 /\ IOAPIC_COUNT' = 1 /\ ~ Busy(a) /\ (a = "task" => ~ Busy("handler"))
  BY Zenon DEF Begin, CanRun, Actors
<1>2. Program(op) = AccessesOf(op) /\ AccessesOf(op) # <<>>
  BY <1>1, ProgramIs, OpKinds, EntryAccesses, ChangeAccesses, Zenon
<1> DEFINE r == [op |-> op, pc |-> 1, val |-> {}, program |-> AccessesOf(op)]
<1>3. run' = [run EXCEPT ![a] = r]
  BY <1>2, Zenon DEF Begin
<1>4. RunOK(r)
  <2>1. 1 \in 1 .. 4 /\ {} \in SUBSET Nat /\ 1 <= LastAccess(op)
    BY DEF LastAccess
  <2> QED
    BY <2>1, Zenon DEF RunOK
<1>5. r.op = op /\ r.pc = 1
  BY Zenon
<1> HIDE DEF r
<1>6. /\ select' = select /\ low' = low /\ high' = high /\ want' = want
      /\ torn' = (torn \/ (a = "handler" /\ Busy("task")))
  BY Zenon DEF Begin
<1>7. ApicTypeOK'
  <2>1. run' = [b \in Actors |-> run'[b]] /\ \A b \in Actors : RunOK(run'[b])
    BY <1>3, <1>4, Zenon DEF ApicInv, ApicTypeOK
  <2>2. torn' \in BOOLEAN
    BY <1>6, Zenon
  <2> QED
    BY <1>1, <1>6, <2>1, <2>2, Zenon DEF ApicInv, ApicTypeOK, RunOK
<1>8. torn => torn'
  BY <1>6, Zenon
<1>9. ASSUME ~ torn' PROVE Intact'
  <2>1. ~ torn /\ \A b \in Actors : b # a => ~ Busy(b)
    BY <1>1, <1>6, <1>9, Zenon DEF Actors
  <2>2. Intact
    BY <1>1, <2>1, Zenon DEF ApicInv
  <2>3. run' = [b \in Actors |-> IF b = a THEN r ELSE run[b]]
    BY <1>3, Zenon DEF ApicInv, ApicTypeOK
  <2>4. Underway(r)'
    BY <1>5 DEF Underway
  <2>5. \A p \in Pins : ~ HalfWritten(p)
    BY <1>1, <2>1, Zenon DEF HalfWritten
  <2>6. \A p \in Pins : low'[p] = FieldsWord(want'[p]) /\ high'[p] = Bits(want'[p].cpu, 24, 8)
    BY <1>6, <2>2, <2>5, Zenon DEF Intact
  <2> QED
    BY <2>1, <2>3, <2>4, <2>6, AloneIntact, Zenon
<1> QED
  BY <1>1, <1>6, <1>7, <1>8, <1>9 DEF ApicInv

\* The types after each access.
LEMMA StoreType ==
  ASSUME ApicTypeOK, NEW word \in SUBSET Nat, Store(word)
  PROVE  low' \in [Pins -> SUBSET Nat] /\ high' \in [Pins -> SUBSET Nat]
<1>1. low' \in [Pins -> SUBSET Nat]
  <2>1. PICK kept : /\ kept \in SUBSET Nat
                    /\ low' = IF IsLow THEN [low EXCEPT ![Pin] = kept] ELSE low
    <3>1. Kept(word, low[Pin]) \in SUBSET Nat
      BY DEF Kept
    <3>2. low' = IF IsLow THEN [low EXCEPT ![Pin] = Kept(word, low[Pin])] ELSE low
      BY Zenon DEF Store, Kept
    <3> QED
      BY <3>1, <3>2, Zenon
  <2> QED
    BY <2>1, Zenon DEF ApicTypeOK
<1>2. high' \in [Pins -> SUBSET Nat]
  BY Zenon DEF Store, ApicTypeOK
<1> QED
  BY <1>1, <1>2, Zenon

LEMMA WordType ==
  ASSUME NEW op \in OpSet, NEW val \in SUBSET Nat
  PROVE  /\ Entry(op).low \in SUBSET Nat /\ Entry(op).high \in SUBSET Nat
         /\ op.name \in Changes => Changed(op, val) \in SUBSET Nat
<1>1. \A n \in Nat, from \in Nat, width \in Nat : Bits(n, from, width) \subseteq Nat
  BY BitsRange
<1>2. Entry(op).low \in SUBSET Nat /\ Entry(op).high \in SUBSET Nat
  <2>1. /\ Bits(op.arg, 0, 8) \subseteq Nat /\ Bits(Self, 24, 8) \subseteq Nat
        /\ Bits(32 + op.irq, 0, 8) \subseteq Nat /\ Bits(op.arg, 24, 8) \subseteq Nat
    BY ApicAssumption, <1>1, OpNumbers
  <2>2. CASE op.name = "setup_irq"
    BY <2>1, <2>2, Zenon DEF Entry, setup_irq
  <2>3. CASE op.name # "setup_irq"
    BY <2>1, <2>3, Zenon DEF Entry, route_irq_to_cpu
  <2> QED
    BY <2>2, <2>3, Zenon
<1>3. ASSUME op.name \in Changes PROVE Changed(op, val) \in SUBSET Nat
  <2>1. Bits(3 * op.arg, 8, 3) \subseteq Nat /\ Bits(op.arg, 18, 2) \subseteq Nat
    BY <1>1, OpNumbers, Zenon
  <2>2. \A bit \in Nat : val \cup {bit} \in SUBSET Nat /\ val \ {bit} \in SUBSET Nat
    BY Zenon
  <2>3. \A bit \in Nat : \A on : SetBit(val, bit, on) \in SUBSET Nat
    BY <2>2, Zenon DEF SetBit
  <2>4. 11 \in Nat /\ 13 \in Nat /\ 14 \in Nat /\ 15 \in Nat /\ 16 \in Nat
    BY Zenon
  <2>5. mask_irq(val) \in SUBSET Nat /\ unmask_irq(val) \in SUBSET Nat
    BY DEF mask_irq, unmask_irq
  <2>6. /\ configure_irq_delivery_mode(val, 3 * op.arg) \in SUBSET Nat
        /\ set_irq_destination_shorthand(val, op.arg) \in SUBSET Nat
    BY <2>1, Zenon DEF configure_irq_delivery_mode, set_irq_destination_shorthand
  <2>7. /\ set_irq_mask(val, op.arg = 1) \in SUBSET Nat
        /\ configure_irq_trigger_mode(val, op.arg = 1) \in SUBSET Nat
        /\ set_irq_remote_irr(val, op.arg = 1) \in SUBSET Nat
        /\ configure_irq_polarity(val, op.arg = 1) \in SUBSET Nat
        /\ configure_irq_destination_mode(val, op.arg = 1) \in SUBSET Nat
    BY <2>3, <2>4, Zenon DEF set_irq_mask, configure_irq_trigger_mode, set_irq_remote_irr,
       configure_irq_polarity, configure_irq_destination_mode
  <2>8. op.name \in {"mask_irq", "unmask_irq", "set_irq_mask", "trigger", "remote_irr",
                     "polarity", "destination", "delivery", "shorthand"}
    BY <1>3, Zenon DEF Changes
  <2> HIDE DEF Changed
  <2>a. CASE op.name = "mask_irq"
    BY <2>a, <2>5, Zenon DEF Changed
  <2>b. CASE op.name = "unmask_irq"
    BY <2>b, <2>5, Zenon DEF Changed
  <2>c. CASE op.name = "set_irq_mask"
    BY <2>c, <2>7, Zenon DEF Changed
  <2>d. CASE op.name = "trigger"
    BY <2>d, <2>7, Zenon DEF Changed
  <2>e. CASE op.name = "remote_irr"
    BY <2>e, <2>7, Zenon DEF Changed
  <2>f. CASE op.name = "polarity"
    BY <2>f, <2>7, Zenon DEF Changed
  <2>g. CASE op.name = "destination"
    BY <2>g, <2>7, Zenon DEF Changed
  <2>h. CASE op.name = "delivery"
    BY <2>h, <2>6, Zenon DEF Changed
  <2>i. CASE op.name = "shorthand"
    BY <2>i, <2>6, Zenon DEF Changed
  <2> QED
    BY <2>8, <2>a, <2>b, <2>c, <2>d, <2>e, <2>f, <2>g, <2>h, <2>i, Zenon
<1> QED
  BY <1>2, <1>3, Zenon

LEMMA WriteType ==
  ASSUME ApicInv, NEW a \in Actors, Write(a)
  PROVE  ApicTypeOK'
<1>1. PICK v : v = run[a].val
  BY Zenon
<1>2. Advance(a, v)
  BY <1>1, Zenon DEF Write
<1>3. PICK op \in OpSet, pc \in 1 .. 4, val \in SUBSET Nat : Advances(a, v, op, pc, val)
  BY <1>2, AdvanceStep DEF ApicInv
<1>4. run[a].op = op /\ run[a].val = val /\ pc <= LastAccess(op) /\ Now(a) = AccessesOf(op)[pc]
  BY <1>3 DEF Advances
<1>5. PICK n : /\ n = AccessesOf(op)[pc] /\ n.do \in {"write", "change"}
               /\ Store(IF n.do = "write" THEN n.val ELSE Changed(op, val))
  <2>1. Now(a).do \in {"write", "change"}
    BY Zenon DEF Write
  <2>2. Store(IF Now(a).do = "write" THEN Now(a).val ELSE Changed(run[a].op, run[a].val))
    BY Zenon DEF Write
  <2> QED
    BY <1>4, <2>1, <2>2, Zenon
<1>6. (IF n.do = "write" THEN n.val ELSE Changed(op, val)) \in SUBSET Nat
  <2>1. n.do = "write" => n.val = Entry(op).low \/ n.val = Entry(op).high
    BY <1>4, <1>5, AccessKinds, SMTT(40), ZenonT(40)
  <2>2. n.do = "change" => op.name \in Changes
    BY <1>4, <1>5, AccessKinds
  <2> QED
    BY <1>5, <2>1, <2>2, WordType, ZenonT(40)
<1>7. low' \in [Pins -> SUBSET Nat] /\ high' \in [Pins -> SUBSET Nat]
  BY <1>5, <1>6, StoreType, Zenon DEF ApicInv
<1>8. select' \in Nat
  BY Zenon DEF Write, ApicInv, ApicTypeOK
<1> QED
  BY <1>1, <1>2, <1>4, <1>7, <1>8, AdvanceType, Zenon DEF ApicInv


LEMMA SelectType ==
  ASSUME ApicInv, NEW a \in Actors, Select(a)
  PROVE  ApicTypeOK'
<1>1. PICK v : v = run[a].val
  BY Zenon
<1>2. Advance(a, v)
  BY <1>1, Zenon DEF Select
<1>3. PICK op \in OpSet, pc \in 1 .. 4, val \in SUBSET Nat : Advances(a, v, op, pc, val)
  BY <1>2, AdvanceStep DEF ApicInv
<1>4. run[a].val = val /\ pc <= LastAccess(op) /\ Now(a) = AccessesOf(op)[pc]
  BY <1>3 DEF Advances
<1>5. select' \in Nat
  <2>1. PICK n : n = AccessesOf(op)[pc] /\ n.do = "select" /\ select' = n.reg
    BY <1>4, ZenonT(40) DEF Select
  <2>2. select' = Register(op.irq) + (IF pc = 3 /\ op.name \in Entries THEN 1 ELSE 0)
    BY <2>1, <1>4, AccessKinds
  <2> QED
    BY <2>2, OpNumbers DEF Register
<1>6. low' \in [Pins -> SUBSET Nat] /\ high' \in [Pins -> SUBSET Nat]
  BY Zenon DEF Select, ApicInv, ApicTypeOK
<1> QED
  BY <1>1, <1>2, <1>4, <1>5, <1>6, AdvanceType, Zenon DEF ApicInv

LEMMA ReadType ==
  ASSUME ApicInv, NEW a \in Actors, Read(a)
  PROVE  ApicTypeOK'
<1>1. PICK v : v = IF IsLow THEN low[Pin] ELSE IF IsHigh THEN high[Pin] ELSE {}
  BY Zenon
<1>2. Advance(a, v)
  BY <1>1, Zenon DEF Read
<1>3. v \in SUBSET Nat
  <2>1. IsLow \/ IsHigh => Pin \in Pins
    <3>1. \A s \in Nat : s >= 16 /\ s % 2 = 1 => (s - 17) \div 2 = (s - 16) \div 2
      OBVIOUS
    <3>2. select \in Nat
      BY Zenon DEF ApicInv, ApicTypeOK
    <3> QED
      BY <3>1, <3>2, Zenon DEF IsLow, IsHigh, Pin
  <2> QED
    BY <1>1, <2>1, Zenon DEF ApicInv, ApicTypeOK
<1>4. low' \in [Pins -> SUBSET Nat] /\ high' \in [Pins -> SUBSET Nat] /\ select' \in Nat
  BY Zenon DEF Read, ApicInv, ApicTypeOK
<1> QED
  BY <1>2, <1>3, <1>4, AdvanceType, Zenon DEF ApicInv

LEMMA AdvanceCounts ==
  ASSUME NEW a, NEW v, Advance(a, v)
  PROVE  IOAPIC_COUNT = 1 /\ IOAPIC_COUNT' = 1 /\ torn' = torn
BY Zenon DEF Advance, CanRun

LEMMA ApicInitial ==
  ASSUME ApicInit
  PROVE  ApicInv
<1>1. /\ IOAPIC_COUNT = 0 /\ select = 0 /\ torn = FALSE
      /\ low \in [Pins -> {{}, {16}}] /\ high = [p \in Pins |-> {}]
      /\ run = [a \in Actors |-> IdleRun] /\ want = [p \in Pins |-> Fresh(0, 0)]
  BY Zenon DEF ApicInit
<1>2. Fresh(0, 0) \in Fields
  BY Zenon DEF Fresh, Fields
<1>3. ApicTypeOK
  <2>1. low \in [Pins -> SUBSET Nat] /\ high \in [Pins -> SUBSET Nat]
    BY <1>1
  <2>2. run = [a \in Actors |-> run[a]] /\ \A a \in Actors : RunOK(run[a])
    BY <1>1, Zenon DEF RunOK
  <2> QED
    BY <1>1, <1>2, <2>1, <2>2, Zenon DEF ApicTypeOK
<1>4. Before
  BY <1>1, Zenon DEF Before, Busy, IdleRun
<1> QED
  BY <1>1, <1>3, <1>4, SMTT(40) DEF ApicInv

LEMMA ApicInvStep ==
  ASSUME ApicInv, [ApicNext]_apicVars
  PROVE  ApicInv'
<1>1. CASE init_ioapics
  <2>1. IOAPIC_COUNT' = 1 /\ torn' = torn
    BY <1>1, Zenon DEF init_ioapics
  <2> QED
    BY <1>1, <2>1, InitIntact DEF ApicInv
<1>2. ASSUME NEW a \in Actors, NEW name \in Ops, NEW irq \in Irqs, NEW arg \in {0, 1},
             Begin(a, [name |-> name, irq |-> irq, arg |-> arg])
      PROVE  ApicInv'
  <2>1. [name |-> name, irq |-> irq, arg |-> arg] \in OpSet
    BY Zenon DEF OpSet
  <2> QED
    BY <1>2, <2>1, BeginInv, Zenon
<1>3. ASSUME NEW a \in Actors, Select(a) PROVE ApicInv'
  <2>1. IOAPIC_COUNT' = 1 /\ torn' = torn
    BY <1>3, AdvanceCounts, Zenon DEF Select
  <2> QED
    BY <1>3, <2>1, SelectType, SelectIntact DEF ApicInv
<1>4. ASSUME NEW a \in Actors, Read(a) PROVE ApicInv'
  <2>1. IOAPIC_COUNT' = 1 /\ torn' = torn
    BY <1>4, AdvanceCounts, Zenon DEF Read
  <2> QED
    BY <1>4, <2>1, ReadType, ReadIntact DEF ApicInv
<1>5. ASSUME NEW a \in Actors, Write(a) PROVE ApicInv'
  <2>1. IOAPIC_COUNT' = 1 /\ torn' = torn
    BY <1>5, AdvanceCounts, Zenon DEF Write
  <2> QED
    BY <1>5, <2>1, WriteType, WriteIntact DEF ApicInv
<1>6. CASE UNCHANGED apicVars
  <2>1. /\ IOAPIC_COUNT' = IOAPIC_COUNT /\ select' = select /\ low' = low /\ high' = high
        /\ run' = run /\ torn' = torn /\ want' = want
    BY <1>6, Zenon DEF apicVars
  <2>2. ApicTypeOK'
    BY <2>1, Zenon DEF ApicInv, ApicTypeOK
  <2>3. Before => Before'
    BY <2>1, Zenon DEF Before, Busy
  <2>4. Intact => Intact'
    BY <2>1, ZenonT(40) DEF Intact, Busy, HalfWritten, Underway
  <2> QED
    BY <2>1, <2>2, <2>3, <2>4, Zenon DEF ApicInv
<1> QED
  BY <1>1, <1>2, <1>3, <1>4, <1>5, <1>6, Zenon DEF ApicNext

-----------------------------------------------------------------------------
\* Unless a handler has worked within an operation, every entry of the I/O
\* APIC that is not being changed has the fields that setup_irq and the
\* functions that change one field asked for.
THEOREM EntriesAreAsAsked == ApicSpec => []EntriesAsAsked
<1>1. ApicInv => EntriesAsAsked
  <2> SUFFICES ASSUME ApicInv, IOAPIC_COUNT = 1, ~ torn, NEW p \in Pins, Free(p)
               PROVE  low[p] = FieldsWord(want[p]) /\ high[p] = Bits(want[p].cpu, 24, 8)
    BY Zenon DEF EntriesAsAsked, FieldsWord
  <2>1. Intact
    BY Zenon DEF ApicInv
  <2>2. ~ HalfWritten(p)
    BY Zenon DEF HalfWritten, Free, Entries
  <2> QED
    BY <2>1, <2>2, Zenon DEF Intact
<1> QED
  BY <1>1, ApicInitial, ApicInvStep, PTL DEF ApicSpec

-----------------------------------------------------------------------------
(* The waits of the timer. *)

-----------------------------------------------------------------------------
(* Counters that wrap, and the division that turns ticks into time. *)

\* A counter holds a value of its width.
LEMMA WrapInWord ==
  ASSUME NEW n \in Int
  PROVE  wrap(n) \in Word /\ wrap(n) \in Nat
  BY TimerAssumption, SMT DEF wrap, Word

\* A value that fits is kept.
LEMMA WrapSmall ==
  ASSUME NEW n \in Nat, n < 2^W
  PROVE  wrap(n) = n
  BY TimerAssumption, SMT DEF wrap

\* Below twice the width, a counter has wrapped at most once.
LEMMA WrapOnce ==
  ASSUME NEW n \in Nat, 2^W <= n, n < 2^W + 2^W
  PROVE  wrap(n) = n - 2^W
<1> DEFINE M == 2^W
<1>1. M \in Nat \ {0}
  BY TimerAssumption, Zenon
<1> HIDE DEF M
<1>2. \A x \in Nat : M <= x /\ x < M + M => x % M = x - M
  BY <1>1, SMT
<1> QED
  BY <1>2, Zenon DEF M, wrap

\* A negative difference of two counters wraps around to a positive one.
LEMMA WrapNegative ==
  ASSUME NEW n \in Int, 0 - 2^W <= n, n < 0
  PROVE  wrap(n) = n + 2^W
<1> DEFINE M == 2^W
<1>1. M \in Nat \ {0}
  BY TimerAssumption, Zenon
<1> HIDE DEF M
<1>2. \A x \in Int : 0 - M <= x /\ x < 0 => x % M = x + M
  BY <1>1, SMT
<1> QED
  BY <1>2, Zenon DEF M, wrap

\* The difference of two readings of a counter that has advanced by less than
\* its width is by how much it has advanced, wrapped or not.
LEMMA ReadingsDiffer ==
  ASSUME NEW s \in Word, NEW b \in Word
  PROVE  wrap(wrap(s + b) - s) = b
<1> DEFINE M == 2^W
<1>1. s \in Nat /\ b \in Nat /\ s < M /\ b < M /\ M \in Nat
  BY TimerAssumption DEF Word
<1>2. CASE s + b < M
  <2>1. wrap(s + b) = s + b
    BY <1>1, <1>2, WrapSmall
  <2> QED
    BY <1>1, <2>1, WrapSmall
<1>3. CASE ~(s + b < M)
  <2>1. wrap(s + b) = s + b - M
    BY <1>1, <1>3, WrapOnce, SMTT(40)
  <2>2. wrap(s + b) - s = b - M /\ b - M \in Int /\ 0 - M <= b - M /\ b - M < 0
    BY <1>1, <2>1, SMTT(40)
  <2>3. wrap(b - M) = (b - M) + M
    BY <2>2, WrapNegative, Zenon
  <2> QED
    BY <1>1, <2>2, <2>3
<1> QED
  BY <1>2, <1>3, Zenon

\* One more cycle after b of them.
LEMMA NextReading ==
  ASSUME NEW s \in Word, NEW b \in Word
  PROVE  wrap(wrap(s + b) + 1) = wrap(s + (b + 1))
<1> DEFINE M == 2^W
<1>1. M \in Nat /\ s \in Nat /\ b \in Nat /\ s < M /\ b < M
  BY TimerAssumption DEF Word
<1>2. CASE s + b < M
  <2>1. wrap(s + b) = s + b /\ s + (b + 1) = (s + b) + 1
    BY <1>1, <1>2, WrapSmall
  <2> QED
    BY <2>1, Zenon
<1>3. CASE ~(s + b < M)
  <2>1. wrap(s + b) = s + b - M /\ wrap(s + (b + 1)) = s + (b + 1) - M
    BY <1>1, <1>3, WrapOnce
  <2>2. s + b - M + 1 \in Nat /\ s + b - M + 1 < M
    BY <1>1, <1>3
  <2>3. wrap(s + b - M + 1) = s + b - M + 1
    BY <2>2, WrapSmall, Zenon
  <2> QED
    BY <1>1, <2>1, <2>3
<1> QED
  BY <1>2, <1>3, Zenon

\* Time in units of 1/Sec after t ticks at frequency f.
UptimeAt(t, f) == IF f > 0 THEN (t * Sec) \div f ELSE 0

\* Division rounds down.
LEMMA DivBounds ==
  ASSUME NEW a \in Nat, NEW f \in Nat \ {0}
  PROVE  /\ a \div f \in Nat
         /\ (a \div f) * f <= a
         /\ a < (a \div f) * f + f
  BY SMT

\* The clock does not run backwards.
LEMMA UptimeMonotone ==
  ASSUME NEW s \in Nat, NEW t \in Nat, s <= t, NEW f \in Nat
  PROVE  UptimeAt(s, f) \in Nat /\ UptimeAt(t, f) \in Nat /\ UptimeAt(s, f) <= UptimeAt(t, f)
<1>1. s * Sec \in Nat /\ t * Sec \in Nat /\ s * Sec <= t * Sec
  BY TimerAssumption, SMT
<1>2. \A a, b \in Nat : a <= b /\ f > 0 => a \div f <= b \div f /\ a \div f \in Nat /\ b \div f \in Nat
  BY SMT
<1> QED
  BY <1>1, <1>2 DEF UptimeAt

\* When the clock has advanced by n, the ticks in between took longer than n
\* less the one that rounding hides.
LEMMA TicksTakeTime ==
  ASSUME NEW t \in Nat, NEW w \in Nat, NEW n \in Nat, NEW f \in Nat,
         UptimeAt(t, f) + n <= UptimeAt(t + w, f)
  PROVE  n = 0 \/ w * Sec + f > n * f
<1>1. CASE f = 0
  BY <1>1 DEF UptimeAt
<1>2. CASE f # 0
  <2> DEFINE a == t * Sec
             b == (t + w) * Sec
             x == a \div f
             y == b \div f
  <2>1. a \in Nat /\ b \in Nat /\ b = a + w * Sec /\ w * Sec \in Nat
    BY TimerAssumption, SMT
  <2>2. x + n <= y
    BY <1>2 DEF UptimeAt
  <2>3. /\ x \in Nat /\ a < x * f + f
        /\ y \in Nat /\ y * f <= b
    <3> HIDE DEF a, b
    <3> QED
      BY <1>2, <2>1, DivBounds
  <2> HIDE DEF a, b, x, y
  <2>4. (x + n) * f <= y * f /\ (x + n) * f = x * f + n * f
    BY <2>2, <2>3, SMT
  <2>5. x * f \in Nat /\ y * f \in Nat /\ n * f \in Nat
    BY <2>3, SMT
  <2> QED
    BY <2>1, <2>3, <2>4, <2>5
<1> QED
  BY <1>1, <1>2, Zenon

-----------------------------------------------------------------------------
(***************************************************************************)
(* The invariant.  It relates the clock now to the reading with which the  *)
(* call under way began: the tick counter is at most that reading and the  *)
(* ticks since (a reset only takes it back); while nothing is reset, it is *)
(* exactly that many further; and the cycle counter is that many cycles    *)
(* further, modulo its width.                                              *)
(***************************************************************************)
TickWaits == {"sleep_ns", "wait_for_event"}
Delays == {"busy_wait_cycles", "delay_us", "microsecond_delay"}

Calls ==
  [kind : {"init", "calibrate_tsc", "sleep_ticks", "wait_until_ns", "precise_sleep_ns"}
            \cup TickWaits \cup Delays,
   arg : Nat, pc : {"init", "loop", "done", "event", "timeout", "remaining"},
   start : Nat, target : Nat]

TypeOK ==
  /\ TICKS \in 0 .. MaxTicks /\ FREQUENCY \in Nat /\ tsc \in Word
  /\ call \in Calls
  /\ waited \in Nat /\ burnt \in Word /\ rate \in Nat /\ steady \in BOOLEAN

\* Which kinds of call are in which phase.
Phases ==
  /\ call.kind \in {"sleep_ticks", "sleep_ns", "calibrate_tsc"} \cup Delays =>
       call.pc \in {"loop", "done"}
  /\ call.kind = "wait_for_event" => call.pc \in {"loop", "event", "timeout", "done"}
  /\ call.pc \in {"event", "timeout"} => call.kind = "wait_for_event"
  /\ call.pc = "init" => call.kind = "init"
  /\ call.pc = "remaining" => call.kind = "precise_sleep_ns"

\* sleep_ticks and what the counter can be at most.
TicksBound ==
  call.kind = "sleep_ticks" =>
    /\ call.target = wrap(call.start + call.arg) /\ TICKS <= call.start + waited
    /\ call.pc = "done" /\ call.start + call.arg < 2^W => waited >= call.arg

\* The clock at the beginning of a wait, t ticks ago.
TimeSince ==
  call.kind \in TickWaits /\ call.pc = "loop" /\ steady =>
    TICKS - waited \in Nat /\ call.start = UptimeAt(TICKS - waited, FREQUENCY)

NsTargets ==
  /\ call.kind = "sleep_ns" => call.target = wrap(call.start + call.arg)
  /\ call.kind = "wait_for_event" => call.target = call.arg

NsElapsed ==
  /\ call.kind = "sleep_ns" /\ call.pc = "done" /\ call.start + call.arg < 2^W /\ steady
       => Elapsed(call.arg)
  /\ call.pc = "timeout" /\ steady => Elapsed(call.arg)

Calibration ==
  call.kind = "calibrate_tsc" /\ steady =>
    /\ call.pc = "loop" => TICKS = call.target + waited
    /\ call.pc = "done" => waited >= CalTicks

\* The cycles that a delay has to wait for.
DelayTarget(kind, arg, f) == IF kind = "busy_wait_cycles" THEN arg ELSE wrap(arg * f) \div Sec

CyclesSince ==
  call.kind \in Delays =>
    /\ call.start \in Word /\ call.target = DelayTarget(call.kind, call.arg, rate)
    /\ call.pc = "loop" => tsc = wrap(call.start + burnt)
    /\ call.pc = "done" => burnt >= call.target

Inv == /\ TypeOK /\ Phases /\ TicksBound /\ TimeSince /\ NsTargets /\ NsElapsed
       /\ Calibration /\ CyclesSince

-----------------------------------------------------------------------------

\* The product of ticks and nanoseconds per second does not overflow.
LEMMA UptimeIs ==
  ASSUME TypeOK
  PROVE  uptime = UptimeAt(TICKS, FREQUENCY) /\ uptime \in Nat /\ uptime < 2^W
<1>1. TICKS \in Nat /\ TICKS <= MaxTicks /\ FREQUENCY \in Nat
  BY DEF TypeOK
<1>2. TICKS * Sec \in Nat /\ TICKS * Sec <= MaxTicks * Sec
  BY TimerAssumption, <1>1, SMT
<1>3. TICKS * Sec < 2^W
  BY TimerAssumption, <1>2
<1>4. wrap(TICKS * Sec) = TICKS * Sec
  BY <1>2, <1>3, WrapSmall, Zenon
<1>5. uptime = UptimeAt(TICKS, FREQUENCY)
  BY <1>4, Zenon DEF uptime, UptimeAt
<1>6. UptimeAt(TICKS, FREQUENCY) \in Nat
  BY TimerAssumption, <1>1, UptimeMonotone, Zenon
<1>7. UptimeAt(TICKS, FREQUENCY) <= TICKS * Sec
  <2>1. CASE FREQUENCY > 0
    <3>1. \A a \in Nat, f \in Nat : f > 0 => a \div f <= a
      BY SMTT(40)
    <3> QED
      BY <1>1, <1>2, <2>1, <3>1, Zenon DEF UptimeAt
  <2> QED
    BY <1>1, <1>2, <2>1 DEF UptimeAt
<1> QED
  BY TimerAssumption, <1>2, <1>3, <1>5, <1>6, <1>7

\* A call begins: the clock is what it has just been read to be.
LEMMA StartInv ==
  ASSUME Inv, NEW kind, NEW arg \in Nat, NEW pc, NEW start \in Nat, NEW target \in Nat,
         Start(kind, arg, pc, start, target),
         \/ kind = "init" /\ pc = "init"
         \/ kind = "sleep_ticks" /\ pc = "loop" /\ start = TICKS /\ target = wrap(start + arg)
         \/ kind = "sleep_ns" /\ pc = "loop" /\ start = uptime /\ target = wrap(start + arg)
         \/ kind = "wait_for_event" /\ pc = "loop" /\ start = uptime /\ target = arg
         \/ kind = "wait_until_ns" /\ pc = "loop"
         \/ kind = "calibrate_tsc" /\ pc = "loop" /\ target = TICKS
         \/ /\ kind \in Delays /\ pc = "loop" /\ start = tsc
            /\ target = DelayTarget(kind, arg, FREQUENCY)
         \/ kind = "precise_sleep_ns" /\ pc = "remaining"
  PROVE  Inv'
<1> DEFINE c == [kind |-> kind, arg |-> arg, pc |-> pc, start |-> start, target |-> target]
<1>1. /\ call' = c /\ waited' = 0 /\ burnt' = 0 /\ steady' = TRUE
      /\ rate' = FREQUENCY /\ UNCHANGED <<TICKS, FREQUENCY, tsc>> /\ TypeOK
  BY Zenon DEF Start, Inv
<1>2. /\ c.kind = kind /\ c.arg = arg /\ c.pc = pc /\ c.start = start /\ c.target = target
      /\ c \in Calls
  BY Zenon DEF Calls, Delays, TickWaits
<1> HIDE DEF c
<1>3. TypeOK'
  BY TimerAssumption, <1>1, <1>2, SMTT(40) DEF TypeOK, Word
<1>4. Phases'
  BY <1>1, <1>2, Zenon DEF Phases, Delays
<1>5. TicksBound'
  BY <1>1, <1>2, SMTT(40) DEF TicksBound, TypeOK, Delays
<1>6. TimeSince'
  <2>1. TICKS - 0 = TICKS /\ TICKS \in Nat /\ uptime = UptimeAt(TICKS, FREQUENCY)
    BY <1>1, UptimeIs, SMTT(40) DEF TypeOK
  <2>2. kind \in TickWaits => start = uptime
    BY Zenon DEF TickWaits, Delays
  <2> QED
    BY <1>1, <1>2, <2>1, <2>2, Zenon DEF TimeSince
<1>7. NsTargets' /\ NsElapsed'
  BY <1>1, <1>2, Zenon DEF NsTargets, NsElapsed, Delays
<1>8. Calibration'
  BY <1>1, <1>2, SMTT(40) DEF Calibration, TypeOK, Delays
<1>9. CyclesSince'
  <2>1. tsc \in Word /\ tsc \in Nat /\ tsc < 2^W
    BY TimerAssumption, <1>1, SMTT(40) DEF TypeOK, Word
  <2>2. wrap(tsc + 0) = tsc
    BY <2>1, WrapSmall, SMTT(40)
  <2>3. kind \in Delays => /\ pc = "loop" /\ start = tsc
                           /\ target = DelayTarget(kind, arg, FREQUENCY)
    BY Zenon DEF Delays
  <2> QED
    BY <1>1, <1>2, <2>1, <2>2, <2>3, Zenon DEF CyclesSince
<1> QED
  BY <1>3, <1>4, <1>5, <1>6, <1>7, <1>8, <1>9, Zenon DEF Inv

\* What the calls begin with.
LEMMA CallInv ==
  ASSUME Inv, NEW n \in Args, Call(n)
  PROVE  Inv'
<1>1. TypeOK /\ n \in Nat /\ TICKS \in Nat /\ tsc \in Nat /\ FREQUENCY \in Nat
  BY TimerAssumption DEF Inv, TypeOK, Word
<1>2. uptime \in Nat
  BY <1>1, UptimeIs, Zenon
<1>3. wrap(TICKS + n) \in Nat /\ wrap(uptime + n) \in Nat
  BY <1>1, <1>2, WrapInWord, SMTT(40)
<1>4. wrap(n * FREQUENCY) \div Sec \in Nat /\ wrap(FREQUENCY * n) \div Sec \in Nat
  <2>1. n * FREQUENCY \in Int /\ FREQUENCY * n \in Int
    BY <1>1, SMTT(40)
  <2>2. wrap(n * FREQUENCY) \in Nat /\ wrap(FREQUENCY * n) \in Nat
    BY <2>1, WrapInWord, Zenon
  <2> QED
    BY TimerAssumption, <2>2, DivBounds, Zenon
<1>5. CASE sleep_ticks(n)
  BY <1>1, <1>3, <1>5, StartInv, Zenon DEF sleep_ticks
<1>6. CASE sleep_ns(n)
  BY <1>1, <1>2, <1>3, <1>6, StartInv, Zenon DEF sleep_ns
<1>7. CASE wait_until_ns(n)
  BY <1>1, <1>2, <1>7, StartInv, Zenon DEF wait_until_ns
<1>8. CASE wait_for_event(n)
  BY <1>1, <1>2, <1>8, StartInv, ZenonT(40) DEF wait_for_event
<1>9. CASE busy_wait_cycles(n)
  BY <1>1, <1>9, StartInv, Zenon DEF busy_wait_cycles, Delays, DelayTarget
<1>10. CASE delay_us(n)
  BY <1>1, <1>4, <1>10, StartInv, Zenon DEF delay_us, Delays, DelayTarget
<1>11. CASE microsecond_delay(n)
  <2>1. n * FREQUENCY = FREQUENCY * n
    BY <1>1, SMT
  <2> QED
    BY <1>1, <1>4, <1>11, <2>1, StartInv, Zenon DEF microsecond_delay, Delays, DelayTarget
<1>12. CASE precise_sleep_ns(n)
  BY <1>1, <1>2, <1>3, <1>12, StartInv DEF precise_sleep_ns
<1> QED
  BY <1>5, <1>6, <1>7, <1>8, <1>9, <1>10, <1>11, <1>12, ZenonT(40) DEF Call

\* A call ends, or its loop does: what it promises has to hold now.
LEMMA PcInv ==
  ASSUME Inv, NEW pc \in {"done", "event", "timeout"},
         call' = [call EXCEPT !.pc = pc], UNCHANGED machine, FREQUENCY' \in Nat,
         pc \in {"event", "timeout"} => call.kind = "wait_for_event",
         call.kind = "sleep_ticks" /\ call.start + call.arg < 2^W => waited >= call.arg,
         call.kind = "sleep_ns" /\ call.start + call.arg < 2^W /\ steady =>
           FREQUENCY' = FREQUENCY /\ Elapsed(call.arg),
         pc = "timeout" /\ steady => FREQUENCY' = FREQUENCY /\ Elapsed(call.arg),
         call.kind = "calibrate_tsc" /\ steady => waited >= CalTicks,
         call.kind \in Delays => burnt >= call.target
  PROVE  Inv'
<1>1. /\ TypeOK /\ TicksBound /\ NsTargets /\ CyclesSince /\ Phases
      /\ UNCHANGED <<TICKS, tsc, waited, burnt, rate, steady>>
  BY Zenon DEF Inv, machine
<1>2. /\ call'.kind = call.kind /\ call'.arg = call.arg /\ call'.pc = pc
      /\ call'.start = call.start /\ call'.target = call.target /\ call' \in Calls
  BY <1>1, Zenon DEF TypeOK, Calls
<1>3. TypeOK'
  BY <1>1, <1>2, Zenon DEF TypeOK
<1>4. Phases'
  BY <1>1, <1>2, Zenon DEF Phases, Delays
<1>5. TicksBound'
  BY <1>1, <1>2, Zenon DEF TicksBound
<1>6. TimeSince'
  BY <1>1, <1>2, Zenon DEF TimeSince
<1>7. NsTargets'
  BY <1>1, <1>2, Zenon DEF NsTargets
<1>8. NsElapsed'
  BY <1>1, <1>2, Zenon DEF NsElapsed, Elapsed
<1>9. Calibration'
  BY <1>1, <1>2, Zenon DEF Calibration
<1>10. CyclesSince'
  BY <1>1, <1>2, Zenon DEF CyclesSince
<1> QED
  BY <1>3, <1>4, <1>5, <1>6, <1>7, <1>8, <1>9, <1>10, Zenon DEF Inv

\* sleep_ticks ends when the counter has reached the target, which it cannot
\* have done in fewer ticks than asked for.
LEMMA TickLoopInv ==
  ASSUME Inv, TickLoop
  PROVE  Inv'
<1>1. /\ call.kind = "sleep_ticks" /\ TICKS >= call.target
      /\ call' = [call EXCEPT !.pc = "done"] /\ UNCHANGED machine /\ FREQUENCY' = FREQUENCY
  BY Zenon DEF TickLoop, Looping, Finish
<1>2. /\ call.start \in Nat /\ call.arg \in Nat /\ waited \in Nat /\ TICKS \in Nat
      /\ FREQUENCY \in Nat /\ call.target = wrap(call.start + call.arg)
      /\ TICKS <= call.start + waited
  BY <1>1 DEF Inv, TypeOK, Calls, TicksBound
<1>3. call.start + call.arg < 2^W => waited >= call.arg
  <2> SUFFICES ASSUME call.start + call.arg < 2^W PROVE waited >= call.arg
    BY Zenon
  <2>1. wrap(call.start + call.arg) = call.start + call.arg
    BY <1>2, WrapSmall, SMTT(40)
  <2> QED
    BY <1>1, <1>2, <2>1
<1> QED
  BY <1>1, <1>2, <1>3, PcInv, Zenon DEF Delays

\* While nothing is reset, the clock shows when n units of time have passed.
LEMMA ElapsedNow ==
  ASSUME Inv, call.kind \in TickWaits, call.pc = "loop", steady,
         call.start + call.arg <= uptime
  PROVE  Elapsed(call.arg)
<1> DEFINE t == TICKS - waited
<1>1. /\ t \in Nat /\ waited \in Nat /\ TICKS \in Nat /\ FREQUENCY \in Nat /\ call.arg \in Nat
      /\ call.start = UptimeAt(t, FREQUENCY)
  BY DEF Inv, TypeOK, Calls, TimeSince
<1>2. TICKS = t + waited
  BY <1>1
<1>3. uptime = UptimeAt(t + waited, FREQUENCY)
  BY <1>2, UptimeIs, Zenon DEF Inv
<1> HIDE DEF t
<1> QED
  BY <1>1, <1>3, TicksTakeTime, Zenon DEF Elapsed

LEMMA NsLoopInv ==
  ASSUME Inv, NsLoop
  PROVE  Inv'
<1>1. /\ call.kind \in {"sleep_ns", "wait_until_ns"} /\ call.pc = "loop" /\ uptime >= call.target
      /\ call' = [call EXCEPT !.pc = "done"] /\ UNCHANGED machine /\ FREQUENCY' = FREQUENCY
  BY Zenon DEF NsLoop, Looping, Finish
<1>2. /\ call.start \in Nat /\ call.arg \in Nat /\ FREQUENCY \in Nat
      /\ call.kind = "sleep_ns" => call.target = wrap(call.start + call.arg)
  BY Zenon DEF Inv, TypeOK, Calls, NsTargets
<1>3. call.kind = "sleep_ns" /\ call.start + call.arg < 2^W /\ steady => Elapsed(call.arg)
  <2> SUFFICES ASSUME call.kind = "sleep_ns", call.start + call.arg < 2^W, steady
               PROVE  Elapsed(call.arg)
    BY Zenon
  <2>1. wrap(call.start + call.arg) = call.start + call.arg
    BY <1>2, WrapSmall
  <2>2. call.start + call.arg <= uptime
    BY <1>1, <1>2, <2>1, UptimeIs, Zenon DEF Inv
  <2> QED
    BY <1>1, <2>2, ElapsedNow, Zenon DEF TickWaits
<1> QED
  BY <1>1, <1>2, <1>3, PcInv, Zenon DEF Delays

LEMMA EventLoopInv ==
  ASSUME Inv, EventLoop
  PROVE  Inv'
<1>1. /\ call.kind = "wait_for_event" /\ call.pc = "loop" /\ UNCHANGED machine
      /\ FREQUENCY' = FREQUENCY
  BY Zenon DEF EventLoop, Looping, Finish
<1>2. /\ call.start \in Nat /\ call.arg \in Nat /\ FREQUENCY \in Nat /\ call.target = call.arg
      /\ TypeOK
  BY <1>1, Zenon DEF Inv, TypeOK, Calls, NsTargets
<1>3. CASE call' = [call EXCEPT !.pc = "event"]
  BY <1>1, <1>2, <1>3, PcInv, Zenon DEF Delays
<1>4. CASE /\ call' = [call EXCEPT !.pc = "timeout"]
           /\ wrap(uptime - call.start) >= call.target
  <2>1. steady => Elapsed(call.arg)
    <3> SUFFICES ASSUME steady PROVE Elapsed(call.arg)
      BY Zenon
    <3> DEFINE t == TICKS - waited
    <3>1. /\ t \in Nat /\ t <= TICKS /\ TICKS \in Nat /\ FREQUENCY \in Nat
          /\ call.start = UptimeAt(t, FREQUENCY)
      BY <1>1 DEF Inv, TypeOK, TimeSince, TickWaits
    <3> HIDE DEF t
    <3>2. call.start <= UptimeAt(TICKS, FREQUENCY)
      BY <3>1, UptimeMonotone, SMTT(40)
    <3>3. call.start <= uptime /\ uptime \in Nat /\ uptime < 2^W
      BY <1>2, <3>2, UptimeIs, Zenon
    <3>4. uptime - call.start \in Nat /\ uptime - call.start < 2^W
      BY TimerAssumption, <1>2, <3>3, SMTT(40)
    <3>5. wrap(uptime - call.start) = uptime - call.start
      BY <3>4, WrapSmall, Zenon
    <3>6. call.start + call.arg <= uptime
      BY <1>2, <1>4, <3>3, <3>5
    <3> QED
      BY <1>1, <3>6, ElapsedNow, Zenon DEF TickWaits
  <2> QED
    BY <1>1, <1>2, <1>4, <2>1, PcInv, Zenon DEF Delays
<1> QED
  BY <1>3, <1>4, Zenon DEF EventLoop, Finish

LEMMA ReturnInv ==
  ASSUME Inv, Return
  PROVE  Inv'
<1>1. /\ call.pc \in {"event", "timeout"} /\ UNCHANGED machine /\ FREQUENCY' = FREQUENCY
      /\ call' = [call EXCEPT !.pc = "done"]
  BY Zenon DEF Return, Finish
<1>2. call.kind = "wait_for_event" /\ FREQUENCY \in Nat
  BY <1>1, Zenon DEF Inv, Phases, TypeOK
<1> QED
  BY <1>1, <1>2, PcInv, Zenon DEF Delays

\* The calibration ends when the counter has advanced by its ticks.
LEMMA CalibrateInv ==
  ASSUME Inv, calibrate_tsc
  PROVE  Inv'
<1>1. /\ call.kind = "calibrate_tsc" /\ call.pc = "loop" /\ UNCHANGED machine
      /\ wrap(TICKS - call.target) >= CalTicks
      /\ FREQUENCY' = wrap(wrap(tsc - call.start) * Scale)
      /\ call' = [call EXCEPT !.pc = "done"]
  BY Zenon DEF calibrate_tsc, Looping
<1>2. /\ tsc \in Int /\ call.start \in Int /\ TICKS \in Nat /\ waited \in Nat
      /\ call.target \in Nat /\ TICKS <= MaxTicks
      /\ steady => TICKS = call.target + waited
  BY <1>1 DEF Inv, TypeOK, Calls, Calibration, Word
<1>3. FREQUENCY' \in Nat
  <2>1. wrap(tsc - call.start) \in Nat
    BY <1>2, WrapInWord
  <2>2. wrap(tsc - call.start) * Scale \in Int
    BY TimerAssumption, <2>1
  <2> QED
    BY <1>1, <2>2, WrapInWord, Zenon
<1>4. steady => waited >= CalTicks
  <2> SUFFICES ASSUME steady PROVE waited >= CalTicks
    BY Zenon
  <2>1. TICKS - call.target = waited /\ waited <= MaxTicks
    BY TimerAssumption, <1>2
  <2>2. MaxTicks <= MaxTicks * Sec
    BY TimerAssumption, SMT
  <2>3. waited < 2^W
    BY TimerAssumption, <1>2, <2>1, <2>2
  <2> QED
    BY <1>1, <1>2, <2>1, <2>3, WrapSmall, Zenon
<1> QED
  BY <1>1, <1>3, <1>4, PcInv, Zenon DEF Delays

LEMMA InitStepInv ==
  ASSUME Inv, init
  PROVE  Inv'
<1>1. call.kind = "init" /\ FREQUENCY \in Nat /\ tsc \in Nat /\ TICKS \in Nat
  BY DEF Inv, Phases, TypeOK, init, Word
<1>2. CASE init_hpet
  BY TimerAssumption, <1>1, <1>2, PcInv, Zenon DEF init_hpet, Delays
<1>3. CASE Finish("done")
  BY <1>1, <1>3, PcInv, Zenon DEF Finish, Delays
<1>4. CASE Start("calibrate_tsc", CalTicks, "loop", tsc, TICKS)
  BY TimerAssumption, <1>1, <1>4, StartInv
<1> QED
  BY <1>2, <1>3, <1>4, Zenon DEF init

LEMMA InitAgainInv ==
  ASSUME Inv, init_again
  PROVE  Inv'
  BY StartInv, Zenon DEF init_again

\* A delay compares the cycles since its first reading with its target.
LEMMA CycleLoopInv ==
  ASSUME Inv, CycleLoop
  PROVE  Inv'
<1>1. /\ call.kind \in Delays \cup {"precise_sleep_ns"} /\ call.pc = "loop"
      /\ wrap(tsc - call.start) >= call.target
      /\ call' = [call EXCEPT !.pc = "done"] /\ UNCHANGED machine /\ FREQUENCY' = FREQUENCY
  BY Zenon DEF CycleLoop, Looping, Finish, Delays
<1>2. FREQUENCY \in Nat /\ burnt \in Word
  BY Zenon DEF Inv, TypeOK
<1>3. call.kind \in Delays => burnt >= call.target
  <2> SUFFICES ASSUME call.kind \in Delays PROVE burnt >= call.target
    BY Zenon
  <2>1. call.start \in Word /\ tsc = wrap(call.start + burnt)
    BY <1>1, Zenon DEF Inv, CyclesSince
  <2>2. wrap(tsc - call.start) = burnt
    BY <1>2, <2>1, ReadingsDiffer, Zenon
  <2> QED
    BY <1>1, <2>2, Zenon
<1> QED
  BY <1>1, <1>2, <1>3, PcInv, Zenon DEF Delays

LEMMA RemainingInv ==
  ASSUME Inv, Remaining
  PROVE  Inv'
<1>1. call.pc = "remaining" /\ UNCHANGED machine /\ FREQUENCY' = FREQUENCY
  BY Zenon DEF Remaining
<1>2. /\ call.kind = "precise_sleep_ns" /\ FREQUENCY \in Nat /\ call.target \in Nat
      /\ tsc \in Nat /\ TypeOK
  BY <1>1 DEF Inv, Phases, TypeOK, Calls, Word
<1>3. CASE call' = [call EXCEPT !.pc = "done"]
  BY <1>1, <1>2, <1>3, PcInv, Zenon DEF Delays
<1>4. ASSUME NEW m \in Nat,
             call' = [call EXCEPT !.pc = "loop", !.start = tsc, !.target = m]
      PROVE  Inv'
  <2>1. call' \in Calls /\ call'.kind = "precise_sleep_ns" /\ call'.pc = "loop"
    BY <1>2, <1>4, Zenon DEF TypeOK, Calls
  <2>2. UNCHANGED <<TICKS, FREQUENCY, tsc, waited, burnt, rate, steady>>
    BY <1>1, Zenon DEF machine
  <2> QED
    BY <1>2, <2>1, <2>2, Zenon
      DEF Inv, TypeOK, Phases, TicksBound, TimeSince, NsTargets, NsElapsed,
           Calibration, CyclesSince, Delays, TickWaits
<1>5. CASE call' = [call EXCEPT !.pc = "loop", !.start = tsc,
                      !.target = wrap(wrap(call.target - uptime) * (FREQUENCY \div Sec))]
  <2>1. uptime \in Nat
    BY <1>2, UptimeIs, Zenon
  <2>2. wrap(call.target - uptime) \in Nat
    BY <1>2, <2>1, WrapInWord
  <2>3. FREQUENCY \div Sec \in Nat
    BY TimerAssumption, <1>2, DivBounds, Zenon
  <2>4. wrap(call.target - uptime) * (FREQUENCY \div Sec) \in Int
    BY <2>2, <2>3, SMT
  <2>5. wrap(wrap(call.target - uptime) * (FREQUENCY \div Sec)) \in Nat
    BY <2>4, WrapInWord, Zenon
  <2> QED
    BY <1>4, <1>5, <2>5, Zenon
<1> QED
  BY <1>3, <1>5, Zenon DEF Remaining
-----------------------------------------------------------------------------
(* The clocks advance, and other code resets them. *)

LEMMA TickInv ==
  ASSUME Inv, tick
  PROVE  Inv'
<1>1. /\ TICKS < MaxTicks /\ TICKS' = TICKS + 1 /\ waited' = waited + 1
      /\ UNCHANGED <<FREQUENCY, tsc, call, burnt, rate, steady>>
  BY Zenon DEF tick
<1>2. TICKS \in Nat /\ waited \in Nat /\ FREQUENCY \in Nat /\ call \in Calls
  BY DEF Inv, TypeOK
<1>3. /\ call.start \in Nat /\ call.arg \in Nat /\ call.target \in Nat
  BY <1>2, Zenon DEF Calls
<1>4. TypeOK' /\ Phases'
  BY TimerAssumption, <1>1, <1>2, SMTT(40) DEF Inv, TypeOK, Phases
<1>5. TicksBound'
  BY <1>1, <1>2, <1>3, SMTT(40) DEF Inv, TicksBound
<1>6. TimeSince'
  <2>1. TICKS' - waited' = TICKS - waited
    BY <1>1, <1>2, SMTT(40)
  <2> QED
    BY <1>1, <2>1, Zenon DEF Inv, TimeSince
<1>7. NsTargets'
  BY <1>1, Zenon DEF Inv, NsTargets
<1>8. \A n \in Nat : Elapsed(n) => n = 0 \/ waited' * Sec + FREQUENCY > n * FREQUENCY
  <2>1. waited' * Sec = waited * Sec + Sec /\ waited * Sec \in Nat
    BY TimerAssumption, <1>1, <1>2, SMT
  <2>2. \A n \in Nat : n * FREQUENCY \in Nat
    BY <1>2, SMTT(40)
  <2> QED
    BY TimerAssumption, <1>2, <2>1, <2>2, SMTT(40) DEF Elapsed
<1>9. NsElapsed'
  BY <1>1, <1>3, <1>8, Zenon DEF Inv, NsElapsed, Elapsed
<1>10. Calibration' /\ CyclesSince'
  BY TimerAssumption, <1>1, <1>2, <1>3, SMTT(40) DEF Inv, Calibration, CyclesSince
<1> QED
  BY <1>4, <1>5, <1>6, <1>7, <1>9, <1>10, Zenon DEF Inv

LEMMA CycleInv ==
  ASSUME Inv, Cycle
  PROVE  Inv'
<1>1. /\ call.pc = "loop" /\ burnt < 2^W - 1 /\ tsc' = wrap(tsc + 1) /\ burnt' = burnt + 1
      /\ UNCHANGED <<TICKS, FREQUENCY, call, waited, rate, steady>>
  BY Zenon DEF Cycle, Looping
<1>2. tsc \in Int /\ burnt \in Word /\ burnt \in Nat
  BY SMTT(40) DEF Inv, TypeOK, Word
<1>3. tsc' \in Word /\ burnt' \in Word
  BY TimerAssumption, <1>1, <1>2, WrapInWord, SMTT(40) DEF Word
<1>4. TypeOK' /\ Phases' /\ TicksBound' /\ TimeSince' /\ NsTargets' /\ Calibration'
  BY <1>1, <1>3, Zenon DEF Inv, TypeOK, Phases, TicksBound, TimeSince, NsTargets, Calibration
<1>5. NsElapsed'
  BY <1>1, Zenon DEF Inv, NsElapsed, Elapsed
<1>6. CyclesSince'
  <2> SUFFICES ASSUME call.kind \in Delays
               PROVE  call.start \in Word /\ tsc' = wrap(call.start + burnt')
    BY <1>1, Zenon DEF Inv, CyclesSince
  <2>1. call.start \in Word /\ tsc = wrap(call.start + burnt)
    BY <1>1, Zenon DEF Inv, CyclesSince
  <2> QED
    BY <1>1, <1>2, <2>1, NextReading, ZenonT(40)
<1> QED
  BY <1>4, <1>5, <1>6, Zenon DEF Inv

\* A reset takes the counter back, never forward.
LEMMA ResetInv ==
  ASSUME Inv, reset_timer
  PROVE  Inv'
<1>1. /\ TICKS' = 0 /\ steady' = FALSE
      /\ UNCHANGED <<FREQUENCY, tsc, call, waited, burnt, rate>>
  BY Zenon DEF reset_timer
<1>2. TypeOK' /\ Phases' /\ NsTargets'
  <2>1. 0 \in 0 .. MaxTicks
    BY TimerAssumption
  <2>2. TypeOK'
    BY <1>1, <2>1, ZenonT(40) DEF Inv, TypeOK
  <2> QED
    BY <1>1, <2>2, Zenon DEF Inv, Phases, NsTargets
<1>3. TicksBound'
  BY <1>1, SMTT(40) DEF Inv, TypeOK, Calls, TicksBound
<1>4. TimeSince' /\ NsElapsed' /\ Calibration' /\ CyclesSince'
  BY <1>1, Zenon DEF Inv, TimeSince, NsElapsed, Calibration, CyclesSince
<1> QED
  BY <1>2, <1>3, <1>4, Zenon DEF Inv

LEMMA ResetFrequencyInv ==
  ASSUME Inv, NEW f \in Freqs, timer_reset_frequency(f)
  PROVE  Inv'
<1>1. /\ FREQUENCY' = f /\ f \in Nat /\ steady' = FALSE
      /\ UNCHANGED <<TICKS, tsc, call, waited, burnt, rate>>
  BY TimerAssumption, Zenon DEF timer_reset_frequency
<1>2. TypeOK' /\ Phases' /\ NsTargets' /\ TicksBound'
  BY <1>1, ZenonT(40) DEF Inv, TypeOK, Phases, NsTargets, TicksBound
<1>3. TimeSince' /\ NsElapsed' /\ Calibration' /\ CyclesSince'
  BY <1>1, ZenonT(40) DEF Inv, TimeSince, NsElapsed, Calibration, CyclesSince
<1> QED
  BY <1>2, <1>3, Zenon DEF Inv
-----------------------------------------------------------------------------

LEMMA InitInv == Init => Inv
<1> SUFFICES ASSUME Init PROVE Inv
  BY Zenon
<1>1. /\ TICKS = 0 /\ FREQUENCY = 0 /\ tsc \in Word /\ waited = 0 /\ burnt = 0 /\ rate = 0 /\ steady = TRUE
      /\ call = [kind |-> "init", arg |-> 0, pc |-> "init", start |-> 0, target |-> 0]
  BY TimerAssumption, ZenonT(40) DEF Init
<1>2. call \in Calls /\ call.kind = "init" /\ call.pc = "init"
  BY <1>1, Zenon DEF Calls
<1> QED
  BY TimerAssumption, <1>1, <1>2, SMTT(40), ZenonT(40)
    DEF Inv, TypeOK, Phases, TicksBound, TimeSince, NsTargets, NsElapsed,
         Calibration, CyclesSince, Delays, TickWaits, Word

LEMMA NextInv == Inv /\ [Next]_timerVars => Inv'
<1> SUFFICES ASSUME Inv, [Next]_timerVars PROVE Inv'
  BY Zenon
<1>1. CASE Next
  BY <1>1, InitAgainInv, CallInv, InitStepInv, CalibrateInv, TickLoopInv, NsLoopInv,
     EventLoopInv, ReturnInv, CycleLoopInv, RemainingInv, TickInv, CycleInv, ResetInv,
     ResetFrequencyInv, ZenonT(40) DEF Next, Poll
<1>2. CASE UNCHANGED timerVars
  BY <1>2, ZenonT(40)
     DEF timerVars, Inv, TypeOK, Phases, TicksBound, TimeSince, NsTargets, NsElapsed,
              Elapsed, Calibration, CyclesSince
<1> QED
  BY <1>1, <1>2, Zenon

LEMMA SpecInv == Spec => []Inv
  BY InitInv, NextInv, PTL DEF Spec

\* No wait for ticks returns early: sleep_ticks has seen its ticks even when
\* the counter was reset under it, sleep_ns, a wait_for_event that times out
\* and calibrate_tsc have unless a reset took the clock back, for every
\* frequency and every width of the counters.
THEOREM WaitsAreLongEnough == Spec => []NoWaitEndsEarly
<1>1. Inv => NoWaitEndsEarly
  BY Zenon DEF Inv, NoWaitEndsEarly, TicksBound, NsElapsed, Calibration
<1> QED
  BY <1>1, SpecInv, PTL

\* The delays measured in cycles have burnt what was asked for when they end,
\* wherever the cycle counter stood and wraps around: the cycles of
\* busy_wait_cycles, and for delay_us and microsecond_delay those that their
\* microseconds take at the frequency they read, up to rounding, if the product
\* did not overflow.
THEOREM DelaysAreLongEnough == Spec => []NoDelayEndsEarly
<1>1. Inv => NoDelayEndsEarly
  <2> SUFFICES ASSUME Inv, call.pc = "done"
               PROVE  /\ call.kind = "busy_wait_cycles" => burnt >= call.arg
                      /\ call.kind \in {"delay_us", "microsecond_delay"} /\ call.arg * rate < 2^W =>
                           burnt * Sec + Sec > call.arg * rate
    BY Zenon DEF NoDelayEndsEarly
  <2>1. call.kind \in Delays =>
          burnt >= call.target /\ call.target = DelayTarget(call.kind, call.arg, rate)
    BY Zenon DEF Inv, CyclesSince
  <2>2. call.kind = "busy_wait_cycles" => burnt >= call.arg
    BY <2>1, Zenon DEF Delays, DelayTarget
  <2>3. ASSUME call.kind \in {"delay_us", "microsecond_delay"}, call.arg * rate < 2^W
        PROVE  burnt * Sec + Sec > call.arg * rate
    <3> DEFINE a == call.arg * rate
               d == a \div Sec
    <3>1. call.arg \in Nat /\ rate \in Nat /\ burnt \in Nat
      BY DEF Inv, TypeOK, Calls, Word
    <3>2. a \in Nat /\ a < 2^W
      BY <2>3, <3>1, SMT
    <3>3. wrap(a) = a
      BY <3>2, WrapSmall, Zenon
    <3>4. burnt >= d
      <4>1. call.kind \in Delays /\ call.kind # "busy_wait_cycles"
        BY <2>3, Zenon DEF Delays
      <4> QED
        BY <2>1, <3>3, <4>1, Zenon DEF DelayTarget
    <3> HIDE DEF a
    <3>5. d \in Nat /\ a < d * Sec + Sec
      BY TimerAssumption, <3>2, DivBounds, Zenon
    <3> HIDE DEF d
    <3>6. burnt * Sec >= d * Sec /\ burnt * Sec \in Nat /\ d * Sec \in Nat
      BY TimerAssumption, <3>1, <3>4, <3>5, SMT
    <3>7. burnt * Sec + Sec > a
      BY TimerAssumption, <3>2, <3>5, <3>6
    <3> QED
      BY <3>7, Zenon DEF a
  <2> QED
    BY <2>2, <2>3, Zenon
<1> QED
  BY <1>1, SpecInv, PTL
=============================================================================
