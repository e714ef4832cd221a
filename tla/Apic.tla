--------------------------------- MODULE Apic ---------------------------------
(***************************************************************************)
(* The I/O APIC of irq/apic.rs.  Each operation is a few accesses to       *)
(* device registers: a register is first selected and then read or         *)
(* written, and most operations read an entry, change some bits and write  *)
(* it back.  An interrupt handler may come between any two accesses and    *)
(* run operations of its own.                                              *)
(*                                                                         *)
(* A word is the set of its bits that are 1.                               *)
(***************************************************************************)
EXTENDS Integers, Sequences

CONSTANTS
  MaxRedir,         \* the last entry of the I/O APIC
  Irqs,             \* arguments: entries, and one past the last
  Self,             \* the processor that runs
  Ops,              \* operations to look at
  MaxOps            \* bound on their number

Pins == 0 .. MaxRedir
Actors == {"task", "handler"}
Weight == <<1, 2, 4, 8, 16, 32, 64, 128>>
Bits(n, from, width) == {from + k : k \in {j \in 0 .. width - 1 : (n \div Weight[j + 1]) % 2 = 1}}

\* The operations that write an entry anew and those that change one.
Entries == {"setup_irq", "route_irq_to_cpu"}
Changes == {"mask_irq", "unmask_irq", "set_irq_mask", "trigger", "remote_irr", "polarity",
            "destination", "delivery", "shorthand"}

ASSUME ApicAssumption ==
  /\ MaxRedir \in Nat /\ Irqs \subseteq Nat /\ Self \in 0 .. 255
  /\ Ops \subseteq Entries \cup Changes /\ MaxOps \in Nat

VARIABLES
  IOAPIC_COUNT,
  select,           \* the index register of the I/O APIC
  low, high,        \* its entries
  run,              \* per actor: the operation, its next access, the value read
  done,             \* number of operations so far
  torn,             \* history: the handler has worked within an operation of the task
  want              \* history: the fields of each entry as last asked for

apicVars == <<IOAPIC_COUNT, select, low, high, run, done, torn, want>>

\* The table has one I/O APIC, and it is also the default.
IOAPIC_INFO == <<[gsi_base |-> 0, max_redir |-> MaxRedir]>>
find_ioapic_by_gsi(gsi) ==
  LET found == {i \in 1 .. IOAPIC_COUNT : /\ gsi >= IOAPIC_INFO[i].gsi_base
                                          /\ gsi <= IOAPIC_INFO[i].gsi_base + IOAPIC_INFO[i].max_redir}
  IN IF found = {} THEN 1 ELSE CHOOSE i \in found : \A j \in found : i <= j

\* An entry is two registers, the low word first.
Register(irq) == 16 + irq * 2

-----------------------------------------------------------------------------
\* The new low word, by operation.  set_irq_mask is mask_irq or unmask_irq.
SetBit(val, bit, on) == IF on THEN val \cup {bit} ELSE val \ {bit}
mask_irq(val) == val \cup {16}
unmask_irq(val) == val \ {16}
configure_irq_trigger_mode(val, level) == SetBit(val, 15, level)
set_irq_remote_irr(val, irr) == SetBit(val, 14, irr)
configure_irq_polarity(val, active_low) == SetBit(val, 13, active_low)
configure_irq_destination_mode(val, logical) == SetBit(val, 11, logical)

\* Faulty variant: the old mode is not cleared first.
delivery_mode_added(val, mode) == val \cup Bits(mode, 8, 3)

configure_irq_delivery_mode(val, mode) == (val \ {8, 9, 10}) \cup Bits(mode, 8, 3)
set_irq_destination_shorthand(val, shorthand) == (val \ {18, 19}) \cup Bits(shorthand, 18, 2)
set_irq_mask(val, masked) == SetBit(val, 16, masked)

Changed(op, val) ==
  CASE op.name = "mask_irq" -> mask_irq(val)
    [] op.name = "unmask_irq" -> unmask_irq(val)
    [] op.name = "set_irq_mask" -> set_irq_mask(val, op.arg = 1)
    [] op.name = "trigger" -> configure_irq_trigger_mode(val, op.arg = 1)
    [] op.name = "remote_irr" -> set_irq_remote_irr(val, op.arg = 1)
    [] op.name = "polarity" -> configure_irq_polarity(val, op.arg = 1)
    [] op.name = "destination" -> configure_irq_destination_mode(val, op.arg = 1)
    [] op.name = "delivery" -> configure_irq_delivery_mode(val, 3 * op.arg)
    [] op.name = "shorthand" -> set_irq_destination_shorthand(val, op.arg)

\* setup_irq and route_irq_to_cpu write an entry anew.  Legacy vectors start at 32.
setup_irq(op) == [low |-> Bits(op.arg, 0, 8), high |-> Bits(Self, 24, 8)]
route_irq_to_cpu(op) == [low |-> Bits(32 + op.irq, 0, 8), high |-> Bits(op.arg, 24, 8)]
Entry(op) == IF op.name = "setup_irq" THEN setup_irq(op) ELSE route_irq_to_cpu(op)

Access(do, reg, val) == [do |-> do, reg |-> reg, val |-> val]
EntryProgram(irq, entry) ==
  << Access("select", Register(irq), {}), Access("write", 0, entry.low),
     Access("select", Register(irq) + 1, {}), Access("write", 0, entry.high) >>
ChangeProgram(irq) ==
  << Access("select", Register(irq), {}), Access("read", 0, {}),
     Access("select", Register(irq), {}), Access("change", 0, {}) >>

Checked == {"setup_irq", "mask_irq", "unmask_irq"}

Program(op) ==
  IF op.name \in Checked /\ find_ioapic_by_gsi(op.irq) > IOAPIC_COUNT THEN <<>>
  ELSE IF op.name \in Entries THEN EntryProgram(op.irq, Entry(op))
  ELSE ChangeProgram(op.irq)

-----------------------------------------------------------------------------
Nothing == [name |-> "none", irq |-> 0, arg |-> 0]
IdleRun == [op |-> Nothing, pc |-> 1, val |-> {}, program |-> <<>>]
Busy(a) == run[a].op # Nothing
CanRun(a) == IOAPIC_COUNT = 1 /\ (a = "handler" \/ ~ Busy("handler"))

\* Masks every entry, with interrupts off.
init_ioapics ==
  /\ IOAPIC_COUNT = 0
  /\ IOAPIC_COUNT' = 1 /\ select' = Register(MaxRedir)
  /\ low' = [p \in Pins |-> mask_irq(low[p])]
  /\ want' = [p \in Pins |-> [want[p] EXCEPT !.masked = TRUE]]
  /\ UNCHANGED <<high, run, done, torn>>

Begin(a, op) ==
  /\ CanRun(a) /\ ~ Busy(a) /\ done < MaxOps
  /\ run' = [run EXCEPT ![a] = IF Program(op) = <<>> THEN IdleRun
                               ELSE [op |-> op, pc |-> 1, val |-> {}, program |-> Program(op)]]
  /\ done' = done + 1
  /\ torn' = (torn \/ (a = "handler" /\ Busy("task")))
  /\ UNCHANGED <<IOAPIC_COUNT, select, low, high, want>>

IsLow == select >= 16 /\ select % 2 = 0 /\ (select - 16) \div 2 \in Pins
IsHigh == select >= 16 /\ select % 2 = 1 /\ (select - 17) \div 2 \in Pins
Pin == (select - 16) \div 2

\* What the device keeps of a word: delivery status, remote IRR and the bits
\* above the mask cannot be written, and registers beyond the last entry do not
\* exist.
Store(word) ==
  /\ low' = IF IsLow THEN [low EXCEPT ![Pin] = (word \cap ((0 .. 11) \cup {13, 15, 16})) \cup (@ \cap {12, 14})] ELSE low
  /\ high' = IF IsHigh THEN [high EXCEPT ![Pin] = word \cap 24 .. 31] ELSE high

\* The fields of an entry that an operation asks for.
Fresh(vector, cpu) ==
  [vector |-> vector, mode |-> 0, logical |-> FALSE, active_low |-> FALSE, level |-> FALSE,
   masked |-> FALSE, cpu |-> cpu]
Asked(op, w) ==
  CASE op.name = "setup_irq" -> Fresh(op.arg, Self)
    [] op.name = "route_irq_to_cpu" -> Fresh(32 + op.irq, op.arg)
    [] op.name = "mask_irq" -> [w EXCEPT !.masked = TRUE]
    [] op.name = "unmask_irq" -> [w EXCEPT !.masked = FALSE]
    [] op.name = "set_irq_mask" -> [w EXCEPT !.masked = op.arg = 1]
    [] op.name = "trigger" -> [w EXCEPT !.level = op.arg = 1]
    [] op.name = "polarity" -> [w EXCEPT !.active_low = op.arg = 1]
    [] op.name = "destination" -> [w EXCEPT !.logical = op.arg = 1]
    [] op.name = "delivery" -> [w EXCEPT !.mode = 3 * op.arg]
    [] OTHER -> w

\* The actor makes its next access; after the last the operation is over.
Now(a) == run[a].program[run[a].pc]
Advance(a, val) ==
  LET r == run[a]
      over == r.pc = Len(r.program)
  IN /\ CanRun(a) /\ Busy(a)
     /\ run' = [run EXCEPT ![a] =
                  IF over THEN IdleRun
                  ELSE [op |-> r.op, pc |-> r.pc + 1, val |-> val, program |-> r.program]]
     /\ want' = IF over /\ r.op.irq \in Pins
                THEN [want EXCEPT ![r.op.irq] = Asked(r.op, @)] ELSE want
     /\ UNCHANGED <<IOAPIC_COUNT, done, torn>>

Select(a) ==
  /\ Advance(a, run[a].val) /\ Now(a).do = "select"
  /\ select' = Now(a).reg
  /\ UNCHANGED <<low, high>>

Read(a) ==
  /\ Advance(a, IF IsLow THEN low[Pin] ELSE IF IsHigh THEN high[Pin] ELSE {}) /\ Now(a).do = "read"
  /\ UNCHANGED <<select, low, high>>

Write(a) ==
  /\ Advance(a, run[a].val) /\ Now(a).do \in {"write", "change"}
  /\ Store(IF Now(a).do = "write" THEN Now(a).val ELSE Changed(run[a].op, run[a].val))
  /\ UNCHANGED select

-----------------------------------------------------------------------------
ApicInit ==
  /\ IOAPIC_COUNT = 0 /\ select = 0
  /\ low \in [Pins -> {{}, {16}}] /\ high = [p \in Pins |-> {}]
  /\ run = [a \in Actors |-> IdleRun] /\ done = 0
  /\ torn = FALSE /\ want = [p \in Pins |-> Fresh(0, 0)]

ApicNext ==
  \/ init_ioapics
  \/ \E a \in Actors :
       \/ \E name \in Ops, irq \in Irqs, arg \in {0, 1} : Begin(a, [name |-> name, irq |-> irq, arg |-> arg])
       \/ Select(a) \/ Read(a) \/ Write(a)

ApicSpec == ApicInit /\ [][ApicNext]_apicVars

-----------------------------------------------------------------------------
Free(p) == \A a \in Actors : Busy(a) => run[a].op.irq # p

\* As long as no handler has worked within an operation of the task, every entry
\* that is not being changed has exactly the fields that were asked for: each
\* operation changes its own bits and leaves the other entries alone, and one
\* about an entry that does not exist changes nothing.
EntriesAsAsked ==
  IOAPIC_COUNT = 1 /\ ~ torn =>
    \A p \in Pins : Free(p) =>
      LET w == want[p]
      IN /\ low[p] = Bits(w.vector, 0, 8) \cup Bits(w.mode, 8, 3)
                     \cup (IF w.logical THEN {11} ELSE {}) \cup (IF w.active_low THEN {13} ELSE {})
                     \cup (IF w.level THEN {15} ELSE {}) \cup (IF w.masked THEN {16} ELSE {})
         /\ high[p] = Bits(w.cpu, 24, 8)
=============================================================================
