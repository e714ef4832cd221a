-------------------------- MODULE IrqConsoleProofs ---------------------------
(***************************************************************************)
(* The safety properties of module Irq, for every set of wired lines, any  *)
(* choice of the lines with drivers, and any number of requests and nested *)
(* saves, and those of module Console, for screens and buffers of any      *)
(* size, any text and any numbers.                                         *)
(***************************************************************************)
EXTENDS Irq, Console, SequenceTheorems, NaturalsInduction, WellFoundedInduction, TLAPS

\* What is in service for a handler of line l.
Served(l) == {l} \cup (IF l < 8 THEN {} ELSE {Cascade})

Frame == [line : Lines, pc : {"handler", "eoi", "iret"}, flag : {TRUE}]

\* One handler runs at a time, with interrupts off, on below it and no flags
\* saved there, and only its own line is in service: all of it until the handler is
\* called, nothing any more once handle_irq has acknowledged.
OneHandler ==
  \/ stack = <<>> /\ isr = {}
  \/ \E f \in Frame :
       /\ stack = <<f>>
       /\ ~ IF_ /\ saved = <<>>
       /\ f.pc = "handler" => isr = Served(f.line)
       /\ f.pc = "eoi" => isr \subseteq Served(f.line)
       /\ f.pc = "iret" => isr = {}

\* Flags are saved with interrupts off; all but the outermost say "off".
SavesNest ==
  /\ saved \in Seq(BOOLEAN)
  /\ saved # <<>> => ~ IF_
  /\ \A k \in 2 .. Len(saved) : ~ saved[k]

\* What mask_irq and unmask_irq read with interrupts off is still in the
\* register when they write.
ReadIsCurrent ==
  \/ mask_op = NoOp
  \/ /\ mask_op \in [line : Lines, on : BOOLEAN, read : SUBSET Controllers]
     /\ \/ IF_ \/ stack # <<>>
        \/ mask_op.read = imr \cap Register(mask_op.line)

Inv ==
  /\ IF_ \in BOOLEAN
  /\ imr \subseteq Controllers
  /\ HANDLERS \in [Lines -> Handlers]
  /\ OneHandler /\ SavesNest /\ ReadIsCurrent

-----------------------------------------------------------------------------
\* An EOI at a controller with at most the line x in service ends x.
LEMMA EoiEnds ==
  ASSUME NEW service, NEW c \in {0, 8}, NEW x \in Register(c),
         service \cap Register(c) \subseteq {x}
  PROVE  Eoi(service, c) = service \ {x}
<1>1. x \in Int
  BY DEF Register
<1>2. CASE service \cap Register(c) = {}
  BY <1>2, Zenon DEF Eoi
<1>3. CASE service \cap Register(c) = {x}
  <2>1. Min({x}) = x
    BY <1>1 DEF Min
  <2> QED
    BY <1>3, <2>1, Zenon DEF Eoi
<1> QED
  BY <1>2, <1>3, Zenon

\* The handlers of the known lines end at most the service they were called for.
LEMMA DefaultHandlerKeeps ==
  ASSUME NEW l \in 0 .. 15, l # Cascade, NEW service, service \subseteq Served(l)
  PROVE  default_irq_handler(service, l + 32) \subseteq service
<1>1. CASE l < 8
  <2>1. Eoi(service, 0) = service \ {l}
    <3>1. l \in Register(0) /\ service \cap Register(0) \subseteq {l}
      BY <1>1, SMTT(40) DEF Register, Served
    <3> QED
      BY <3>1, EoiEnds, Zenon
  <2> QED
    BY <1>1, <2>1, SMTT(40) DEF default_irq_handler
<1>2. CASE l >= 8
  <2>1. Eoi(service, 0) = service \ {Cascade}
    <3>1. Cascade \in Register(0) /\ service \cap Register(0) \subseteq {Cascade}
      BY <1>2 DEF Register, Served, Cascade
    <3> QED
      BY <3>1, EoiEnds, Zenon
  <2>2. Eoi(service \ {Cascade}, 8) = (service \ {Cascade}) \ {l}
    <3>1. l \in Register(8) /\ (service \ {Cascade}) \cap Register(8) \subseteq {l}
      BY <1>2 DEF Register, Served, Cascade
    <3> QED
      BY <3>1, EoiEnds, Zenon
  <2> QED
    BY <2>1, <2>2, Zenon DEF default_irq_handler
<1> QED
  BY <1>1, <1>2, SMTT(40)

\* eoi_irq ends the service of its line, and of the cascade where it has to.
LEMMA EoiIrqEnds ==
  ASSUME NEW l \in 0 .. 15, l # Cascade, NEW service, service \subseteq Served(l)
  PROVE  eoi_irq(service, l + 32) = {}
<1>1. CASE l < 8
  <2>1. l \in Register(0) /\ service \cap Register(0) \subseteq {l}
    BY <1>1 DEF Register, Served
  <2>2. Eoi(service, 0) = service \ {l}
    BY <2>1, EoiEnds, Zenon
  <2>3. eoi_irq(service, l + 32) = Eoi(service, 0)
    <3>1. ~ (l + 32 >= 40)
      BY <1>1, SMTT(40)
    <3> QED
      BY <3>1, Zenon DEF eoi_irq
  <2> QED
    BY <1>1, <2>2, <2>3, Zenon DEF Served
<1>2. CASE l >= 8
  <2>1. l \in Register(8) /\ service \cap Register(8) \subseteq {l}
    BY <1>2 DEF Register, Served, Cascade
  <2>2. Eoi(service, 8) = service \ {l}
    BY <2>1, EoiEnds, Zenon
  <2>3. /\ Cascade \in Register(0)
        /\ (service \ {l}) \cap Register(0) \subseteq {Cascade}
    BY <1>2 DEF Register, Served, Cascade
  <2>4. Eoi(service \ {l}, 0) = (service \ {l}) \ {Cascade}
    BY <2>3, EoiEnds, Zenon
  <2>5. eoi_irq(service, l + 32) = Eoi(Eoi(service, 8), 0)
    <3>1. l + 32 >= 40
      BY <1>2
    <3> QED
      BY <3>1, Zenon DEF eoi_irq
  <2> QED
    BY <1>2, <2>2, <2>4, <2>5, Zenon DEF Served
<1> QED
  BY <1>1, <1>2, SMTT(40)

\* While a handler runs, the stack is its frame, and nothing is saved below it.
LEMMA HandlerFrame ==
  ASSUME Inv, NEW pc, Running(pc)
  PROVE  \E f \in Frame : /\ stack = <<f>> /\ f.pc = pc
                          /\ CurrentLine = f.line
                          /\ ~ IF_ /\ saved = <<>>
                          /\ f.pc = "handler" => isr = Served(f.line)
                          /\ f.pc = "eoi" => isr \subseteq Served(f.line)
                          /\ f.pc = "iret" => isr = {}
<1>1. stack # <<>> /\ stack[Len(stack)].pc = pc
  BY Zenon DEF Running
<1>2. PICK f \in Frame :
       /\ stack = <<f>>
       /\ ~ IF_ /\ saved = <<>>
       /\ f.pc = "handler" => isr = Served(f.line)
       /\ f.pc = "eoi" => isr \subseteq Served(f.line)
       /\ f.pc = "iret" => isr = {}
  BY <1>1, Zenon DEF Inv, OneHandler
<1>3. stack[Len(stack)] = f
  BY <1>2, Zenon
<1> QED
  BY <1>1, <1>2, <1>3, Zenon DEF CurrentLine

\* A step that leaves alone what Inv speaks of preserves it.
LEMMA QuietStep ==
  ASSUME Inv, UNCHANGED <<IF_, isr, imr, HANDLERS, stack, saved, mask_op>>
  PROVE  Inv'
BY Zenon DEF Inv, OneHandler, SavesNest, ReadIsCurrent

\* The processor takes an interrupt only below all handlers, with no flags
\* saved, and the gate turns interrupts off.
LEMMA AcceptInv ==
  ASSUME Inv, NEW l \in Lines, Accept(l)
  PROVE  Inv'
<1>1. stack = <<>> /\ isr = {} /\ saved = <<>> /\ IF_ = TRUE
  BY Zenon DEF Accept, Inv, OneHandler, SavesNest
<1>2. IF_' = FALSE
  <2>1. install_irq_handler = 142
    BY DEF install_irq_handler, set_gate, InterruptGate, TrapGate
  <2>2. GateType(install_irq_handler) # TrapGate
    BY <2>1 DEF GateType, TrapGate
  <2> QED
    BY <2>2, Zenon DEF Accept
<1>3. OneHandler'
  <2> DEFINE f == [line |-> l, pc |-> "handler", flag |-> IF_]
  <2>1. f \in Frame
    BY <1>1, Zenon DEF Frame
  <2>2. stack' = <<f>>
    BY <1>1 DEF Accept
  <2>3. isr' = Served(l)
    BY <1>1, Zenon DEF Accept, Served
  <2>4. saved' = <<>>
    BY <1>1, Zenon DEF Accept
  <2>5. f.line = l /\ f.pc = "handler"
    BY Zenon
  <2> HIDE DEF f
  <2> QED
    BY <1>2, <2>1, <2>2, <2>3, <2>4, <2>5, Zenon DEF OneHandler
<1>4. SavesNest'
  BY <1>1, <1>2, Zenon DEF Accept, Inv, SavesNest
<1>5. ReadIsCurrent'
  <2>1. stack' # <<>>
    BY <1>3, <1>1 DEF Accept
  <2> QED
    BY <2>1, Zenon DEF Accept, Inv, ReadIsCurrent
<1> QED
  BY <1>2, <1>3, <1>4, <1>5, Zenon DEF Inv, Accept

\* The three steps of a handler.
LEMMA CallHandlerInv ==
  ASSUME Inv, CallHandler
  PROVE  Inv'
<1>1. PICK f \in Frame : /\ stack = <<f>> /\ f.pc = "handler"
                         /\ CurrentLine = f.line
                         /\ ~ IF_ /\ saved = <<>>
                         /\ isr = Served(f.line)
  BY HandlerFrame, Zenon DEF CallHandler
<1>2. f.line \in 0 .. 15 /\ f.line # Cascade
  BY IrqAssumption, Zenon DEF Frame, Cascade
<1>3. isr' \subseteq Served(f.line)
  <2>1. default_irq_handler(isr, f.line + 32) \subseteq isr
    BY <1>1, <1>2, DefaultHandlerKeeps, ZenonT(40)
  <2> QED
    BY <1>1, <2>1, Zenon DEF CallHandler
<1>4. OneHandler'
  <2> DEFINE g == [f EXCEPT !.pc = "eoi"]
  <2>1. g \in Frame /\ g.pc = "eoi" /\ g.line = f.line
    BY Zenon DEF Frame
  <2>2. stack' = <<g>>
    BY <1>1, SMTT(40) DEF CallHandler, Goto
  <2>3. ~ IF_' /\ saved' = <<>>
    BY <1>1, Zenon DEF CallHandler
  <2> HIDE DEF g
  <2> QED
    BY <1>3, <2>1, <2>2, <2>3, Zenon DEF OneHandler
<1>5. imr' \subseteq Controllers
  BY <1>1, <1>2, Zenon DEF CallHandler, Inv, Controllers
<1>6. stack' # <<>>
  BY <1>1, SMTT(40) DEF CallHandler, Goto
<1> QED
  BY <1>1, <1>4, <1>5, <1>6, Zenon DEF CallHandler, Inv, SavesNest, ReadIsCurrent

LEMMA AcknowledgeInv ==
  ASSUME Inv, Acknowledge
  PROVE  Inv'
<1>1. PICK f \in Frame : /\ stack = <<f>> /\ f.pc = "eoi"
                         /\ CurrentLine = f.line
                         /\ ~ IF_ /\ saved = <<>>
                         /\ isr \subseteq Served(f.line)
  BY HandlerFrame, Zenon DEF Acknowledge
<1>2. f.line \in 0 .. 15 /\ f.line # Cascade
  BY IrqAssumption, Zenon DEF Frame, Cascade
<1>3. isr' = {}
  BY <1>1, <1>2, EoiIrqEnds, Zenon DEF Acknowledge
<1>4. OneHandler'
  <2> DEFINE g == [f EXCEPT !.pc = "iret"]
  <2>1. g \in Frame /\ g.pc = "iret"
    BY Zenon DEF Frame
  <2>2. stack' = <<g>>
    BY <1>1, SMTT(40) DEF Acknowledge, Goto
  <2>3. ~ IF_' /\ saved' = <<>>
    BY <1>1, Zenon DEF Acknowledge
  <2> HIDE DEF g
  <2> QED
    BY <1>3, <2>1, <2>2, <2>3, Zenon DEF OneHandler
<1>5. stack' # <<>>
  BY <1>1, SMTT(40) DEF Acknowledge, Goto
<1> QED
  BY <1>1, <1>4, <1>5, Zenon DEF Acknowledge, Inv, SavesNest, ReadIsCurrent

LEMMA IretInv ==
  ASSUME Inv, Iret
  PROVE  Inv'
<1>1. PICK f \in Frame : stack = <<f>> /\ isr = {} /\ saved = <<>>
  BY HandlerFrame, Zenon DEF Iret
<1>2. stack' = <<>>
  BY <1>1, SubSeqEmpty DEF Iret, Front
<1>3. IF_' = TRUE
  BY <1>1, Zenon DEF Iret, Frame
<1> QED
  BY <1>1, <1>2, <1>3, Zenon DEF Iret, Inv, OneHandler, SavesNest, ReadIsCurrent

\* Kernel code below the handlers: the global switches, the saves and their
\* restores, the two halves of a change of a mask register, and drivers.
LEMMA GlobalSwitchInv ==
  ASSUME Inv, install_handlers \/ disable_irq_global \/ enable_irq_global
  PROVE  Inv'
<1>1. stack = <<>> /\ isr = {} /\ saved = <<>> /\ mask_op = NoOp
  BY DEF install_handlers, disable_irq_global, enable_irq_global, AtLeisure,
         InKernel, Inv, OneHandler
<1>2. /\ IF_' \in BOOLEAN /\ imr' \subseteq Controllers
      /\ UNCHANGED <<isr, stack, saved, mask_op, HANDLERS>>
  BY Zenon DEF install_handlers, disable_irq_global, enable_irq_global, Inv
<1> QED
  BY <1>1, <1>2, Zenon DEF Inv, OneHandler, SavesNest, ReadIsCurrent

LEMMA SaveInv ==
  ASSUME Inv, local_irq_save
  PROVE  Inv'
<1>1. stack = <<>> /\ isr = {} /\ mask_op = NoOp
  BY Zenon DEF local_irq_save, InKernel, Inv, OneHandler
<1>2. /\ saved \in Seq(BOOLEAN) /\ Len(saved) \in Nat
      /\ saved' = Append(saved, IF_) /\ IF_ \in BOOLEAN
  BY LenProperties, Zenon DEF local_irq_save, Inv, SavesNest
<1>3. /\ saved' \in Seq(BOOLEAN) /\ Len(saved') = Len(saved) + 1
      /\ \A k \in 1 .. Len(saved) : saved'[k] = saved[k]
      /\ saved'[Len(saved) + 1] = IF_
  BY <1>2, AppendProperties, SMTT(40)
<1>4. \A k \in 2 .. Len(saved') : ~ saved'[k]
  <2> SUFFICES ASSUME NEW k \in 2 .. Len(saved') PROVE ~ saved'[k]
    BY Zenon
  <2>1. CASE k \in 2 .. Len(saved)
    <3>1. k \in 1 .. Len(saved)
      BY <1>2, <2>1, SMTT(40)
    <3> QED
      BY <1>3, <2>1, <3>1, Zenon DEF Inv, SavesNest
  <2>2. CASE k = Len(saved) + 1
    <3>1. saved # <<>>
      BY <1>2, <2>2, SMTT(40)
    <3> QED
      BY <1>3, <2>2, <3>1, Zenon DEF Inv, SavesNest
  <2> QED
    BY <1>2, <1>3, <2>1, <2>2, SMTT(40)
<1>5. SavesNest'
  BY <1>3, <1>4, Zenon DEF SavesNest, local_irq_save
<1> QED
  BY <1>1, <1>5, Zenon DEF local_irq_save, Inv, OneHandler, ReadIsCurrent

LEMMA RestoreInv ==
  ASSUME Inv, local_irq_restore
  PROVE  Inv'
<1>1. stack = <<>> /\ isr = {} /\ mask_op = NoOp /\ ~ IF_
  BY Zenon DEF local_irq_restore, InKernel, Inv, OneHandler, SavesNest
<1>2. /\ saved \in Seq(BOOLEAN) /\ Len(saved) \in Nat \ {0}
      /\ saved \in [1 .. Len(saved) -> BOOLEAN]
      /\ saved' = SubSeq(saved, 1, Len(saved) - 1)
      /\ IF_' = saved[Len(saved)]
  BY <1>1, LenProperties, EmptySeq, SMTT(40) DEF local_irq_restore, Inv, SavesNest, Front
<1>3. /\ saved' \in Seq(BOOLEAN) /\ Len(saved') = Len(saved) - 1
      /\ \A k \in 1 .. Len(saved) - 1 : saved'[k] = saved[k]
  <2>1. \A k \in 1 .. Len(saved) - 1 : saved[k] \in BOOLEAN
    BY <1>2
  <2> QED
    BY <1>2, <2>1, SubSeqProperties, SMTT(40)
<1>4. \A k \in 2 .. Len(saved) : ~ saved[k]
  BY Zenon DEF Inv, SavesNest
<1>5. saved' # <<>> => ~ IF_'
  <2> SUFFICES ASSUME saved' # <<>> PROVE ~ IF_'
    BY Zenon
  <2>1. Len(saved) \in 2 .. Len(saved)
    BY <1>2, <1>3, EmptySeq, SMTT(40)
  <2> QED
    BY <1>2, <1>4, <2>1, Zenon
<1>6. \A k \in 2 .. Len(saved') : ~ saved'[k]
  BY <1>2, <1>3, <1>4, SMTT(40)
<1>7. IF_' \in BOOLEAN
  BY <1>2, SMTT(40)
<1> QED
  BY <1>1, <1>3, <1>5, <1>6, <1>7, Zenon
    DEF local_irq_restore, Inv, OneHandler, SavesNest, ReadIsCurrent

LEMMA ReadMaskInv ==
  ASSUME Inv, NEW l \in Lines, NEW on \in BOOLEAN, ReadMask(l, on)
  PROVE  Inv'
<1>1. /\ mask_op' = [line |-> l, on |-> on, read |-> imr \cap Register(l)]
      /\ imr \subseteq Controllers
  BY Zenon DEF ReadMask, Inv
<1>2. /\ mask_op' \in [line : Lines, on : BOOLEAN, read : SUBSET Controllers]
      /\ mask_op'.read = imr \cap Register(mask_op'.line)
  BY <1>1, Zenon
<1>3. ReadIsCurrent'
  BY <1>1, <1>2, Zenon DEF ReadIsCurrent, ReadMask
<1> QED
  BY <1>3, Zenon DEF ReadMask, Inv, OneHandler, SavesNest

LEMMA WriteMaskInv ==
  ASSUME Inv, WriteMask
  PROVE  Inv'
<1>1. mask_op.line \in 0 .. 15 /\ mask_op.read \subseteq Controllers
  BY IrqAssumption, Zenon DEF WriteMask, Inv, ReadIsCurrent
<1>2. imr' \subseteq Controllers
  BY <1>1, Zenon DEF WriteMask, Inv, Controllers
<1> QED
  BY <1>2, Zenon DEF WriteMask, Inv, OneHandler, SavesNest, ReadIsCurrent

LEMMA SetHandlerInv ==
  ASSUME Inv, NEW l \in Registered, NEW h \in Handlers, SetHandler(l, h)
  PROVE  Inv'
<1>1. HANDLERS' \in [Lines -> Handlers]
  BY IrqAssumption, Zenon DEF SetHandler, Inv
<1> QED
  BY <1>1, Zenon DEF SetHandler, Inv, OneHandler, SavesNest, ReadIsCurrent

-----------------------------------------------------------------------------
LEMMA InitInv == Init => Inv
<1> SUFFICES ASSUME Init PROVE Inv
  BY Zenon
<1>1. OneHandler /\ ReadIsCurrent
  BY Zenon DEF Init, OneHandler, ReadIsCurrent
<1>2. SavesNest
  <2>1. saved = <<>> /\ ~ IF_
    BY Zenon DEF Init
  <2> QED
    BY <2>1 DEF SavesNest
<1>3. IF_ \in BOOLEAN /\ HANDLERS \in [Lines -> Handlers] /\ imr \subseteq Controllers
  BY ZenonT(40) DEF Init, Handlers, setup_irq_controller
<1> QED
  BY <1>1, <1>2, <1>3, Zenon DEF Inv

LEMMA NextInv == Inv /\ [Next]_irqVars => Inv'
<1> SUFFICES ASSUME Inv, [Next]_irqVars PROVE Inv'
  BY Zenon
<1>1. ASSUME NEW l \in Lines, Raise(l) PROVE Inv'
  BY <1>1, QuietStep, Zenon DEF Raise
<1>2. CASE UNCHANGED irqVars
  BY <1>2, QuietStep, Zenon DEF irqVars
<1> QED
  BY <1>1, <1>2, AcceptInv, CallHandlerInv, AcknowledgeInv, IretInv,
     GlobalSwitchInv, SaveInv, RestoreInv, ReadMaskInv, WriteMaskInv,
     SetHandlerInv, Zenon DEF Next

\* Between local_irq_save and the local_irq_restore that matches it interrupts
\* are off and no handler runs, however deep the pairs nest.
THEOREM SavesAreNested == Spec => []SavedFlagsNest
<1>1. Spec => []Inv
  BY InitInv, NextInv, PTL DEF Spec
<1>2. Inv => SavedFlagsNest
  BY Zenon DEF Inv, OneHandler, SavesNest, SavedFlagsNest, InKernel
<1> QED
  BY <1>1, <1>2, PTL

\* Of the one or two EOIs that handle_irq sends, none ends the service of
\* another line: a handler is never interrupted by a second one, and an EOI
\* that finds its own line already ended finds nothing else in service either.
THEOREM EoisEndOwnService == Spec => EoiEndsOwnService
<1> DEFINE Own == \A b \in isr \ isr' :
                    stack # <<>> /\ (b = CurrentLine \/ (b = Cascade /\ CurrentLine >= 8))
<1>1. ASSUME Inv, [Next]_irqVars PROVE Own
  <2>1. ASSUME NEW pc \in {"handler", "eoi"}, Running(pc) PROVE Own
    <3>1. PICK f \in Frame : /\ stack = <<f>> /\ CurrentLine = f.line
                             /\ f.pc = pc
                             /\ f.pc = "handler" => isr = Served(f.line)
                             /\ f.pc = "eoi" => isr \subseteq Served(f.line)
      BY <1>1, <2>1, HandlerFrame, Zenon
    <3>2. isr \subseteq Served(f.line) /\ f.line \in 0 .. 15
      BY <3>1, IrqAssumption, Zenon DEF Frame
    <3> QED
      BY <3>1, <3>2, SMTT(40) DEF Served
  <2>2. CASE isr \subseteq isr'
    BY <2>2, Zenon
  <2>3. isr \subseteq isr' \/ CallHandler \/ Acknowledge
    BY <1>1, Zenon DEF Next, irqVars, Raise, Accept, Iret, install_handlers,
       disable_irq_global, enable_irq_global, local_irq_save,
       local_irq_restore, WriteMask, ReadMask, SetHandler
  <2> QED
    BY <2>1, <2>2, <2>3, Zenon DEF CallHandler, Acknowledge
<1>2. Inv /\ [Next]_irqVars => [Own]_irqVars
  BY <1>1, Zenon
<1>3. Spec => []Inv /\ [][Next]_irqVars
  BY InitInv, NextInv, PTL DEF Spec
<1>4. Spec => [][Own]_irqVars
  BY <1>2, <1>3, PTL
<1> QED
  BY <1>4, Zenon DEF EoiEndsOwnService

\* The read-modify-write of a mask register by mask_irq and unmask_irq loses no
\* mask that a handler set unless they are called with interrupts on:
\* otherwise no handler runs between its two halves, and a bit changes only for
\* the line that somebody named, or for all in install_handlers.
THEOREM MasksAreAsRequested == Spec => MasksChangeOnRequest
<1> DEFINE Asked == \A l \in Controllers :
                      (l \in imr) # (l \in imr') =>
                        \/ mask_op.line = l
                        \/ stack # <<>> /\ CurrentLine = l
                        \/ install_handlers
                        \/ IF_ /\ saved = <<>>
<1>1. ASSUME Inv, [Next]_irqVars PROVE Asked
  <2>1. CASE WriteMask /\ ~ IF_
    <3>1. mask_op.read = imr \cap Register(mask_op.line)
      BY <1>1, <2>1, Zenon DEF WriteMask, InKernel, Inv, ReadIsCurrent
    <3>2. \A l \in Controllers : l # mask_op.line => (l \in imr <=> l \in imr')
      BY <2>1, <3>1, Zenon DEF WriteMask
    <3> QED
      BY <3>2
  <2>2. CASE CallHandler
    <3>1. \A l \in Controllers : l # CurrentLine => (l \in imr <=> l \in imr')
      BY <2>2, Zenon DEF CallHandler
    <3> QED
      BY <2>2, <3>1 DEF CallHandler, Running
  <2>3. CASE install_handlers
    BY <2>3, Zenon
  <2>4. CASE imr' = imr
    BY <2>4, Zenon
  <2>5. CASE WriteMask /\ IF_
    BY <1>1, <2>5, Zenon DEF Inv, SavesNest
  <2>6. imr' = imr \/ WriteMask \/ CallHandler \/ install_handlers
    BY <1>1, Zenon DEF Next, irqVars, Raise, Accept, Acknowledge, Iret,
       disable_irq_global, enable_irq_global, local_irq_save,
       local_irq_restore, ReadMask, SetHandler
  <2> QED
    BY <2>1, <2>2, <2>3, <2>4, <2>5, <2>6, Zenon
<1>2. Inv /\ [Next]_irqVars => [Asked]_irqVars
  BY <1>1, Zenon
<1>3. Spec => []Inv /\ [][Next]_irqVars
  BY InitInv, NextInv, PTL DEF Spec
<1>4. Spec => [][Asked]_irqVars
  BY <1>2, <1>3, PTL
<1> QED
  BY <1>4, Zenon DEF MasksChangeOnRequest

-----------------------------------------------------------------------------
(* The console. *)

USE ConsoleAssumption

-----------------------------------------------------------------------------
(***************************************************************************)
(* Recursive functions over numbers.                                       *)
(***************************************************************************)
\* A nonempty set of natural numbers has a least element.
LEMMA LeastNatural ==
  ASSUME NEW T, T \subseteq Nat, T # {}
  PROVE  \E x \in T : \A y \in T : x <= y
<1>1. PICK x \in T : \A y \in T : ~(<<y, x>> \in OpToRel(<, Nat))
  BY NatLessThanWellFounded, WFMin, Zenon
<1>2. \A y \in T : ~(y < x)
  BY <1>1, Zenon DEF OpToRel
<1> QED
  BY <1>2

\* Induction over lo .. hi, from all smaller numbers to the next.
LEMMA RangeInduction ==
  ASSUME NEW lo \in Nat, NEW hi \in Nat, NEW S,
         \A i \in lo .. hi : (\A j \in lo .. i - 1 : j \in S) => i \in S
  PROVE  lo .. hi \subseteq S
<1> DEFINE T == {i \in lo .. hi : i \notin S}
<1>1. ASSUME T # {} PROVE FALSE
  <2>1. T \subseteq Nat
    OBVIOUS
  <2>2. PICK x \in T : \A y \in T : x <= y
    BY <1>1, <2>1, LeastNatural, Zenon
  <2>3. x \in lo .. hi /\ \A j \in lo .. x - 1 : j \notin T
    BY <2>2
  <2>4. \A j \in lo .. x - 1 : j \in S
    BY <2>3
  <2>5. x \in S
    BY <2>3, <2>4, Zenon
  <2> QED
    BY <2>2, <2>5, Zenon
<1> QED
  BY <1>1, Zenon

\* g is given by its value b at lo and the equation F, which may use the value
\* of g at a smaller number D.
Recursive(g, lo, hi, b, D, F) ==
  g[lo] = b /\ \A i \in lo + 1 .. hi : g[i] = F[<<i, g[D[i]]>>]

LEMMA RecursiveExists ==
  ASSUME NEW lo \in Nat, NEW hi \in Nat, lo <= hi, NEW R, NEW b \in R,
         NEW D, \A i \in lo + 1 .. hi : D[i] \in lo .. i - 1,
         NEW F \in [(lo + 1 .. hi) \X R -> R]
  PROVE  \E g \in [lo .. hi -> R] : Recursive(g, lo, hi, b, D, F)
<1> DEFINE S == {k \in lo .. hi : \E g \in [lo .. hi -> R] : Recursive(g, lo, k, b, D, F)}
<1>1. ASSUME NEW k \in lo .. hi, \A j \in lo .. k - 1 : j \in S PROVE k \in S
  <2>1. CASE k = lo
    <3> DEFINE g == [i \in lo .. hi |-> b]
    <3>1. g \in [lo .. hi -> R] /\ g[lo] = b /\ lo + 1 .. lo = {} /\ lo \in lo .. hi
      OBVIOUS
    <3> HIDE DEF g
    <3>2. Recursive(g, lo, lo, b, D, F)
      BY <3>1, Zenon DEF Recursive
    <3> QED
      BY <2>1, <3>1, <3>2, Zenon
  <2>2. CASE k # lo
    <3>1. k - 1 \in lo .. k - 1 /\ k \in lo + 1 .. hi
      BY <2>2
    <3>2. PICK g \in [lo .. hi -> R] : Recursive(g, lo, k - 1, b, D, F)
      BY <1>1, <3>1, Zenon
    <3> DEFINE w == F[<<k, g[D[k]]>>]
               h == [g EXCEPT ![k] = w]
    <3>3. D[k] \in lo .. hi
      BY <3>1
    <3>4. <<k, g[D[k]]>> \in (lo + 1 .. hi) \X R
      BY <3>1, <3>2, <3>3, Zenon
    <3>5. w \in R
      BY <3>4, Zenon
    <3> HIDE DEF w
    <3>6. h \in [lo .. hi -> R] /\ h[lo] = g[lo] /\ h[k] = w
      BY <2>2, <3>2, <3>5
    <3>7. \A i \in lo + 1 .. k : D[i] \in lo .. hi /\ h[D[i]] = g[D[i]]
      <4> TAKE i \in lo + 1 .. k
      <4>1. i \in lo + 1 .. hi
        OBVIOUS
      <4>2. D[i] \in lo .. i - 1
        BY <4>1, Zenon
      <4> QED
        BY <3>2, <4>2
    <3>8. \A i \in lo + 1 .. k - 1 : h[i] = g[i]
      BY <3>2
    <3>9. \A i \in lo + 1 .. k : i = k \/ i \in lo + 1 .. k - 1
      OBVIOUS
    <3> HIDE DEF h
    <3>10. h[k] = F[<<k, h[D[k]]>>]
      <4>1. k \in lo + 1 .. k
        BY <3>1
      <4> QED
        BY <3>6, <3>7, <4>1, Zenon DEF w
    <3>11. \A i \in lo + 1 .. k - 1 : h[i] = F[<<i, h[D[i]]>>]
      <4>1. \A i \in lo + 1 .. k - 1 : g[i] = F[<<i, g[D[i]]>>] /\ i \in lo + 1 .. k
        BY <3>2 DEF Recursive
      <4> QED
        BY <3>7, <3>8, <4>1, Zenon
    <3>12. Recursive(h, lo, k, b, D, F)
      <4>1. h[lo] = b
        BY <3>2, <3>6, Zenon DEF Recursive
      <4>2. \A i \in lo + 1 .. k : h[i] = F[<<i, h[D[i]]>>]
        BY <3>9, <3>10, <3>11, Zenon
      <4> QED
        BY <4>1, <4>2, Zenon DEF Recursive
    <3> QED
      BY <3>6, <3>12, Zenon
  <2> QED
    BY <2>1, <2>2, Zenon
<1>2. hi \in lo .. hi
  OBVIOUS
<1>3. hi \in S
  <2> HIDE DEF S
  <2> QED
    BY <1>1, <1>2, RangeInduction, Zenon
<1> QED
  BY <1>3, Zenon

-----------------------------------------------------------------------------
(***************************************************************************)
(* The screen.                                                             *)
(***************************************************************************)
DigitChars == {Digit(d) : d \in 0 .. 9}
Bytes == Chars \cup {"nl"} \cup DigitChars
Cells == Bytes \cup {" ", "nul"}
Screens == [Rows -> [Columns -> Cells]]

\* Consoles, the cursor on the screen; ConsoleAt(s, x, y) is one.
Consoles == [screen : Screens, x : Columns, y : Rows]

LEMMA ConsoleParts ==
  /\ \A s, x, y : /\ ConsoleAt(s, x, y).screen = s
                  /\ ConsoleAt(s, x, y).x = x /\ ConsoleAt(s, x, y).y = y
  /\ \A s \in Screens, x \in Columns, y \in Rows : ConsoleAt(s, x, y) \in Consoles
  /\ \A c \in Consoles : /\ c.screen \in Screens /\ c.x \in Columns /\ c.y \in Rows
                         /\ c = ConsoleAt(c.screen, c.x, c.y)
BY DEF ConsoleAt, Consoles

LEMMA ConsoleTyped ==
  ASSUME NEW s \in Screens, NEW x \in Columns, NEW y \in Rows
  PROVE  ConsoleAt(s, x, y) \in Consoles
BY ConsoleParts, Zenon

Scrolled(s) == [y \in Rows |-> IF y < VGA_HEIGHT - 1 THEN s[y + 1] ELSE BlankRow]
Written(s, x, y, char) == [s EXCEPT ![y][x] = char]

LEMMA ScreenTypes ==
  /\ BlankRow \in [Columns -> Cells]
  /\ \A s \in Screens : Scrolled(s) \in Screens
  /\ \A s \in Screens, x \in Columns, y \in Rows, char \in Cells : Written(s, x, y, char) \in Screens
<1>1. BlankRow \in [Columns -> Cells]
  BY Zenon DEF BlankRow, Cells
<1>2. \A s \in Screens : Scrolled(s) \in Screens
  <2> TAKE s \in Screens
  <2>1. \A y \in Rows : (IF y < VGA_HEIGHT - 1 THEN s[y + 1] ELSE BlankRow) \in [Columns -> Cells]
    BY <1>1 DEF Screens, Rows
  <2> QED
    BY <2>1, Zenon DEF Scrolled, Screens
<1>3. \A s \in Screens, x \in Columns, y \in Rows, char \in Cells : Written(s, x, y, char) \in Screens
  BY Zenon DEF Screens, Written
<1> QED
  BY <1>1, <1>2, <1>3, Zenon

\* newline, for a cursor that may be just off the right edge.
LEMMA NewlineIs ==
  ASSUME NEW s, NEW x \in 0 .. VGA_WIDTH, NEW y \in Rows
  PROVE  newline(ConsoleAt(s, x, y))
           = IF y = VGA_HEIGHT - 1 THEN ConsoleAt(Scrolled(s), 0, VGA_HEIGHT - 1)
             ELSE ConsoleAt(s, 0, y + 1)
<1>1. \A sc, a, b : scroll(ConsoleAt(sc, a, b)) = ConsoleAt(Scrolled(sc), a, VGA_HEIGHT - 1)
  BY ConsoleParts DEF scroll, Scrolled
<1>2. newline(ConsoleAt(s, x, y))
        = IF y + 1 >= VGA_HEIGHT THEN scroll(ConsoleAt(s, 0, y + 1)) ELSE ConsoleAt(s, 0, y + 1)
  BY ConsoleParts DEF newline
<1>3. y + 1 >= VGA_HEIGHT <=> y = VGA_HEIGHT - 1
  BY DEF Rows
<1> QED
  BY <1>1, <1>2, <1>3, Zenon

LEMMA PutCharIs ==
  ASSUME NEW s, NEW x \in Columns, NEW y \in Rows, NEW char
  PROVE  /\ put_char(ConsoleAt(s, x, y), char)
              = IF x = VGA_WIDTH - 1 THEN newline(ConsoleAt(Written(s, x, y, char), x + 1, y))
                ELSE ConsoleAt(Written(s, x, y, char), x + 1, y)
         /\ write_char_with_attr(ConsoleAt(s, x, y), char) = put_char(ConsoleAt(s, x, y), char)
<1>1. put_char(ConsoleAt(s, x, y), char)
        = IF x + 1 >= VGA_WIDTH THEN newline(ConsoleAt(Written(s, x, y, char), x + 1, y))
          ELSE ConsoleAt(Written(s, x, y, char), x + 1, y)
  BY ConsoleParts DEF put_char, Written
<1>2. x + 1 >= VGA_WIDTH <=> x = VGA_WIDTH - 1
  BY DEF Columns
<1>3. write_char_with_attr(ConsoleAt(s, x, y), char) = put_char(ConsoleAt(s, x, y), char)
  BY Zenon DEF write_char_with_attr, put_char
<1> QED
  BY <1>1, <1>2, <1>3, ZenonT(40)

LEMMA BackspaceIs ==
  ASSUME NEW s, NEW x \in Columns, NEW y \in Rows
  PROVE  backspace(ConsoleAt(s, x, y))
           = IF x # 0 THEN ConsoleAt(Written(s, x - 1, y, " "), x - 1, y)
             ELSE IF y # 0
                  THEN ConsoleAt(Written(s, VGA_WIDTH - 1, y - 1, " "), VGA_WIDTH - 1, y - 1)
                  ELSE ConsoleAt(s, x, y)
<1>1. (x > 0 <=> x # 0) /\ (y > 0 <=> y # 0)
  BY DEF Columns, Rows
<1> DEFINE c == ConsoleAt(s, x, y)
<1>2. c.screen = s /\ c.x = x /\ c.y = y
  BY ConsoleParts
<1> HIDE DEF c
<1>3. backspace(c)
        = IF x > 0 THEN ConsoleAt(Written(s, x - 1, y, " "), x - 1, y)
          ELSE IF y > 0
               THEN ConsoleAt(Written(s, VGA_WIDTH - 1, y - 1, " "), VGA_WIDTH - 1, y - 1)
               ELSE c
  BY <1>2, Zenon DEF backspace, Written
<1> QED
  BY <1>1, <1>3, Zenon DEF c

\* No step leaves the screen.
LEMMA StepTypes ==
  ASSUME NEW c \in Consoles
  PROVE  /\ newline(c) \in Consoles
         /\ \A b \in Bytes : write_byte(c, b) \in Consoles
         /\ \A b \in Cells : put_char(c, b) \in Consoles /\ write_char_with_attr(c, b) \in Consoles
         /\ backspace(c) \in Consoles
<1>1. PICK s \in Screens, x \in Columns, y \in Rows : c = ConsoleAt(s, x, y)
  BY ConsoleParts, Zenon
<1>2. \A t \in Screens, a \in 0 .. VGA_WIDTH : newline(ConsoleAt(t, a, y)) \in Consoles
  <2> TAKE t \in Screens, a \in 0 .. VGA_WIDTH
  <2>1. 0 \in Columns /\ VGA_HEIGHT - 1 \in Rows /\ (y # VGA_HEIGHT - 1 => y + 1 \in Rows)
    BY DEF Columns, Rows
  <2>2. newline(ConsoleAt(t, a, y))
          = IF y = VGA_HEIGHT - 1 THEN ConsoleAt(Scrolled(t), 0, VGA_HEIGHT - 1)
            ELSE ConsoleAt(t, 0, y + 1)
    BY NewlineIs, Zenon
  <2> QED
    BY <2>1, <2>2, ConsoleParts, ScreenTypes
<1>3. x \in 0 .. VGA_WIDTH /\ x + 1 \in 0 .. VGA_WIDTH /\ (x # VGA_WIDTH - 1 => x + 1 \in Columns)
  BY DEF Columns
<1>4. newline(c) \in Consoles
  BY <1>1, <1>2, <1>3, ZenonT(40)
<1>5. \A b \in Cells : put_char(c, b) \in Consoles /\ write_char_with_attr(c, b) \in Consoles
  <2> TAKE b \in Cells
  <2>1. Written(s, x, y, b) \in Screens
    BY ScreenTypes, Zenon
  <2> QED
    BY <1>1, <1>2, <1>3, <2>1, PutCharIs, ConsoleParts, SMTT(40)
<1>6. \A b \in Bytes : write_byte(c, b) \in Consoles
  <2>1. Bytes \subseteq Cells
    BY Zenon DEF Cells
  <2> QED
    BY <1>4, <1>5, <2>1, Zenon DEF write_byte
<1>7. backspace(c) \in Consoles
  <2>1. " " \in Cells
    BY Zenon DEF Cells
  <2>2. /\ x # 0 => x - 1 \in Columns
        /\ y # 0 => y - 1 \in Rows
        /\ VGA_WIDTH - 1 \in Columns
    BY DEF Columns, Rows
  <2>3. /\ x # 0 => Written(s, x - 1, y, " ") \in Screens
        /\ y # 0 => Written(s, VGA_WIDTH - 1, y - 1, " ") \in Screens
    BY <2>1, <2>2, ScreenTypes, Zenon
  <2> QED
    <3>1. CASE x # 0
      <4>1. backspace(c) = ConsoleAt(Written(s, x - 1, y, " "), x - 1, y)
        BY <1>1, <3>1, BackspaceIs, Zenon
      <4> QED
        BY <2>2, <2>3, <3>1, <4>1, ConsoleTyped, Zenon
    <3>2. CASE x = 0 /\ y # 0
      <4>1. backspace(c) = ConsoleAt(Written(s, VGA_WIDTH - 1, y - 1, " "), VGA_WIDTH - 1, y - 1)
        BY <1>1, <3>2, BackspaceIs, Zenon
      <4> QED
        BY <2>2, <2>3, <3>2, <4>1, ConsoleTyped, Zenon
    <3>3. CASE x = 0 /\ y = 0
      BY <1>1, <3>3, BackspaceIs, Zenon
    <3> QED
      BY <3>1, <3>2, <3>3, Zenon
<1> QED
  BY <1>4, <1>5, <1>6, <1>7, Zenon

LEMMA ConsoleFields ==
  ASSUME NEW s, NEW x, NEW y
  PROVE  /\ ConsoleAt(s, x, y).screen = s
         /\ ConsoleAt(s, x, y).x = x /\ ConsoleAt(s, x, y).y = y
BY ConsoleParts

\* t is s with char at (x, y).
Differs(t, s, x, y, char) ==
  \A i \in Columns, j \in Rows :
    /\ j = y /\ i = x => t[j][i] = char
    /\ ~ (j = y /\ i = x) => t[j][i] = s[j][i]
\* The cursor of c steps back to (x, y) on the screen s.
StepsBack(c, s, x, y) == backspace(c) = ConsoleAt(Written(s, x, y, " "), x, y)

LEMMA CellsOf ==
  ASSUME NEW s \in Screens, NEW x \in Columns, NEW y \in Rows, NEW char
  PROVE  Differs(Written(s, x, y, char), s, x, y, char)
BY Zenon DEF Differs, Written, Screens

LEMMA RowsOf ==
  ASSUME NEW s \in Screens
  PROVE  \A j \in Rows : j + 1 \in Rows => Scrolled(s)[j] = s[j + 1]
BY DEF Scrolled, Rows

LEMMA BackInRow ==
  ASSUME NEW s, NEW a \in Columns, NEW y \in Rows, a # 0, NEW x, x = a - 1
  PROVE  StepsBack(ConsoleAt(s, a, y), s, x, y)
BY BackspaceIs, Zenon DEF StepsBack

LEMMA BackOverEdge ==
  ASSUME NEW s, NEW a \in Rows, a # 0, NEW x, x = VGA_WIDTH - 1, NEW y, y = a - 1
  PROVE  StepsBack(ConsoleAt(s, 0, a), s, x, y)
<1>1. 0 \in Columns
  BY DEF Columns
<1> QED
  BY <1>1, BackspaceIs, Zenon DEF StepsBack


\* The states that a text written byte by byte goes through.
Writes(g, c, bytes) ==
  /\ g \in [0 .. Len(bytes) -> Consoles] /\ g[0] = c
  /\ \A k \in 1 .. Len(bytes) : g[k] = write_byte(g[k - 1], bytes[k])

LEMMA WriteBytesIs ==
  ASSUME NEW c \in Consoles, NEW bytes \in Seq(Bytes)
  PROVE  \E g : Writes(g, c, bytes) /\ WriteBytes(c, bytes) = g[Len(bytes)]
<1> DEFINE n == Len(bytes)
           after[k \in 0 .. n] == IF k = 0 THEN c ELSE write_byte(after[k - 1], bytes[k])
           D == [k \in 1 .. n |-> k - 1]
           F == [x \in (1 .. n) \X Consoles |-> write_byte(x[2], bytes[x[1]])]
<1>1. n \in Nat /\ \A k \in 1 .. n : bytes[k] \in Bytes
  OBVIOUS
<1>2. WriteBytes(c, bytes) = after[n]
  BY Zenon DEF WriteBytes
<1> HIDE DEF n
<1>3. \A k \in 1 .. n : \A x \in Consoles : write_byte(x, bytes[k]) \in Consoles
  BY <1>1, StepTypes, Zenon
<1>4. F \in [(1 .. n) \X Consoles -> Consoles]
  BY <1>3, Zenon
<1>5. PICK g \in [0 .. n -> Consoles] : g[0] = c /\ \A k \in 1 .. n : g[k] = F[<<k, g[D[k]]>>]
  <2>1. 0 \in Nat /\ 0 <= n /\ 0 + 1 = 1 /\ \A k \in 1 .. n : D[k] \in 0 .. k - 1
    BY <1>1
  <2> HIDE DEF D, F
  <2>2. F \in [(0 + 1 .. n) \X Consoles -> Consoles] /\ \A k \in 0 + 1 .. n : D[k] \in 0 .. k - 1
    BY <1>4, <2>1, Zenon
  <2>3. \E g \in [0 .. n -> Consoles] : Recursive(g, 0, n, c, D, F)
    BY <1>1, <2>1, <2>2, RecursiveExists, ZenonT(40)
  <2> QED
    BY <2>1, <2>3, Zenon DEF Recursive
<1>6. \A k \in 1 .. n : g[k] = write_byte(g[k - 1], bytes[k])
  <2> TAKE k \in 1 .. n
  <2>1. D[k] = k - 1 /\ k - 1 \in 0 .. n
    BY <1>1
  <2>2. <<k, g[k - 1]>> \in (1 .. n) \X Consoles
    BY <2>1, <1>5, Zenon
  <2>3. F[<<k, g[k - 1]>>] = write_byte(g[k - 1], bytes[k])
    BY <2>2, Zenon
  <2> HIDE DEF D, F
  <2> QED
    BY <1>5, <2>1, <2>3, Zenon
<1>7. g = [k \in 0 .. n |-> IF k = 0 THEN c ELSE write_byte(g[k - 1], bytes[k])]
  <2>1. \A k \in 0 .. n : k = 0 \/ k \in 1 .. n
    BY <1>1
  <2>2. \A k \in 0 .. n : g[k] = IF k = 0 THEN c ELSE write_byte(g[k - 1], bytes[k])
    BY <1>5, <1>6, <2>1, Zenon
  <2> QED
    BY <1>5, <2>2, Zenon
<1>8. after = [k \in 0 .. n |-> IF k = 0 THEN c ELSE write_byte(after[k - 1], bytes[k])]
  BY <1>7, Zenon
<1> HIDE DEF after
<1>9. Writes(after, c, bytes)
  <2>1. after[0] = c /\ \A k \in 1 .. n : after[k] = write_byte(after[k - 1], bytes[k])
    BY <1>1, <1>8
  <2>2. 0 .. n \subseteq {k \in 0 .. n : after[k] \in Consoles}
    <3> DEFINE S == {k \in 0 .. n : after[k] \in Consoles}
    <3>1. ASSUME NEW k \in 0 .. n, \A j \in 0 .. k - 1 : j \in S PROVE k \in S
      <4>1. CASE k = 0
        BY <2>1, <4>1, Zenon
      <4>2. CASE k # 0
        <5>1. k \in 1 .. n /\ k - 1 \in 0 .. k - 1
          BY <4>2, <1>1
        <5> QED
          BY <1>3, <2>1, <3>1, <5>1
      <4> QED
        BY <4>1, <4>2, Zenon
    <3> HIDE DEF S
    <3>2. 0 .. n \subseteq S
      BY <1>1, <3>1, RangeInduction, Zenon
    <3> QED
      BY <3>2, Zenon DEF S
  <2> QED
    BY <1>8, <2>1, <2>2, Zenon DEF Writes, n
<1> QED
  BY <1>2, <1>9, Zenon DEF n

LEMMA WriteBytesType ==
  ASSUME NEW c \in Consoles, NEW bytes \in Seq(Bytes)
  PROVE  WriteBytes(c, bytes) \in Consoles
<1>1. PICK g : Writes(g, c, bytes) /\ WriteBytes(c, bytes) = g[Len(bytes)]
  BY WriteBytesIs, Zenon
<1> QED
  BY <1>1 DEF Writes

-----------------------------------------------------------------------------
(***************************************************************************)
(* The layout of a text: Place goes from byte to byte as the cursor does.  *)
(***************************************************************************)
Starts(text) == {0} \cup {k \in 1 .. Len(text) : text[k] = "nl"}
IsBegin(text, k, s) == s \in Starts(text) /\ s < k /\ \A r \in Starts(text) : r < k => r <= s
Begin(text, k) == CHOOSE s \in Starts(text) : s < k /\ \A r \in Starts(text) : r < k => r <= s

LEMMA BeginUnique ==
  ASSUME NEW text \in Seq(Bytes), NEW k \in 1 .. Len(text) + 1, NEW s, IsBegin(text, k, s)
  PROVE  Begin(text, k) = s /\ s \in 0 .. k - 1
<1>1. \A r \in Starts(text) : r \in Nat
  BY DEF Starts
<1> DEFINE b == Begin(text, k)
<1>2. IsBegin(text, k, b)
  BY Zenon DEF IsBegin, Begin
<1> HIDE DEF b
<1>3. b \in Nat /\ s \in Nat /\ b <= s /\ s <= b /\ s < k
  BY <1>1, <1>2, Zenon DEF IsBegin
<1> QED
  BY <1>3 DEF b

LEMMA BeginNext ==
  ASSUME NEW text \in Seq(Bytes)
  PROVE  /\ IsBegin(text, 1, 0)
         /\ \A k \in 1 .. Len(text) : \A s : IsBegin(text, k, s) =>
              /\ text[k] = "nl" => IsBegin(text, k + 1, k)
              /\ text[k] # "nl" => IsBegin(text, k + 1, s)
<1>0. \A r \in Starts(text) : r \in Nat
  BY DEF Starts
<1>1. IsBegin(text, 1, 0)
  BY <1>0 DEF IsBegin, Starts
<1>2. ASSUME NEW k \in 1 .. Len(text), NEW s, IsBegin(text, k, s), text[k] = "nl"
      PROVE  IsBegin(text, k + 1, k)
  <2>1. k \in Starts(text)
    BY <1>2, Zenon DEF Starts
  <2>2. k < k + 1 /\ \A r \in Starts(text) : r < k + 1 => r <= k
    BY <1>0
  <2> QED
    BY <2>1, <2>2, Zenon DEF IsBegin
<1>3. ASSUME NEW k \in 1 .. Len(text), NEW s, IsBegin(text, k, s), text[k] # "nl"
      PROVE  IsBegin(text, k + 1, s)
  <2>1. k \notin Starts(text)
    BY <1>3 DEF Starts
  <2>2. s \in Starts(text) /\ s < k /\ \A r \in Starts(text) : r < k => r <= s
    BY <1>3, Zenon DEF IsBegin
  <2>3. s < k + 1
    BY <1>0, <2>2
  <2>4. \A r \in Starts(text) : r < k + 1 => r < k
    BY <1>0, <2>1
  <2> QED
    BY <2>2, <2>3, <2>4, Zenon DEF IsBegin
<1> QED
  BY <1>1, <1>2, <1>3, Zenon

LEMMA BeginIs ==
  ASSUME NEW text \in Seq(Bytes)
  PROVE  /\ Begin(text, 1) = 0
         /\ \A k \in 1 .. Len(text) + 1 : Begin(text, k) \in 0 .. k - 1
         /\ \A k \in 1 .. Len(text) :
              /\ text[k] = "nl" => Begin(text, k + 1) = k
              /\ text[k] # "nl" => Begin(text, k + 1) = Begin(text, k)
<1> DEFINE n == Len(text)
           S == {k \in 1 .. n + 1 : \E s : IsBegin(text, k, s)}
<1>1. n \in Nat
  OBVIOUS
<1>2. ASSUME NEW k \in 1 .. n + 1, \A j \in 1 .. k - 1 : j \in S PROVE \E s : IsBegin(text, k, s)
  <2>1. CASE k = 1
    BY <2>1, BeginNext, Zenon
  <2>2. CASE k # 1
    <3>1. PICK j \in 1 .. n : k = j + 1 /\ j \in 1 .. k - 1
      <4>1. k - 1 \in 1 .. n /\ k = k - 1 + 1 /\ k - 1 \in 1 .. k - 1
        BY <1>1, <2>2
      <4> HIDE DEF n
      <4> QED
        BY <4>1, Zenon
    <3>2. PICK s : IsBegin(text, j, s)
      BY <1>2, <3>1, Zenon
    <3> QED
      BY <3>1, <3>2, BeginNext, Zenon
  <2> QED
    BY <2>1, <2>2, Zenon
<1>3. 1 .. n + 1 \subseteq S
  <2>1. \A k \in 1 .. n + 1 : (\A j \in 1 .. k - 1 : j \in S) => k \in S
    BY <1>2, Zenon
  <2>2. 1 \in Nat /\ n + 1 \in Nat
    BY <1>1
  <2> HIDE DEF S, n
  <2> QED
    BY <2>1, <2>2, RangeInduction, Zenon
<1>4. \A k \in 1 .. n + 1 : IsBegin(text, k, Begin(text, k)) /\ Begin(text, k) \in 0 .. k - 1
  <2> TAKE k \in 1 .. n + 1
  <2>1. PICK s : IsBegin(text, k, s)
    BY <1>3, Zenon
  <2> QED
    BY <2>1, BeginUnique, Zenon
<1>5. Begin(text, 1) = 0
  <2>1. 1 \in 1 .. n + 1
    BY <1>1
  <2> QED
    BY <2>1, BeginNext, BeginUnique, Zenon
<1>6. \A k \in 1 .. n :
        /\ text[k] = "nl" => Begin(text, k + 1) = k
        /\ text[k] # "nl" => Begin(text, k + 1) = Begin(text, k)
  <2> TAKE k \in 1 .. n
  <2>1. k \in 1 .. n + 1 /\ k + 1 \in 1 .. n + 1
    BY <1>1
  <2>2. IsBegin(text, k, Begin(text, k))
    BY <1>4, <2>1, Zenon
  <2>3. /\ text[k] = "nl" => IsBegin(text, k + 1, k)
        /\ text[k] # "nl" => IsBegin(text, k + 1, Begin(text, k))
    BY <2>2, BeginNext, Zenon
  <2> QED
    BY <2>1, <2>3, BeginUnique, Zenon
<1> QED
  BY <1>4, <1>5, <1>6, Zenon

\* The rows at which the lines begin.
RowsBefore(g, text) ==
  /\ g \in [1 .. Len(text) + 1 -> Nat]
  /\ \A k \in 1 .. Len(text) + 1 :
       /\ Begin(text, k) = 0 => g[k] = 0
       /\ Begin(text, k) # 0 =>
            LET n == Begin(text, k) IN g[k] = g[n] + (n - 1 - Begin(text, n)) \div VGA_WIDTH + 1

LEMMA PlaceIs ==
  ASSUME NEW text \in Seq(Bytes)
  PROVE  \E g : /\ RowsBefore(g, text)
                /\ Place(text) = [k \in 1 .. Len(text) + 1 |->
                     [row |-> g[k] + (k - 1 - Begin(text, k)) \div VGA_WIDTH,
                      col |-> (k - 1 - Begin(text, k)) % VGA_WIDTH]]
<1> DEFINE m == Len(text) + 1
           height(n) == (n - 1 - Begin(text, n)) \div VGA_WIDTH
           row[k \in 1 .. m] ==
             IF Begin(text, k) = 0 THEN 0
             ELSE LET n == Begin(text, k) IN row[n] + (n - 1 - Begin(text, n)) \div VGA_WIDTH + 1
           D == [k \in 2 .. m |-> IF Begin(text, k) = 0 THEN 1 ELSE Begin(text, k)]
           F == [x \in (2 .. m) \X Nat |->
                   IF Begin(text, x[1]) = 0 THEN 0 ELSE x[2] + height(Begin(text, x[1])) + 1]
<1>1. Place(text) = [k \in 1 .. Len(text) + 1 |->
                     [row |-> row[k] + (k - 1 - Begin(text, k)) \div VGA_WIDTH,
                      col |-> (k - 1 - Begin(text, k)) % VGA_WIDTH]]
  BY Zenon DEF Place, Begin, Starts
<1>2. m \in Nat /\ 1 <= m
  OBVIOUS
<1> HIDE DEF m
<1>3. \A k \in 1 .. m : Begin(text, k) \in 0 .. k - 1
  BY BeginIs, Zenon DEF m
<1>4. Begin(text, 1) = 0
  BY BeginIs, Zenon
<1>5. \A k \in 1 .. m : height(k) \in Nat
  <2> TAKE k \in 1 .. m
  <2>1. k - 1 - Begin(text, k) \in Nat
    BY <1>3
  <2> QED
    BY <2>1
<1> HIDE DEF height
<1>6. \A k \in 1 .. m : Begin(text, k) # 0 => Begin(text, k) \in 1 .. k - 1 /\ Begin(text, k) \in 1 .. m
  <2> TAKE k \in 1 .. m
  <2>1. \A b \in 0 .. k - 1 : b # 0 => b \in 1 .. k - 1 /\ b \in 1 .. m
    BY <1>2
  <2> QED
    BY <1>3, <2>1, Zenon
<1>7. F \in [(2 .. m) \X Nat -> Nat]
  <2>1. \A k \in 2 .. m, v \in Nat :
          (IF Begin(text, k) = 0 THEN 0 ELSE v + height(Begin(text, k)) + 1) \in Nat
    BY <1>5, <1>6
  <2> QED
    BY <2>1, Zenon
<1>8. \A k \in 2 .. m : D[k] \in 1 .. k - 1
  BY <1>6
<1>9. PICK g \in [1 .. m -> Nat] : g[1] = 0 /\ \A k \in 2 .. m : g[k] = F[<<k, g[D[k]]>>]
  <2>1. 1 \in Nat /\ 0 \in Nat /\ 1 + 1 = 2
    OBVIOUS
  <2> HIDE DEF D, F
  <2>2. F \in [(1 + 1 .. m) \X Nat -> Nat] /\ \A k \in 1 + 1 .. m : D[k] \in 1 .. k - 1
    BY <1>7, <1>8, <2>1, Zenon
  <2>3. \E g \in [1 .. m -> Nat] : Recursive(g, 1, m, 0, D, F)
    BY <1>2, <2>1, <2>2, RecursiveExists, Zenon
  <2> QED
    BY <2>1, <2>3, Zenon DEF Recursive
<1>10. \A k \in 1 .. m : g[k] = IF Begin(text, k) = 0 THEN 0
                                ELSE g[Begin(text, k)] + height(Begin(text, k)) + 1
  <2> TAKE k \in 1 .. m
  <2>1. CASE k = 1
    BY <1>4, <1>9, <2>1, Zenon
  <2>2. CASE k # 1
    <3>1. k \in 2 .. m
      BY <2>2
    <3>2. D[k] \in 1 .. m
      <4>1. \A d \in 1 .. k - 1 : d \in 1 .. m
        BY <1>2
      <4> QED
        BY <1>8, <3>1, <4>1, Zenon
    <3>3. <<k, g[D[k]]>> \in (2 .. m) \X Nat
      BY <1>9, <3>1, <3>2, Zenon
    <3>4. F[<<k, g[D[k]]>>] = IF Begin(text, k) = 0 THEN 0
                              ELSE g[D[k]] + height(Begin(text, k)) + 1
      BY <3>3
    <3>5. Begin(text, k) # 0 => D[k] = Begin(text, k)
      BY <3>1, Zenon
    <3> HIDE DEF D, F
    <3> QED
      BY <1>9, <3>1, <3>4, <3>5, Zenon
  <2> QED
    BY <2>1, <2>2, Zenon
<1>11. g = [k \in 1 .. m |->
              IF Begin(text, k) = 0 THEN 0
              ELSE LET n == Begin(text, k) IN g[n] + (n - 1 - Begin(text, n)) \div VGA_WIDTH + 1]
  BY <1>9, <1>10, Zenon DEF height
<1>12. row = [k \in 1 .. m |->
              IF Begin(text, k) = 0 THEN 0
              ELSE LET n == Begin(text, k) IN row[n] + (n - 1 - Begin(text, n)) \div VGA_WIDTH + 1]
  BY <1>11, Zenon
<1> HIDE DEF row
<1>13. /\ row = [k \in 1 .. m |-> row[k]]
       /\ \A k \in 1 .. m :
            /\ Begin(text, k) = 0 => row[k] = 0
            /\ Begin(text, k) # 0 => row[k] = row[Begin(text, k)] + height(Begin(text, k)) + 1
  BY <1>12, Zenon DEF height
<1>14. 1 .. m \subseteq {k \in 1 .. m : row[k] \in Nat}
  <2> DEFINE S == {k \in 1 .. m : row[k] \in Nat}
  <2>1. ASSUME NEW k \in 1 .. m, \A j \in 1 .. k - 1 : j \in S PROVE k \in S
    <3>1. CASE Begin(text, k) = 0
      <4>1. row[k] = 0
        BY <1>13, <3>1, Zenon
      <4> QED
        BY <4>1
    <3>2. CASE Begin(text, k) # 0
      <4>1. row[Begin(text, k)] \in Nat
        BY <1>6, <2>1, <3>2, Zenon
      <4>2. height(Begin(text, k)) \in Nat
        BY <1>5, <1>6, <3>2, Zenon
      <4>3. row[k] = row[Begin(text, k)] + height(Begin(text, k)) + 1
        BY <1>13, <3>2, Zenon
      <4> QED
        BY <4>1, <4>2, <4>3
    <3> QED
      BY <3>1, <3>2, Zenon
  <2> HIDE DEF S
  <2>2. 1 .. m \subseteq S
    BY <1>2, <2>1, RangeInduction, Zenon
  <2> QED
    BY <2>2, Zenon DEF S
<1>15. row \in [1 .. m -> Nat]
  BY <1>13, <1>14, Zenon
<1>16. RowsBefore(row, text)
  BY <1>13, <1>15, Zenon DEF RowsBefore, height, m
<1> QED
  BY <1>1, <1>16, Zenon


LEMMA DivisionStep ==
  ASSUME NEW d \in Nat
  PROVE  /\ d \div VGA_WIDTH \in Nat /\ d % VGA_WIDTH \in Columns
         /\ d % VGA_WIDTH = VGA_WIDTH - 1 =>
              (d + 1) \div VGA_WIDTH = d \div VGA_WIDTH + 1 /\ (d + 1) % VGA_WIDTH = 0
         /\ d % VGA_WIDTH # VGA_WIDTH - 1 =>
              (d + 1) \div VGA_WIDTH = d \div VGA_WIDTH /\ (d + 1) % VGA_WIDTH = (d % VGA_WIDTH) + 1
         /\ 0 \div VGA_WIDTH = 0 /\ 0 % VGA_WIDTH = 0
<1> DEFINE W == VGA_WIDTH
           q == d \div W
           r == d % W
<1>1. q \in Nat /\ r \in 0 .. W - 1
  OBVIOUS
<1>2. d = W * q + r
  OBVIOUS
<1>3. \A q1 \in Nat, r1 \in 0 .. W - 1, d1 \in Nat : d1 = W * q1 + r1 => d1 \div W = q1 /\ d1 % W = r1
  OBVIOUS
<1>4. W * (q + 1) = W * q + W
  BY <1>1
<1>5. W * q \in Nat
  BY <1>1
<1> HIDE DEF q, r
<1>6. ASSUME r = W - 1 PROVE (d + 1) \div W = q + 1 /\ (d + 1) % W = 0
  <2>1. d + 1 = W * (q + 1) + 0 /\ d + 1 \in Nat /\ q + 1 \in Nat /\ 0 \in 0 .. W - 1
    BY <1>1, <1>2, <1>4, <1>5, <1>6
  <2> QED
    BY <1>3, <2>1, SMTT(40)
<1>7. ASSUME r # W - 1 PROVE (d + 1) \div W = q /\ (d + 1) % W = r + 1
  <2>1. d + 1 = W * q + (r + 1) /\ d + 1 \in Nat /\ r + 1 \in 0 .. W - 1
    BY <1>1, <1>2, <1>5, <1>7, SMTT(40)
  <2> QED
    BY <1>1, <1>3, <2>1, Zenon
<1>8. 0 \div W = 0 /\ 0 % W = 0
  OBVIOUS
<1> QED
  BY <1>1, <1>6, <1>7, <1>8, Zenon DEF q, r, Columns

Spots == [row : Nat, col : Columns]
\* The place after p for a byte b at p.
NextSpot(p, b, q) ==
  /\ b = "nl" \/ p.col = VGA_WIDTH - 1 => q.row = p.row + 1 /\ q.col = 0
  /\ ~ (b = "nl" \/ p.col = VGA_WIDTH - 1) => q.row = p.row /\ q.col = p.col + 1
Laid(p, text) ==
  /\ p \in [1 .. Len(text) + 1 -> Spots]
  /\ p[1].row = 0 /\ p[1].col = 0
  /\ \A k \in 1 .. Len(text) : NextSpot(p[k], text[k], p[k + 1])

LEMMA PlaceLaid ==
  ASSUME NEW text \in Seq(Bytes)
  PROVE  Laid(Place(text), text)
<1> DEFINE m == Len(text) + 1
           p == Place(text)
           off(k) == k - 1 - Begin(text, k)
<1>1. PICK g : /\ RowsBefore(g, text)
               /\ p = [k \in 1 .. m |-> [row |-> g[k] + off(k) \div VGA_WIDTH,
                                         col |-> off(k) % VGA_WIDTH]]
  BY PlaceIs, Zenon
<1> HIDE DEF p
<1>2. m \in Nat /\ 1 <= m /\ 1 \in 1 .. m
      /\ \A k \in 1 .. Len(text) : k \in 1 .. m /\ k + 1 \in 1 .. m
  OBVIOUS
<1>3. \A k \in 1 .. m : Begin(text, k) \in 0 .. k - 1
  BY BeginIs, Zenon
<1>4. \A k \in 1 .. m : off(k) \in Nat
  BY <1>3, SMTT(40)
<1>5. \A k \in 1 .. m : g[k] \in Nat
  BY <1>1, Zenon DEF RowsBefore
<1>6. \A k \in 1 .. m : p[k].row = g[k] + off(k) \div VGA_WIDTH /\ p[k].col = off(k) % VGA_WIDTH
  <2> HIDE DEF off
  <2> QED
    BY <1>1, Zenon
<1>7. p \in [1 .. m -> Spots]
  <2>1. \A k \in 1 .. m : g[k] + off(k) \div VGA_WIDTH \in Nat /\ off(k) % VGA_WIDTH \in Columns
    <3> TAKE k \in 1 .. m
    <3> HIDE DEF off
    <3>1. off(k) \div VGA_WIDTH \in Nat /\ off(k) % VGA_WIDTH \in Columns
      BY <1>4, DivisionStep, Zenon
    <3> QED
      BY <1>5, <3>1
  <2> HIDE DEF off, m
  <2>2. \A k \in 1 .. m : [row |-> g[k] + off(k) \div VGA_WIDTH, col |-> off(k) % VGA_WIDTH] \in Spots
    BY <2>1, Zenon DEF Spots
  <2> QED
    BY <1>1, <2>2, Zenon
<1>8. p[1].row = 0 /\ p[1].col = 0
  <2>1. off(1) = 0 /\ g[1] = 0
    BY <1>1, <1>2, BeginIs DEF RowsBefore
  <2>2. p[1].row = 0 + 0 \div VGA_WIDTH /\ p[1].col = 0 % VGA_WIDTH
    <3> HIDE DEF off, m
    <3> QED
      BY <1>2, <1>6, <2>1, Zenon
  <2> QED
    BY <2>2, SMTT(40)
<1>9. ASSUME NEW k \in 1 .. Len(text) PROVE NextSpot(p[k], text[k], p[k + 1])
  <2>1. k \in 1 .. m /\ k + 1 \in 1 .. m /\ k # 0 /\ k \in Nat
    BY <1>2
  <2> DEFINE s == Begin(text, k)
             d == off(k)
  <2>2. s \in 0 .. k - 1 /\ d = k - 1 - s /\ d \in Nat
    BY <1>3, <1>4, <2>1, Zenon
  <2>3. CASE text[k] = "nl"
    <3>1. Begin(text, k + 1) = k
      BY <2>3, BeginIs, Zenon
    <3>2. off(k + 1) = 0
      BY <2>1, <3>1
    <3>3. g[k + 1] = g[k] + d \div VGA_WIDTH + 1
      <4> HIDE DEF m
      <4> QED
        BY <1>1, <2>1, <3>1, Zenon DEF RowsBefore, m
    <3> HIDE DEF off, m, s, d
    <3>4. p[k + 1].row = g[k + 1] + 0 \div VGA_WIDTH /\ p[k + 1].col = 0 % VGA_WIDTH
      BY <1>6, <2>1, <3>2, Zenon
    <3>5. p[k].row = g[k] + d \div VGA_WIDTH
      BY <1>6, <2>1, Zenon DEF d
    <3>6. d \div VGA_WIDTH \in Nat /\ g[k] \in Nat /\ 0 \div VGA_WIDTH = 0 /\ 0 % VGA_WIDTH = 0
      BY <1>5, <2>1, <2>2, DivisionStep, ZenonT(40)
    <3>7. p[k + 1].row = p[k].row + 1 /\ p[k + 1].col = 0
      BY <3>3, <3>4, <3>5, <3>6, SMTT(40)
    <3> QED
      BY <2>3, <3>7, Zenon DEF NextSpot
  <2>4. CASE text[k] # "nl"
    <3>1. Begin(text, k + 1) = s
      BY <2>4, BeginIs, Zenon
    <3>2. off(k + 1) = d + 1
      BY <2>1, <2>2, <3>1
    <3>3. g[k + 1] = g[k]
      <4> HIDE DEF m
      <4> QED
        BY <1>1, <2>1, <3>1, Zenon DEF RowsBefore, m
    <3> HIDE DEF off, m, s, d
    <3>4. p[k + 1].row = g[k] + (d + 1) \div VGA_WIDTH /\ p[k + 1].col = (d + 1) % VGA_WIDTH
      BY <1>6, <2>1, <3>2, <3>3, Zenon
    <3>5. p[k].row = g[k] + d \div VGA_WIDTH /\ p[k].col = d % VGA_WIDTH
      BY <1>6, <2>1, Zenon DEF d
    <3>6. d \div VGA_WIDTH \in Nat /\ g[k] \in Nat
      BY <1>5, <2>1, <2>2, DivisionStep, Zenon
    <3>7. CASE p[k].col = VGA_WIDTH - 1
      <4>1. (d + 1) \div VGA_WIDTH = d \div VGA_WIDTH + 1 /\ (d + 1) % VGA_WIDTH = 0
        BY <2>2, <3>5, <3>7, DivisionStep, ZenonT(40)
      <4>2. p[k + 1].row = p[k].row + 1 /\ p[k + 1].col = 0
        BY <3>4, <3>5, <3>6, <4>1, SMTT(40)
      <4> QED
        BY <3>7, <4>2, Zenon DEF NextSpot
    <3>8. CASE p[k].col # VGA_WIDTH - 1
      <4>1. (d + 1) \div VGA_WIDTH = d \div VGA_WIDTH /\ (d + 1) % VGA_WIDTH = (d % VGA_WIDTH) + 1
        BY <2>2, <3>5, <3>8, DivisionStep, Zenon
      <4>2. p[k + 1].row = p[k].row /\ p[k + 1].col = p[k].col + 1
        BY <3>4, <3>5, <4>1, Zenon
      <4> QED
        BY <2>4, <3>8, <4>2, Zenon DEF NextSpot
    <3> QED
      BY <3>7, <3>8, Zenon
  <2> QED
    BY <2>3, <2>4, Zenon
<1> QED
  BY <1>7, <1>8, <1>9, Zenon DEF Laid, p


Agree(p, q, m) == \A k \in 1 .. m : p[k] = q[k]

\* Texts that begin alike are laid out alike.
LEMMA LaidAgree ==
  ASSUME NEW t \in Seq(Bytes), NEW b \in Bytes, NEW p, NEW q, Laid(p, t), Laid(q, Append(t, b))
  PROVE  Agree(p, q, Len(t) + 1)
<1> DEFINE m == Len(t) + 1
           T == Append(t, b)
           S == {k \in 1 .. m : p[k] = q[k]}
<1>1. m \in Nat /\ Len(T) = m /\ \A k \in 1 .. Len(t) : T[k] = t[k]
  BY SMTT(40)
<1>2. \A k \in 1 .. m : p[k] \in Spots /\ q[k] \in Spots
  <2>1. q \in [1 .. m + 1 -> Spots] /\ p \in [1 .. m -> Spots]
    BY <1>1, Zenon DEF Laid
  <2> QED
    BY <1>1, <2>1
<1>3. \A a, c \in Spots : a.row = c.row /\ a.col = c.col => a = c
  BY DEF Spots
<1>4. ASSUME NEW k \in 1 .. m, \A j \in 1 .. k - 1 : j \in S PROVE k \in S
  <2>1. CASE k = 1
    <3>1. p[1].row = 0 /\ p[1].col = 0 /\ q[1].row = 0 /\ q[1].col = 0
      BY Zenon DEF Laid
    <3> QED
      BY <1>2, <1>3, <2>1, <3>1, Zenon
  <2>2. CASE k # 1
    <3> DEFINE j == k - 1
    <3>1. j \in 1 .. Len(t) /\ j \in 1 .. k - 1 /\ j + 1 = k /\ j \in 1 .. Len(T)
      BY <1>1, <2>2
    <3> HIDE DEF j, T
    <3>2. p[j] = q[j] /\ T[j] = t[j]
      BY <1>1, <1>4, <3>1, Zenon
    <3>3. NextSpot(p[j], t[j], p[k]) /\ NextSpot(p[j], t[j], q[k])
      BY <3>1, <3>2, Zenon DEF Laid, T
    <3>4. p[k].row = q[k].row /\ p[k].col = q[k].col
      BY <3>3, Zenon DEF NextSpot
    <3> QED
      BY <1>2, <1>3, <3>4, Zenon
  <2> QED
    BY <2>1, <2>2, Zenon
<1>5. m \in Nat /\ 1 \in Nat
  OBVIOUS
<1>6. \A k \in 1 .. m : (\A j \in 1 .. k - 1 : j \in S) => k \in S
  BY <1>4, Zenon
<1> HIDE DEF S, T, m
<1>7. 1 .. m \subseteq S
  BY <1>5, <1>6, RangeInduction, Zenon
<1> QED
  BY <1>7, Zenon DEF S, m, Agree

Before(a, c) == a.row < c.row \/ (a.row = c.row /\ a.col < c.col)

\* The places of a text are all different, each after those before it.
LEMMA LaidOrder ==
  ASSUME NEW t \in Seq(Bytes), NEW p, Laid(p, t)
  PROVE  \A k \in 1 .. Len(t) + 1 : \A j \in 1 .. k - 1 : Before(p[j], p[k])
<1> DEFINE m == Len(t) + 1
           S == {k \in 1 .. m : \A j \in 1 .. k - 1 : Before(p[j], p[k])}
<1>1. m \in Nat
  OBVIOUS
<1>2. \A k \in 1 .. m : p[k] \in Spots
  BY Zenon DEF Laid
<1>3. \A a \in Spots : a.row \in Nat /\ a.col \in Nat
  BY DEF Spots, Columns
<1>4. \A a, c, d \in Spots : Before(a, c) /\ Before(c, d) => Before(a, d)
  BY <1>3 DEF Before
<1>5. \A a, c \in Spots : \A x : NextSpot(a, x, c) => Before(a, c)
  BY <1>3 DEF Before, NextSpot
<1>6. ASSUME NEW k \in 1 .. m, \A j \in 1 .. k - 1 : j \in S
      PROVE  \A j \in 1 .. k - 1 : Before(p[j], p[k])
  <2> TAKE j \in 1 .. k - 1
  <2> DEFINE i == k - 1
  <2>1. i \in 1 .. Len(t) /\ i + 1 = k /\ i \in 1 .. k - 1 /\ i \in 1 .. m /\ j \in 1 .. m
    BY <1>1
  <2>2. j = i \/ j \in 1 .. i - 1
    BY <2>1
  <2> HIDE DEF i
  <2>3. Before(p[i], p[k])
    <3>1. NextSpot(p[i], t[i], p[k])
      BY <2>1, Zenon DEF Laid
    <3> QED
      BY <1>2, <1>5, <2>1, <3>1, Zenon
  <2>4. j \in 1 .. i - 1 => Before(p[j], p[i])
    BY <1>6, <2>1, Zenon
  <2> QED
    BY <1>2, <1>4, <2>1, <2>2, <2>3, <2>4, Zenon
<1>7. \A k \in 1 .. m : (\A j \in 1 .. k - 1 : j \in S) => k \in S
  BY <1>6, Zenon
<1> HIDE DEF S
<1>8. 1 .. m \subseteq S
  BY <1>1, <1>7, RangeInduction, ZenonT(40)
<1> QED
  BY <1>8, Zenon DEF S

\* The screen s shows the first n bytes of the text t from row top on.
On(p, t, top, k, y, x) == p[k].row = top + y /\ p[k].col = x /\ t[k] # "nl"
CellShows(s, p, t, top, n, y, x) ==
  /\ \A k \in 1 .. n : On(p, t, top, k, y, x) => s[y][x] = t[k]
  /\ (\A k \in 1 .. n : ~ On(p, t, top, k, y, x)) => s[y][x] = "nul"
Painted(s, p, t, top, n) == \A y \in Rows, x \in Columns : CellShows(s, p, t, top, n, y, x)

LEMMA PaintChar ==
  ASSUME NEW s \in Screens, NEW t \in Seq(Bytes), NEW p, Laid(p, t), NEW top \in Nat,
         NEW n \in Nat, n + 1 \in 1 .. Len(t), Painted(s, p, t, top, n),
         NEW y0 \in Rows, NEW x0 \in Columns,
         p[n + 1].row = top + y0, p[n + 1].col = x0, t[n + 1] # "nl"
  PROVE  Painted(Written(s, x0, y0, t[n + 1]), p, t, top, n + 1)
<1> DEFINE w == Written(s, x0, y0, t[n + 1])
<1>1. Differs(w, s, x0, y0, t[n + 1])
  BY CellsOf, Zenon
<1> HIDE DEF w
<1>2. \A k \in 1 .. n + 1 : k = n + 1 \/ k \in 1 .. n
  OBVIOUS
<1>3. \A k \in 1 .. n : k \in 1 .. n + 1 /\ k \in 1 .. Len(t)
  OBVIOUS
<1>4. n + 1 \in 1 .. n + 1
  OBVIOUS
<1>5. ASSUME NEW y \in Rows, NEW x \in Columns PROVE CellShows(w, p, t, top, n + 1, y, x)
  <2>1. CellShows(s, p, t, top, n, y, x)
    BY Zenon DEF Painted
  <2>2. CASE y = y0 /\ x = x0
    <3>1. w[y][x] = t[n + 1]
      BY <1>1, <2>2, Zenon DEF Differs
    <3>2. On(p, t, top, n + 1, y, x)
      BY <2>2, ZenonT(40) DEF On
    <3>3. \A k \in 1 .. n : ~ On(p, t, top, k, y, x)
      <4> SUFFICES ASSUME NEW k \in 1 .. n, On(p, t, top, k, y, x) PROVE FALSE
        BY ZenonT(40)
      <4>1. Before(p[k], p[n + 1])
        <5> DEFINE i == n + 1
        <5>1. i \in 1 .. Len(t) + 1 /\ k \in 1 .. i - 1
          OBVIOUS
        <5> HIDE DEF i
        <5>2. Before(p[k], p[i])
          BY <5>1, LaidOrder, Zenon
        <5> QED
          BY <5>2, Zenon DEF i
      <4>2. p[k].row = top + y0 /\ p[k].col = x0
        BY <2>2, Zenon DEF On
      <4>3. top + y0 < top + y0 \/ x0 < x0
        BY <4>1, <4>2, ZenonT(40) DEF Before
      <4>4. top + y0 \in Nat /\ x0 \in Nat
        BY DEF Rows, Columns
      <4> QED
        BY <4>3, <4>4
    <3>4. \A k \in 1 .. n + 1 : On(p, t, top, k, y, x) => w[y][x] = t[k]
      BY <1>2, <3>1, <3>3, Zenon
    <3> QED
      BY <1>4, <3>2, <3>4, Zenon DEF CellShows
  <2>3. CASE ~ (y = y0 /\ x = x0)
    <3>1. w[y][x] = s[y][x]
      BY <1>1, <2>3, Zenon DEF Differs
    <3>2. ~ On(p, t, top, n + 1, y, x)
      <4>1. top + y = top + y0 => y = y0
        BY DEF Rows
      <4> QED
        BY <2>3, <4>1, ZenonT(40) DEF On
    <3>3. \A k \in 1 .. n + 1 : On(p, t, top, k, y, x) => k \in 1 .. n
      BY <1>2, <3>2, Zenon
    <3>4. \A k \in 1 .. n + 1 : On(p, t, top, k, y, x) => w[y][x] = t[k]
      BY <2>1, <3>1, <3>3, Zenon DEF CellShows
    <3>5. (\A k \in 1 .. n + 1 : ~ On(p, t, top, k, y, x)) => w[y][x] = "nul"
      BY <1>3, <2>1, <3>1, Zenon DEF CellShows
    <3> QED
      BY <3>4, <3>5, Zenon DEF CellShows
  <2> QED
    BY <2>2, <2>3, Zenon
<1> QED
  BY <1>5, Zenon DEF Painted, w

LEMMA PaintNothing ==
  ASSUME NEW s \in Screens, NEW t \in Seq(Bytes), NEW p, NEW top \in Nat,
         NEW n \in Nat, Painted(s, p, t, top, n), t[n + 1] = "nl"
  PROVE  Painted(s, p, t, top, n + 1)
<1>1. \A k \in 1 .. n + 1 : k = n + 1 \/ k \in 1 .. n
  OBVIOUS
<1>2. \A k \in 1 .. n : k \in 1 .. n + 1
  OBVIOUS
<1>3. ASSUME NEW y \in Rows, NEW x \in Columns PROVE CellShows(s, p, t, top, n + 1, y, x)
  <2>1. CellShows(s, p, t, top, n, y, x)
    BY Zenon DEF Painted
  <2>2. \A k \in 1 .. n + 1 : On(p, t, top, k, y, x) => k \in 1 .. n
    BY <1>1, Zenon DEF On
  <2>3. \A k \in 1 .. n + 1 : On(p, t, top, k, y, x) => s[y][x] = t[k]
    BY <2>1, <2>2, Zenon DEF CellShows
  <2>4. (\A k \in 1 .. n + 1 : ~ On(p, t, top, k, y, x)) => s[y][x] = "nul"
    BY <1>2, <2>1, Zenon DEF CellShows
  <2> QED
    BY <2>3, <2>4, Zenon DEF CellShows
<1> QED
  BY <1>3, Zenon DEF Painted

LEMMA PaintScrolled ==
  ASSUME NEW s \in Screens, NEW t \in Seq(Bytes), NEW p, Laid(p, t), NEW top \in Nat,
         NEW n \in Nat, n + 1 \in 1 .. Len(t) + 1, Painted(s, p, t, top, n),
         \A k \in 1 .. n : p[k].row < top + VGA_HEIGHT
  PROVE  Painted(Scrolled(s), p, t, top + 1, n)
<1>1. \A k \in 1 .. n : p[k].row \in Nat
  <2>1. \A k \in 1 .. n : k \in 1 .. Len(t) + 1
    OBVIOUS
  <2>2. \A a \in Spots : a.row \in Nat
    BY Zenon DEF Spots
  <2> QED
    BY <2>1, <2>2, Zenon DEF Laid
<1>2. ASSUME NEW y \in Rows, NEW x \in Columns PROVE CellShows(Scrolled(s), p, t, top + 1, n, y, x)
  <2>1. CASE y + 1 \in Rows
    <3>1. Scrolled(s)[y] = s[y + 1]
      BY <2>1, RowsOf, Zenon
    <3>2. CellShows(s, p, t, top, n, y + 1, x)
      BY <2>1, Zenon DEF Painted
    <3>3. top + 1 + y = top + (y + 1)
      BY DEF Rows
    <3>4. \A k \in 1 .. n : On(p, t, top + 1, k, y, x) <=> On(p, t, top, k, y + 1, x)
      BY <3>3, Zenon DEF On
    <3> QED
      BY <3>1, <3>2, <3>4, Zenon DEF CellShows
  <2>2. CASE y + 1 \notin Rows
    <3>1. y = VGA_HEIGHT - 1 /\ ~ (y < VGA_HEIGHT - 1)
      BY <2>2, SMTT(40) DEF Rows
    <3>2. Scrolled(s)[y] = BlankRow
      BY <3>1, Zenon DEF Scrolled
    <3>3. Scrolled(s)[y][x] = "nul"
      BY <3>2, Zenon DEF BlankRow
    <3>4. \A k \in 1 .. n : p[k].row # top + 1 + y
      BY <1>1, <3>1
    <3>5. \A k \in 1 .. n : ~ On(p, t, top + 1, k, y, x)
      BY <3>4, Zenon DEF On
    <3> QED
      BY <3>3, <3>5, Zenon DEF CellShows
  <2> QED
    BY <2>1, <2>2, Zenon
<1> QED
  BY <1>2, Zenon DEF Painted


\* The console c shows the text t: the cursor is at its end, and the rows are
\* the last ones of its layout.
IsTop(top, row) ==
  /\ row < VGA_HEIGHT => top = 0
  /\ ~ (row < VGA_HEIGHT) => top = row - VGA_HEIGHT + 1
ShowsFrom(c, t, p, top) ==
  /\ top \in Nat /\ IsTop(top, p[Len(t) + 1].row)
  /\ c.x = p[Len(t) + 1].col /\ c.y = p[Len(t) + 1].row - top
  /\ Painted(c.screen, p, t, top, Len(t))
Shown(c, t) == \E top : ShowsFrom(c, t, Place(t), top)

LEMMA TopStep ==
  ASSUME NEW row \in Nat, NEW top \in Nat, NEW y \in Rows, IsTop(top, row), row = top + y
  PROVE  /\ y = VGA_HEIGHT - 1 => IsTop(top + 1, row + 1)
         /\ y # VGA_HEIGHT - 1 => IsTop(top, row + 1)
BY DEF IsTop, Rows

LEMMA FieldsOf ==
  ASSUME NEW c, NEW s, NEW x, NEW y, c = ConsoleAt(s, x, y)
  PROVE  c.screen = s /\ c.x = x /\ c.y = y
BY ConsoleFields

\* ConsoleAt(s, x, y) shows t from row top on.
Fits(s, x, y, top, p, t, n) ==
  /\ top \in Nat /\ IsTop(top, p[n + 1].row)
  /\ x = p[n + 1].col /\ y = p[n + 1].row - top
  /\ Painted(s, p, t, top, n)

LEMMA FitsShown ==
  ASSUME NEW t, NEW s, NEW x, NEW y, NEW top, Fits(s, x, y, top, Place(t), t, Len(t))
  PROVE  Shown(ConsoleAt(s, x, y), t)
<1> DEFINE c == ConsoleAt(s, x, y)
<1>1. c.screen = s /\ c.x = x /\ c.y = y
  BY FieldsOf
<1> HIDE DEF c
<1>2. ShowsFrom(c, t, Place(t), top)
  BY <1>1, Zenon DEF ShowsFrom, Fits
<1> QED
  BY <1>2, Zenon DEF Shown, c

LEMMA ShownByte ==
  ASSUME NEW c \in Consoles, NEW t \in Seq(Bytes), NEW b \in Bytes, Shown(c, t)
  PROVE  Shown(write_byte(c, b), Append(t, b))
<1> DEFINE n == Len(t)
           T == Append(t, b)
           p == Place(t)
           q == Place(T)
<1>1. n \in Nat /\ T \in Seq(Bytes) /\ Len(T) = n + 1 /\ T[n + 1] = b /\ \A k \in 1 .. n : T[k] = t[k]
  OBVIOUS
<1>2. Laid(p, t) /\ Laid(q, T)
  BY <1>1, PlaceLaid, Zenon
<1>3. PICK top : ShowsFrom(c, t, p, top)
  BY Zenon DEF Shown
<1> HIDE DEF p, q
<1>4. \A k \in 1 .. n + 1 : p[k] = q[k]
  <2>1. Agree(p, q, n + 1)
    BY <1>2, LaidAgree, Zenon
  <2> QED
    BY <2>1, Zenon DEF Agree
<1> HIDE DEF T
<1>5. PICK s \in Screens, x \in Columns, y \in Rows : c = ConsoleAt(s, x, y)
  BY ConsoleParts, Zenon
<1>6. c.screen = s /\ c.x = x /\ c.y = y
  BY <1>5, FieldsOf, SMTT(40)
<1> DEFINE e == q[n + 1]
           f == q[n + 2]
<1>7. n + 1 \in 1 .. n + 1 /\ n + 1 \in 1 .. n + 2 /\ n + 2 \in 1 .. n + 2
  BY <1>1
<1>8. e \in Spots /\ f \in Spots
  <2>1. q \in [1 .. n + 2 -> Spots]
    <3>1. Len(T) + 1 = n + 2
      BY <1>1
    <3> QED
      BY <1>2, <3>1, Zenon DEF Laid
  <2> QED
    BY <1>7, <2>1, Zenon
<1>9. NextSpot(e, b, f)
  <2>1. n + 1 \in 1 .. Len(T) /\ n + 1 + 1 = n + 2
    BY <1>1
  <2> QED
    BY <1>1, <1>2, <2>1, ZenonT(40) DEF Laid
<1>10. top \in Nat /\ IsTop(top, e.row) /\ x = e.col /\ y = e.row - top
  BY <1>3, <1>4, <1>6, <1>7, ZenonT(40) DEF ShowsFrom
<1>11. e.row \in Nat /\ e.col \in Columns /\ f.row \in Nat /\ f.col \in Columns /\ e.row = top + y
  <2> HIDE DEF e, f
  <2>1. e.row \in Nat /\ e.col \in Columns /\ f.row \in Nat /\ f.col \in Columns
    BY <1>8, Zenon DEF Spots
  <2> QED
    BY <1>10, <2>1, SMTT(40)
<1>12. Painted(s, q, T, top, n)
  <2>1. Painted(s, p, t, top, n)
    BY <1>3, <1>6, Zenon DEF ShowsFrom
  <2>2. \A k \in 1 .. n : p[k] = q[k] /\ T[k] = t[k]
    <3>1. \A k \in 1 .. n : k \in 1 .. n + 1
      BY <1>1
    <3> QED
      BY <1>1, <1>4, <3>1, ZenonT(40)
  <2>3. ASSUME NEW j \in Rows, NEW i \in Columns PROVE CellShows(s, q, T, top, n, j, i)
    <3>1. CellShows(s, p, t, top, n, j, i)
      BY <2>1, Zenon DEF Painted
    <3>2. \A k \in 1 .. n : On(p, t, top, k, j, i) <=> On(q, T, top, k, j, i)
      BY <2>2, Zenon DEF On
    <3> QED
      BY <2>2, <3>1, <3>2, Zenon DEF CellShows
  <2> QED
    BY <2>3, Zenon DEF Painted
<1> DEFINE w == IF b = "nl" THEN s ELSE Written(s, x, y, b)
<1>13. w \in Screens /\ Scrolled(w) \in Screens
  <2>1. b \in Cells
    BY Zenon DEF Cells
  <2>2. Written(s, x, y, b) \in Screens
    BY <2>1, ScreenTypes, Zenon
  <2>3. w \in Screens
    BY <2>2, Zenon
  <2> QED
    BY <2>3, ScreenTypes, Zenon
<1>14. Painted(w, q, T, top, n + 1)
  <2>1. CASE b = "nl"
    <3>1. Painted(s, q, T, top, n + 1)
      BY <1>1, <1>10, <1>12, <2>1, PaintNothing, ZenonT(40)
    <3> QED
      BY <2>1, <3>1, Zenon
  <2>2. CASE b # "nl"
    <3>1. n + 1 \in 1 .. Len(T)
      BY <1>1
    <3>2. Painted(Written(s, x, y, T[n + 1]), q, T, top, n + 1)
      BY <1>1, <1>2, <1>10, <1>11, <1>12, <2>2, <3>1, PaintChar, ZenonT(40)
    <3> QED
      BY <1>1, <2>2, <3>2, Zenon
  <2> QED
    BY <2>1, <2>2, Zenon
<1>15. \A k \in 1 .. n + 1 : q[k].row < top + VGA_HEIGHT
  <2> TAKE k \in 1 .. n + 1
  <2> DEFINE a == q[k]
  <2>1. a = e \/ Before(a, e)
    <3> DEFINE i == n + 1
    <3>1. (k = i \/ k \in 1 .. i - 1) /\ i \in 1 .. Len(T) + 1
      BY <1>1
    <3> HIDE DEF i
    <3>2. k = i \/ Before(q[k], q[i])
      BY <1>1, <1>2, <3>1, LaidOrder, Zenon
    <3> QED
      BY <3>2, Zenon DEF i
  <2>2. a.row \in Nat
    <3>1. k \in 1 .. Len(T) + 1
      BY <1>1
    <3>2. a \in Spots
      BY <1>2, <3>1, Zenon DEF Laid
    <3> HIDE DEF a
    <3> QED
      BY <3>2, Zenon DEF Spots
  <2> HIDE DEF a, e, f
  <2>3. a.row = e.row \/ a.row < e.row
    BY <2>1, Zenon DEF Before
  <2>4. e.row < top + VGA_HEIGHT
    BY <1>10, <1>11, SMTT(40) DEF Rows
  <2>5. a.row < top + VGA_HEIGHT
    BY <1>10, <1>11, <2>2, <2>3, <2>4, SMTT(40)
  <2> QED
    BY <2>5, Zenon DEF a
<1> DEFINE d == write_byte(c, b)
<1>16. d = IF b = "nl" THEN newline(ConsoleAt(w, x, y))
           ELSE IF x = VGA_WIDTH - 1 THEN newline(ConsoleAt(w, x + 1, y))
           ELSE ConsoleAt(w, x + 1, y)
  <2>1. CASE b = "nl"
    BY <1>5, <2>1, Zenon DEF write_byte
  <2>2. CASE b # "nl"
    <3>1. d = put_char(ConsoleAt(s, x, y), b) /\ w = Written(s, x, y, b)
      BY <1>5, <2>2, Zenon DEF write_byte
    <3> HIDE DEF w, d
    <3>2. put_char(ConsoleAt(s, x, y), b)
            = IF x = VGA_WIDTH - 1 THEN newline(ConsoleAt(Written(s, x, y, b), x + 1, y))
              ELSE ConsoleAt(Written(s, x, y, b), x + 1, y)
      BY PutCharIs, ZenonT(40)
    <3> QED
      BY <2>2, <3>1, <3>2, Zenon
  <2> QED
    BY <2>1, <2>2, Zenon
<1> HIDE DEF d, w, e, f
<1>17. ASSUME NEW s2, NEW x2, NEW y2, NEW top2, Fits(s2, x2, y2, top2, q, T, n + 1)
       PROVE  Shown(ConsoleAt(s2, x2, y2), T)
  BY <1>1, <1>17, FitsShown, Zenon DEF q
<1>20. n + 1 + 1 = n + 2
  BY <1>1
<1>18. CASE b # "nl" /\ x # VGA_WIDTH - 1
  <2>1. d = ConsoleAt(w, x + 1, y)
    BY <1>16, <1>18, Zenon
  <2>2. f.row = e.row /\ f.col = x + 1
    BY <1>9, <1>10, <1>18, Zenon DEF NextSpot
  <2>3. Fits(w, x + 1, y, top, q, T, n + 1)
    BY <1>10, <1>14, <1>20, <2>2, Zenon DEF Fits, f
  <2>4. Shown(ConsoleAt(w, x + 1, y), T)
    BY <1>17, <2>3, Zenon
  <2> QED
    BY <2>1, <2>4, Zenon DEF d, T
<1>19. CASE b = "nl" \/ x = VGA_WIDTH - 1
  <2>1. PICK z \in 0 .. VGA_WIDTH : d = newline(ConsoleAt(w, z, y))
    <3>1. x \in 0 .. VGA_WIDTH /\ x + 1 \in 0 .. VGA_WIDTH
      BY DEF Columns
    <3> QED
      BY <1>16, <1>19, <3>1, Zenon
  <2>2. f.row = e.row + 1 /\ f.col = 0
    BY <1>9, <1>10, <1>19, Zenon DEF NextSpot
  <2>3. newline(ConsoleAt(w, z, y))
           = IF y = VGA_HEIGHT - 1 THEN ConsoleAt(Scrolled(w), 0, VGA_HEIGHT - 1)
             ELSE ConsoleAt(w, 0, y + 1)
    BY NewlineIs, Zenon
  <2> DEFINE r == e.row
  <2>6. r \in Nat /\ top \in Nat /\ IsTop(top, r) /\ r = top + y
    BY <1>10, <1>11, Zenon
  <2>7. f.row = r + 1
    BY <2>2, Zenon
  <2> HIDE DEF r
  <2>4. CASE y = VGA_HEIGHT - 1
    <3>1. d = ConsoleAt(Scrolled(w), 0, y)
      BY <2>1, <2>3, <2>4, Zenon
    <3>2. top + 1 \in Nat /\ IsTop(top + 1, f.row) /\ y = f.row - (top + 1)
      <4>1. top + 1 \in Nat
        BY <1>10
      <4>2. IsTop(top + 1, r + 1)
        BY <2>4, <2>6, TopStep, Zenon
      <4>3. IsTop(top + 1, f.row)
        BY <2>7, <4>2, Zenon
      <4>4. y = f.row - (top + 1)
        BY <2>6, <2>7 DEF Rows
      <4> QED
        BY <4>1, <4>3, <4>4, Zenon
    <3>3. Painted(Scrolled(w), q, T, top + 1, n + 1)
      <4>1. n + 1 \in Nat /\ n + 1 + 1 \in 1 .. Len(T) + 1
        BY <1>1
      <4> QED
        BY <1>1, <1>2, <1>10, <1>13, <1>14, <1>15, <4>1, PaintScrolled, ZenonT(40)
    <3>4. Fits(Scrolled(w), 0, y, top + 1, q, T, n + 1)
      BY <1>20, <2>2, <3>2, <3>3, Zenon DEF Fits, f
    <3>5. Shown(ConsoleAt(Scrolled(w), 0, y), T)
      BY <1>17, <3>4, Zenon
    <3> QED
      BY <3>1, <3>5, Zenon DEF d, T
  <2>5. CASE y # VGA_HEIGHT - 1
    <3>1. d = ConsoleAt(w, 0, y + 1)
      BY <2>1, <2>3, <2>5, Zenon
    <3>2. IsTop(top, f.row) /\ y + 1 = f.row - top
      <4>1. IsTop(top, r + 1)
        BY <2>5, <2>6, TopStep, Zenon
      <4>2. IsTop(top, f.row)
        BY <2>7, <4>1, Zenon
      <4>3. y + 1 = f.row - top
        BY <2>6, <2>7 DEF Rows
      <4> QED
        BY <4>2, <4>3, Zenon
    <3>3. Fits(w, 0, y + 1, top, q, T, n + 1)
      BY <1>10, <1>14, <1>20, <2>2, <3>2, Zenon DEF Fits, f
    <3>4. Shown(ConsoleAt(w, 0, y + 1), T)
      BY <1>17, <3>3, Zenon
    <3> QED
      BY <3>1, <3>4, Zenon DEF d, T
  <2> QED
    BY <2>4, <2>5, Zenon
<1> QED
  BY <1>18, <1>19, Zenon DEF d, T


LEMMA ShownBytes ==
  ASSUME NEW c \in Consoles, NEW t \in Seq(Bytes), NEW bytes \in Seq(Bytes), Shown(c, t)
  PROVE  Shown(WriteBytes(c, bytes), t \o bytes)
<1>1. PICK g : Writes(g, c, bytes) /\ WriteBytes(c, bytes) = g[Len(bytes)]
  BY WriteBytesIs, Zenon
<1> DEFINE n == Len(bytes)
           m == Len(t)
           T == t \o bytes
           cut(k) == SubSeq(T, 1, m + k)
           S == {k \in 0 .. n : Shown(g[k], cut(k))}
<1>2. n \in Nat /\ m \in Nat /\ T \in Seq(Bytes) /\ Len(T) = m + n
  OBVIOUS
<1>3. cut(0) = t
  OBVIOUS
<1>4. cut(n) = T
  OBVIOUS
<1>5. \A k \in 1 .. n : cut(k) = Append(cut(k - 1), bytes[k])
  BY SMTT(40)
<1>6. \A k \in 0 .. n : cut(k) \in Seq(Bytes)
  OBVIOUS
<1> HIDE DEF cut, T, m
<1>7. /\ g[0] = c /\ \A k \in 1 .. n : g[k] = write_byte(g[k - 1], bytes[k])
      /\ \A k \in 0 .. n : g[k] \in Consoles
  BY <1>1, Zenon DEF Writes
<1>8. ASSUME NEW k \in 0 .. n, \A j \in 0 .. k - 1 : j \in S PROVE Shown(g[k], cut(k))
  <2>1. CASE k = 0
    BY <1>3, <1>7, <2>1, Zenon
  <2>2. CASE k # 0
    <3> DEFINE j == k - 1
    <3>1. k \in 1 .. n /\ j \in 0 .. n /\ j \in 0 .. k - 1 /\ bytes[k] \in Bytes
      BY <1>2, <2>2
    <3>2. g[k] = write_byte(g[j], bytes[k]) /\ cut(k) = Append(cut(j), bytes[k])
      BY <1>5, <1>7, <3>1, Zenon
    <3> HIDE DEF j, n
    <3>3. Shown(g[j], cut(j)) /\ g[j] \in Consoles /\ cut(j) \in Seq(Bytes)
      BY <1>6, <1>7, <1>8, <3>1, Zenon
    <3>4. Shown(write_byte(g[j], bytes[k]), Append(cut(j), bytes[k]))
      BY <3>1, <3>3, ShownByte, Zenon
    <3> QED
      BY <3>2, <3>4, Zenon
  <2> QED
    BY <2>1, <2>2, Zenon
<1>9. \A k \in 0 .. n : (\A j \in 0 .. k - 1 : j \in S) => k \in S
  BY <1>8, Zenon
<1>10. 0 \in Nat /\ n \in 0 .. n
  BY <1>2
<1> HIDE DEF S
<1>11. 0 .. n \subseteq S
  BY <1>2, <1>9, <1>10, RangeInduction, Zenon
<1>12. Shown(g[n], cut(n))
  BY <1>10, <1>11, Zenon DEF S
<1> QED
  BY <1>1, <1>4, <1>12, Zenon DEF T

LEMMA ShownFirst == Shown(ConsoleNew, <<>>)
<1> DEFINE t == <<>>
           p == Place(t)
           s == [y \in Rows |-> BlankRow]
<1>1. t \in Seq(Bytes) /\ Len(t) = 0 /\ 1 .. 0 = {} /\ 0 \in Nat /\ 0 < VGA_HEIGHT /\ 0 + 1 = 1 /\ 0 - 0 = 0
  OBVIOUS
<1>2. Laid(p, t)
  BY <1>1, PlaceLaid, Zenon
<1> HIDE DEF p
<1>3. p[1].row = 0 /\ p[1].col = 0
  BY <1>2, Zenon DEF Laid
<1>4. Painted(s, p, t, 0, 0)
  <2>1. \A y \in Rows, x \in Columns : s[y][x] = "nul"
    BY Zenon DEF BlankRow
  <2> HIDE DEF s
  <2> QED
    BY <1>1, <2>1, Zenon DEF Painted, CellShows
<1>5. IsTop(0, 0)
  BY <1>1, Zenon DEF IsTop
<1> HIDE DEF s, t
<1>6. Fits(s, 0, 0, 0, p, t, 0)
  BY <1>1, <1>3, <1>4, <1>5, Zenon DEF Fits
<1>7. Shown(ConsoleAt(s, 0, 0), t)
  BY <1>1, <1>6, FitsShown, Zenon DEF p
<1> QED
  BY <1>7, Zenon DEF s, t, ConsoleNew

LEMMA ShownIs ==
  ASSUME con \in Consoles, uart \in Seq(Bytes), moves = 0 => Shown(con, uart)
  PROVE  ScreenShowsText
<1> SUFFICES ASSUME moves = 0 PROVE ScreenShowsText
  BY Zenon DEF ScreenShowsText
<1> DEFINE p == Place(uart)
           n == Len(uart)
           end == p[n + 1]
           top == IF end.row < VGA_HEIGHT THEN 0 ELSE end.row - VGA_HEIGHT + 1
           At(y, x) == {k \in 1 .. n : p[k] = [row |-> top + y, col |-> x] /\ uart[k] # "nl"}
<1>1. PICK from : ShowsFrom(con, uart, p, from)
  BY Zenon DEF Shown
<1>2. Laid(p, uart)
  BY PlaceLaid, Zenon
<1> HIDE DEF p
<1>3. from = top
  BY <1>1, Zenon DEF ShowsFrom, IsTop
<1>4. con.x = end.col /\ con.y = end.row - top
  BY <1>1, <1>3, Zenon DEF ShowsFrom
<1> HIDE DEF top
<1>5. ASSUME NEW y \in Rows, NEW x \in Columns
      PROVE  con.screen[y][x] = IF At(y, x) = {} THEN "nul" ELSE uart[CHOOSE k \in At(y, x) : TRUE]
  <2>1. CellShows(con.screen, p, uart, top, n, y, x)
    BY <1>1, <1>3, Zenon DEF ShowsFrom, Painted
  <2>2. \A k \in 1 .. n : k \in At(y, x) <=> On(p, uart, top, k, y, x)
    <3> TAKE k \in 1 .. n
    <3>1. p[k] \in Spots
      BY <1>2, SMTT(40) DEF Laid
    <3>2. p[k] = [row |-> top + y, col |-> x] <=> p[k].row = top + y /\ p[k].col = x
      BY <3>1 DEF Spots
    <3> QED
      BY <3>2, ZenonT(40) DEF On
  <2>3. \A k \in At(y, x) : k \in 1 .. n
    BY Zenon
  <2> DEFINE A == At(y, x)
  <2> HIDE DEF At
  <2>4. CASE A = {}
    <3>1. \A k \in 1 .. n : ~ On(p, uart, top, k, y, x)
      BY <2>2, <2>4, Zenon
    <3> QED
      BY <2>1, <2>4, <3>1, Zenon DEF CellShows
  <2>5. CASE A # {}
    <3>1. (CHOOSE k \in A : TRUE) \in A
      BY <2>5, Zenon
    <3> DEFINE k0 == CHOOSE k \in A : TRUE
    <3> HIDE DEF k0
    <3>2. k0 \in 1 .. n /\ On(p, uart, top, k0, y, x)
      BY <2>2, <2>3, <3>1, Zenon DEF k0
    <3>3. con.screen[y][x] = uart[k0]
      BY <2>1, <3>2, Zenon DEF CellShows
    <3> QED
      BY <2>5, <3>3, Zenon DEF k0
  <2> QED
    BY <2>4, <2>5, Zenon
<1> QED
  BY <1>4, <1>5, Zenon DEF ScreenShowsText, p, top

-----------------------------------------------------------------------------
(***************************************************************************)
(* Numbers.                                                                *)
(***************************************************************************)
Bases == {2, 8, 10}

LEMMA Division ==
  ASSUME NEW base \in Bases, NEW k \in Nat
  PROVE  /\ k \div base \in Nat /\ k % base \in 0 .. 9 /\ k % base < base
         /\ k - (k \div base) * base = k % base
         /\ k # 0 => k \div base \in 0 .. k - 1
<1>1. CASE base = 2
  <2>1. /\ k \div 2 \in Nat /\ k % 2 \in 0 .. 9 /\ k % 2 < 2
        /\ k - (k \div 2) * 2 = k % 2
        /\ k # 0 => k \div 2 \in 0 .. k - 1
    OBVIOUS
  <2> QED
    BY <1>1, <2>1, Zenon
<1>2. CASE base = 8
  <2>1. /\ k \div 8 \in Nat /\ k % 8 \in 0 .. 9 /\ k % 8 < 8
        /\ k - (k \div 8) * 8 = k % 8
        /\ k # 0 => k \div 8 \in 0 .. k - 1
    OBVIOUS
  <2> QED
    BY <1>2, <2>1, Zenon
<1>3. CASE base = 10
  <2>1. /\ k \div 10 \in Nat /\ k % 10 \in 0 .. 9 /\ k % 10 < 10
        /\ k - (k \div 10) * 10 = k % 10
        /\ k # 0 => k \div 10 \in 0 .. k - 1
    OBVIOUS
  <2> QED
    BY <1>3, <2>1, Zenon
<1> QED
  BY <1>1, <1>2, <1>3, Zenon DEF Bases

\* The digit characters differ, so that each has the value it was made from.
LEMMA DigitWorth ==
  ASSUME NEW d \in 0 .. 9
  PROVE  /\ Worth(Digit(d)) = d /\ Digit(d) \in DigitChars
         /\ Digit(d) # "nl" /\ (d # 0 => Digit(d) # "0")
<1>1. \A e \in 0 .. 9 : Digit(e) = Digit(d) => e = d
  BY DEF Digit
<1>2. Worth(Digit(d)) = d
  BY <1>1, Zenon DEF Worth
<1>3. Digit(d) # "nl" /\ (d # 0 => Digit(d) # "0")
  BY DEF Digit
<1> QED
  BY <1>2, <1>3, Zenon DEF DigitChars

\* The digits of k, for all k up to n: those of k \div base, then one more.
DigitTable(buf, n, base) ==
  /\ buf \in [0 .. n -> Seq(DigitChars)] /\ buf[0] = <<>>
  /\ \A k \in 1 .. n : buf[k] = Append(buf[k \div base], Digit(k % base))

LEMMA DigitsIs ==
  ASSUME NEW n \in Nat \ {0}, NEW base \in Bases
  PROVE  \E buf : DigitTable(buf, n, base) /\ Digits(n, base) = buf[n]
<1> DEFINE R == Seq(DigitChars)
           b == <<>>
           step(s, k) == Append(s, Digit(k % base))
           buf[k \in 0 .. n] == IF k = 0 THEN <<>> ELSE Append(buf[k \div base], Digit(k % base))
           D == [k \in 1 .. n |-> k \div base]
           F == [x \in (1 .. n) \X R |-> step(x[2], x[1])]
<1>1. Digits(n, base) = buf[n]
  BY Zenon DEF Digits
<1>2. \A k \in 1 .. n : k \div base \in 0 .. k - 1 /\ k \div base \in 0 .. n
  BY Division
<1>3. \A k \in 1 .. n : Digit(k % base) \in DigitChars
  BY Division, DigitWorth
<1>4. \A k \in 1 .. n : \A s \in R : step(s, k) \in R
  BY <1>3
<1>5. F \in [(1 .. n) \X R -> R]
  <2> HIDE DEF step
  <2> QED
    BY <1>4, Zenon
<1>6. PICK g \in [0 .. n -> R] : g[0] = b /\ \A k \in 1 .. n : g[k] = F[<<k, g[D[k]]>>]
  <2>1. 0 \in Nat /\ 0 <= n /\ 0 + 1 = 1 /\ b \in R /\ n \in Nat
    OBVIOUS
  <2>2. \A k \in 1 .. n : D[k] \in 0 .. k - 1
    BY <1>2, Zenon
  <2> HIDE DEF D, F, R, b
  <2>3. F \in [(0 + 1 .. n) \X R -> R] /\ \A k \in 0 + 1 .. n : D[k] \in 0 .. k - 1
    BY <1>5, <2>1, <2>2, Zenon
  <2>4. \E g \in [0 .. n -> R] : Recursive(g, 0, n, b, D, F)
    BY <2>1, <2>3, RecursiveExists, ZenonT(40)
  <2> QED
    BY <2>1, <2>4, Zenon DEF Recursive
<1>7. \A k \in 1 .. n : g[k] = step(g[k \div base], k)
  <2> HIDE DEF step
  <2> TAKE k \in 1 .. n
  <2>1. D[k] = k \div base
    BY Zenon
  <2>2. <<k, g[k \div base]>> \in (1 .. n) \X R
    BY <1>2, <1>6, Zenon
  <2>3. F[<<k, g[k \div base]>>] = step(g[k \div base], k)
    BY <2>2, Zenon
  <2> HIDE DEF D, F
  <2> QED
    BY <1>6, <2>1, <2>3, Zenon
<1>8. g = [k \in 0 .. n |-> IF k = 0 THEN <<>> ELSE step(g[k \div base], k)]
  <2>1. \A k \in 0 .. n : k = 0 \/ k \in 1 .. n
    OBVIOUS
  <2>2. \A k \in 0 .. n : g[k] = IF k = 0 THEN <<>> ELSE step(g[k \div base], k)
    BY <1>6, <1>7, <2>1, Zenon
  <2> HIDE DEF step
  <2> QED
    BY <1>6, <2>2, Zenon
<1>9. buf = [k \in 0 .. n |-> IF k = 0 THEN <<>> ELSE Append(buf[k \div base], Digit(k % base))]
  BY <1>8, Zenon
<1> HIDE DEF buf
<1>10. DigitTable(buf, n, base)
  <2>1. buf[0] = <<>> /\ \A k \in 1 .. n : buf[k] = step(buf[k \div base], k)
    <3>1. \A k \in 1 .. n : k \in 0 .. n /\ k # 0
      OBVIOUS
    <3>2. 0 \in 0 .. n
      OBVIOUS
    <3> QED
      BY <1>9, <3>1, <3>2, Zenon
  <2>2. 0 .. n \subseteq {k \in 0 .. n : buf[k] \in R}
    <3> DEFINE S == {k \in 0 .. n : buf[k] \in R}
    <3>1. ASSUME NEW k \in 0 .. n, \A j \in 0 .. k - 1 : j \in S PROVE k \in S
      <4>1. CASE k = 0
        <5>1. <<>> \in R
          OBVIOUS
        <5> QED
          BY <2>1, <4>1, <5>1, Zenon
      <4>2. CASE k # 0
        <5>1. k \in 1 .. n
          BY <4>2
        <5>2. buf[k \div base] \in R
          BY <1>2, <3>1, <5>1, Zenon
        <5> HIDE DEF step
        <5> QED
          BY <1>4, <2>1, <5>1, <5>2, Zenon
      <4> QED
        BY <4>1, <4>2, Zenon
    <3> HIDE DEF S
    <3>2. 0 .. n \subseteq S
      <4>1. 0 \in Nat /\ n \in Nat
        BY Zenon
      <4> QED
        BY <3>1, <4>1, RangeInduction, Zenon
    <3> QED
      BY <3>2, Zenon DEF S
  <2>3. buf \in [0 .. n -> R]
    BY <1>9, <2>2, Zenon
  <2> QED
    BY <2>1, <2>3, Zenon DEF DigitTable
<1> QED
  BY <1>1, <1>10, Zenon

LEMMA DigitsType ==
  ASSUME NEW n \in Nat, NEW base \in Bases
  PROVE  Digits(n, base) \in Seq(DigitChars) /\ Digits(n, base) \in Seq(Bytes)
<1>1. Digits(n, base) \in Seq(DigitChars)
  <2>1. CASE n = 0
    <3>1. Digits(n, base) = <<"0">>
      BY <2>1, Zenon DEF Digits
    <3>2. "0" \in DigitChars
      BY DEF DigitChars, Digit
    <3> QED
      BY <3>1, <3>2
  <2>2. CASE n # 0
    <3>1. PICK buf : DigitTable(buf, n, base) /\ Digits(n, base) = buf[n]
      BY <2>2, DigitsIs, Zenon
    <3> QED
      BY <3>1 DEF DigitTable
  <2> QED
    BY <2>1, <2>2, Zenon
<1> QED
  BY <1>1 DEF Bytes

\* Reading a text: V holds the values of what has been read since from.
Reads(V, text, from, base) ==
  /\ V[from] = 0
  /\ \A k \in from + 1 .. Len(text) : V[k] = V[k - 1] * base + Worth(text[k])

\* The value that NumbersReadBack reads exists.
LEMMA ReadingIs ==
  ASSUME NEW text \in Seq(Bytes), NEW from \in 0 .. Len(text), NEW base \in Bases,
         \A k \in from + 1 .. Len(text) : Worth(text[k]) \in Nat
  PROVE  LET value[k \in from .. Len(text)] ==
               IF k = from THEN 0 ELSE value[k - 1] * base + Worth(text[k])
         IN  Reads(value, text, from, base)
<1> DEFINE n == Len(text)
           step(v, k) == v * base + Worth(text[k])
           value[k \in from .. n] == IF k = from THEN 0 ELSE value[k - 1] * base + Worth(text[k])
           D == [k \in from + 1 .. n |-> k - 1]
           F == [x \in (from + 1 .. n) \X Nat |-> step(x[2], x[1])]
<1>1. n \in Nat /\ from \in Nat /\ from <= n /\ 0 \in Nat
  OBVIOUS
<1>2. \A k \in from + 1 .. n : \A v \in Nat : step(v, k) \in Nat
  BY DEF Bases
<1> SUFFICES Reads(value, text, from, base)
  BY Zenon
<1> HIDE DEF n
<1>3. F \in [(from + 1 .. n) \X Nat -> Nat]
  <2> HIDE DEF step
  <2> QED
    BY <1>2, Zenon
<1>4. PICK g \in [from .. n -> Nat] : g[from] = 0 /\ \A k \in from + 1 .. n : g[k] = F[<<k, g[D[k]]>>]
  <2>1. \A k \in from + 1 .. n : D[k] \in from .. k - 1
    BY <1>1
  <2> HIDE DEF D, F
  <2>2. \E g \in [from .. n -> Nat] : Recursive(g, from, n, 0, D, F)
    BY <1>1, <1>3, <2>1, RecursiveExists, Zenon
  <2> QED
    BY <2>2, Zenon DEF Recursive
<1>5. \A k \in from + 1 .. n : g[k] = step(g[k - 1], k)
  <2> HIDE DEF step
  <2> TAKE k \in from + 1 .. n
  <2>1. D[k] = k - 1 /\ k - 1 \in from .. n
    BY <1>1
  <2>2. <<k, g[k - 1]>> \in (from + 1 .. n) \X Nat
    BY <1>4, <2>1, Zenon
  <2>3. F[<<k, g[k - 1]>>] = step(g[k - 1], k)
    BY <2>2, Zenon
  <2> HIDE DEF D, F
  <2> QED
    BY <1>4, <2>1, <2>3, SMTT(40)
<1>6. g = [k \in from .. n |-> IF k = from THEN 0 ELSE step(g[k - 1], k)]
  <2>1. \A k \in from .. n : k = from \/ k \in from + 1 .. n
    BY <1>1
  <2>2. \A k \in from .. n : g[k] = IF k = from THEN 0 ELSE step(g[k - 1], k)
    BY <1>4, <1>5, <2>1, Zenon
  <2> HIDE DEF step
  <2> QED
    BY <1>4, <2>2, Zenon
<1>7. value = [k \in from .. n |-> IF k = from THEN 0 ELSE value[k - 1] * base + Worth(text[k])]
  BY <1>6, Zenon
<1> HIDE DEF value
<1>8. \A k \in from + 1 .. n : k \in from .. n /\ k # from
  BY <1>1
<1>9. from \in from .. n
  BY <1>1
<1> QED
  BY <1>7, <1>8, <1>9, Zenon DEF Reads, n

\* The digits of n, sent after the text u, read back as n.
LEMMA DigitsReadBack ==
  ASSUME NEW u \in Seq(Bytes), NEW n \in Nat, NEW base \in Bases, NEW V,
         Reads(V, u \o Digits(n, base), Len(u), base)
  PROVE  /\ V[Len(u \o Digits(n, base))] = n
         /\ Len(u \o Digits(n, base)) > Len(u) + 1 => (u \o Digits(n, base))[Len(u) + 1] # "0"
<1> DEFINE text == u \o Digits(n, base)
           m == Len(u)
<1>1. CASE n = 0
  <2>1. Digits(n, base) = <<"0">> /\ "0" = Digit(0)
    BY <1>1, SMTT(40) DEF Digits, Digit
  <2>2. Worth("0") = 0
    BY <2>1, DigitWorth, SMTT(40)
  <2>3. "0" \in Bytes
    BY <2>1, DigitWorth, SMTT(40) DEF Bytes
  <2>4. Len(text) = m + 1 /\ text[m + 1] = "0" /\ m \in Nat
    BY <2>1, <2>3
  <2>5. V[m] = 0 /\ V[m + 1] = V[m] * base + Worth(text[m + 1])
    <3>1. m + 1 \in m + 1 .. Len(text) /\ m + 1 - 1 = m
      BY <2>4
    <3> QED
      BY <3>1 DEF Reads
  <2> QED
    BY <1>1, <2>2, <2>4, <2>5, SMTT(40) DEF Bases
<1>2. CASE n # 0
  <2>1. PICK buf : DigitTable(buf, n, base) /\ Digits(n, base) = buf[n]
    BY <1>2, DigitsIs, Zenon
  <2> DEFINE s == buf[n]
             P(k) == Len(buf[k]) <= Len(s) /\ \A i \in 1 .. Len(buf[k]) : buf[k][i] = s[i]
             S == {k \in 0 .. n : P(k) => V[m + Len(buf[k])] = k}
             Z == {k \in 0 .. n : k # 0 => Len(buf[k]) > 0 /\ buf[k][1] # "0"}
  <2>2. /\ s \in Seq(DigitChars) /\ \A k \in 0 .. n : buf[k] \in Seq(DigitChars)
        /\ buf[0] = <<>> /\ \A k \in 1 .. n : buf[k] = Append(buf[k \div base], Digit(k % base))
    <3>1. n \in 0 .. n
      OBVIOUS
    <3>2. buf \in [0 .. n -> Seq(DigitChars)]
      BY <2>1, Zenon DEF DigitTable
    <3>3. \A k \in 0 .. n : buf[k] \in Seq(DigitChars)
      BY <3>2, Zenon
    <3> QED
      BY <2>1, <3>1, <3>3, Zenon DEF DigitTable
  <2>3. s \in Seq(Bytes) /\ DigitChars \subseteq Bytes
    BY <2>2 DEF Bytes
  <2>4. /\ text = u \o s /\ Len(text) = m + Len(s) /\ m \in Nat /\ Len(s) \in Nat
        /\ \A i \in 1 .. Len(s) : text[m + i] = s[i]
    <3> HIDE DEF s
    <3>1. text = u \o s
      BY <2>1, Zenon DEF s
    <3> HIDE DEF text
    <3> QED
      BY <2>3, <3>1
  <2>5. V[m] = 0 /\ \A i \in 1 .. Len(s) : V[m + i] = V[m + i - 1] * base + Worth(s[i])
    <3>1. \A i \in 1 .. Len(s) : m + i \in m + 1 .. Len(text)
      BY <2>4
    <3>2. /\ V[m] = 0
          /\ \A k \in m + 1 .. Len(text) : V[k] = V[k - 1] * base + Worth(text[k])
      BY Zenon DEF Reads
    <3>3. \A i \in 1 .. Len(s) : V[m + i] = V[m + i - 1] * base + Worth(s[i])
      <4> TAKE i \in 1 .. Len(s)
      <4> HIDE DEF m, text, s
      <4>1. PICK k \in m + 1 .. Len(text) : k = m + i
        BY <3>1, Zenon
      <4>2. V[k] = V[k - 1] * base + Worth(text[k])
        BY <3>2, <4>1, Zenon
      <4>3. text[k] = s[i]
        BY <2>4, <4>1, ZenonT(40)
      <4>4. Worth(text[k]) = Worth(s[i]) /\ k - 1 = m + i - 1
        <5>1. Worth(text[k]) = Worth(s[i])
          BY <4>3, Zenon
        <5>2. k - 1 = m + i - 1
          BY <2>4, <4>1
        <5> QED
          BY <5>1, <5>2, Zenon
      <4>5. V[k] = V[m + i - 1] * base + Worth(s[i])
        BY <4>2, <4>4, Zenon
      <4> QED
        BY <4>1, <4>5, Zenon
    <3> QED
      BY <3>2, <3>3, Zenon
  <2> HIDE DEF s, text, m
  <2>6. ASSUME NEW k \in 1 .. n
        PROVE  /\ k \div base \in 0 .. k - 1 /\ k \div base \in 0 .. n
               /\ Len(buf[k]) = Len(buf[k \div base]) + 1 /\ Len(buf[k \div base]) \in Nat
               /\ \A i \in 1 .. Len(buf[k \div base]) : buf[k][i] = buf[k \div base][i]
               /\ buf[k][Len(buf[k])] = Digit(k % base)
    <3>1. k \div base \in 0 .. k - 1
      BY Division, SMTT(40)
    <3>2. k \div base \in 0 .. n
      BY <3>1
    <3>3. Digit(k % base) \in DigitChars
      <4>1. k % base \in 0 .. 9
        BY Division
      <4> QED
        BY <4>1, DigitWorth, Zenon
    <3>4. PICK t \in Seq(DigitChars) : t = buf[k \div base]
      BY <2>2, <3>2, Zenon
    <3>5. PICK d \in DigitChars : d = Digit(k % base)
      BY <3>3, Zenon
    <3>6. buf[k] = Append(t, d)
      BY <2>2, <3>4, <3>5, Zenon
    <3>7. /\ Len(buf[k]) = Len(t) + 1 /\ Len(t) \in Nat
          /\ \A i \in 1 .. Len(t) : buf[k][i] = t[i]
          /\ buf[k][Len(t) + 1] = d
      BY <3>6
    <3> QED
      BY <3>1, <3>2, <3>4, <3>5, <3>7, Zenon
  <2>7. ASSUME NEW k \in 0 .. n, \A j \in 0 .. k - 1 : j \in S PROVE k \in S
    <3> SUFFICES ASSUME P(k) PROVE V[m + Len(buf[k])] = k
      BY Zenon
    <3>1. CASE k = 0
      <4>1. Len(buf[0]) = 0
        BY <2>2
      <4> QED
        BY <2>4, <2>5, <3>1, <4>1, SMTT(40)
    <3>2. CASE k # 0
      <4>1. k \in 1 .. n
        BY <3>2, SMTT(40)
      <4> DEFINE q == k \div base
                 l == Len(buf[q])
      <4>2. /\ q \in 0 .. k - 1 /\ q \in 0 .. n /\ Len(buf[k]) = l + 1 /\ l \in Nat
            /\ \A i \in 1 .. l : buf[k][i] = buf[q][i]
            /\ buf[k][l + 1] = Digit(k % base)
        BY <2>6, <4>1, Zenon
      <4>3. P(q)
        BY <4>2, SMTT(40)
      <4>4. V[m + l] = q
        BY <2>7, <4>2, <4>3, SMTT(40)
      <4>5. l + 1 \in 1 .. Len(s) /\ s[l + 1] = Digit(k % base)
        <5>1. l + 1 \in 1 .. Len(buf[k]) /\ Len(buf[k]) <= Len(s)
          BY <4>2, SMTT(40)
        <5>2. l + 1 \in 1 .. Len(s)
          BY <2>4, <4>2, SMTT(40)
        <5> QED
          BY <4>2, <5>1, <5>2, Zenon
      <4>6. V[m + (l + 1)] = V[m + (l + 1) - 1] * base + Worth(Digit(k % base))
        BY <2>5, <4>5, Zenon
      <4>7. Worth(Digit(k % base)) = k % base /\ k - q * base = k % base /\ k % base \in 0 .. 9
        <5>1. k - q * base = k % base /\ k % base \in 0 .. 9
          BY Division, SMTT(40)
        <5> QED
          BY <5>1, DigitWorth, ZenonT(40)
      <4>8. m + (l + 1) - 1 = m + l
        BY <2>4, <4>2
      <4> HIDE DEF q, l
      <4>9. PICK r \in 0 .. 9 : r = k % base
        BY <4>7, Zenon
      <4>10. V[m + (l + 1) - 1] = q
        BY <4>4, <4>8, Zenon
      <4>11. V[m + (l + 1)] = q * base + r
        BY <4>6, <4>7, <4>9, <4>10, ZenonT(40)
      <4>12. k - q * base = r /\ q \in Nat /\ k \in Nat
        BY <4>2, <4>7, <4>9, SMTT(40)
      <4>13. q * base + r = k
        BY <4>12, SMTT(40) DEF Bases
      <4> QED
        BY <4>2, <4>11, <4>13, Zenon
    <3> QED
      BY <3>1, <3>2, SMTT(40)
  <2>8. ASSUME NEW k \in 0 .. n, \A j \in 0 .. k - 1 : j \in Z PROVE k \in Z
    <3> SUFFICES ASSUME k # 0 PROVE Len(buf[k]) > 0 /\ buf[k][1] # "0"
      BY Zenon
    <3>1. k \in 1 .. n
      BY SMTT(40)
    <3>2. CASE k \div base = 0
      <4>1. Len(buf[0]) = 0 /\ Len(buf[k]) = 1 /\ buf[k][1] = Digit(k % base)
        <5>1. Len(<<>>) = 0 /\ 0 + 1 = 1
          OBVIOUS
        <5>2. Len(buf[0]) = 0
          BY <2>2, <5>1, Zenon
        <5> QED
          BY <2>6, <3>1, <3>2, <5>1, <5>2, ZenonT(40)
      <4>2. k % base # 0 /\ k % base \in 0 .. 9
        <5>1. k - 0 * base = k % base /\ k % base \in 0 .. 9
          BY <3>2, Division
        <5> QED
          BY <5>1 DEF Bases
      <4> QED
        BY <4>1, <4>2, DigitWorth
    <3>3. CASE k \div base # 0
      <4> DEFINE q == k \div base
      <4>1. /\ q \in 0 .. k - 1 /\ Len(buf[k]) = Len(buf[q]) + 1 /\ Len(buf[q]) \in Nat
            /\ \A i \in 1 .. Len(buf[q]) : buf[k][i] = buf[q][i]
        BY <2>6, <3>1, Zenon
      <4> HIDE DEF q
      <4>2. q # 0
        BY <3>3, Zenon DEF q
      <4>3. Len(buf[q]) > 0 /\ buf[q][1] # "0"
        BY <2>8, <4>1, <4>2, Zenon
      <4>4. 1 \in 1 .. Len(buf[q]) /\ Len(buf[k]) > 0
        BY <4>1, <4>3
      <4> QED
        BY <4>1, <4>3, <4>4, Zenon
    <3> QED
      BY <3>2, <3>3, Zenon
  <2>9. n \in S /\ n \in Z
    <3>1. 0 \in Nat /\ n \in Nat /\ n \in 0 .. n
      OBVIOUS
    <3> HIDE DEF S, Z
    <3>2. 0 .. n \subseteq S
      BY <2>7, <3>1, RangeInduction, Zenon
    <3>3. 0 .. n \subseteq Z
      BY <2>8, <3>1, RangeInduction, Zenon
    <3> QED
      BY <3>1, <3>2, <3>3, Zenon
  <2>10. V[Len(text)] = n
    <3>1. P(n)
      BY <2>4, SMTT(40) DEF s
    <3> QED
      BY <2>4, <2>9, <3>1, Zenon DEF s
  <2>11. text[m + 1] # "0"
    BY <1>2, <2>4, <2>9 DEF s
  <2> QED
    BY <2>10, <2>11, Zenon DEF text, m
<1> QED
  BY <1>1, <1>2, Zenon

-----------------------------------------------------------------------------
(***************************************************************************)
(* The invariant: what the last step left behind for the properties.       *)
(***************************************************************************)
ConsoleTypeOK ==
  /\ con \in Consoles /\ buffer \in Seq(Bytes) /\ uart \in Seq(Bytes) /\ handed \in Seq(Bytes)
  /\ moves \in Nat /\ direct \in BOOLEAN
  /\ last = [was |-> last.was, op |-> last.op, arg |-> last.arg]

\* After a byte of write_str: the console before it, and the byte.
AfterPut ==
  last.op = "put" =>
    \E b \in Bytes, u \in Seq(Bytes) : /\ last.was \in Consoles /\ con = write_byte(last.was, b)
                                       /\ uart = Append(u, b)

\* After a number: the digits end what the serial line has carried.
AfterNumber ==
  last.op = "number" =>
    \E n \in Nat, base \in Bases, u \in Seq(Bytes) :
      uart = u \o Digits(n, base) /\ last.arg = <<n, base, Len(u)>>

ConsoleInv == ConsoleTypeOK /\ AfterPut /\ AfterNumber /\ BufferLosesNothing

LEMMA ConsoleInitial ==
  ASSUME ConsoleInit
  PROVE  ConsoleInv
<1>1. ConsoleNew \in Consoles
  <2>1. [y \in Rows |-> BlankRow] \in Screens
    BY ScreenTypes, Zenon DEF Screens
  <2>2. 0 \in Rows /\ 0 \in Columns
    BY SMTT(40) DEF Rows, Columns
  <2> QED
    BY <2>1, <2>2, ConsoleTyped, Zenon DEF ConsoleNew
<1>2. /\ buffer = <<>> /\ uart = <<>> /\ handed = <<>> /\ moves = 0 /\ direct = FALSE
      /\ con = ConsoleNew /\ last = [was |-> ConsoleNew, op |-> "new", arg |-> <<>>]
  BY Zenon DEF ConsoleInit
<1>3. last.op = "new" /\ last = [was |-> last.was, op |-> last.op, arg |-> last.arg]
  BY <1>2, Zenon
<1>4. <<>> \in Seq(Bytes) /\ <<>> \o <<>> = <<>> /\ 0 \in Nat
  OBVIOUS
<1>5. ConsoleTypeOK
  BY <1>1, <1>2, <1>3, <1>4, ZenonT(40) DEF ConsoleTypeOK
<1>6. BufferLosesNothing
  BY <1>2, <1>4, Zenon DEF BufferLosesNothing
<1>7. AfterPut /\ AfterNumber
  BY <1>3, Zenon DEF AfterPut, AfterNumber
<1> QED
  BY <1>5, <1>6, <1>7, Zenon DEF ConsoleInv

LEMMA StepRecord ==
  ASSUME NEW op, Step(op)
  PROVE  /\ last'.op = op /\ (op = "put" => last'.was = con)
         /\ last' = [was |-> last'.was, op |-> last'.op, arg |-> last'.arg]
BY Zenon DEF Step

\* A step that is neither a byte of write_str nor a number.
LEMMA OtherStep ==
  ASSUME ConsoleInv, NEW op \in {"backspace", "attr", "flush", "buffer", "clear", "cursor"}, Step(op),
         con' \in Consoles, buffer' \in Seq(Bytes), uart' \in Seq(Bytes), handed' \in Seq(Bytes),
         moves' \in Nat, direct' = direct, BufferLosesNothing'
  PROVE  ConsoleInv'
<1>1. /\ last'.op # "put" /\ last'.op # "number"
      /\ last' = [was |-> last'.was, op |-> last'.op, arg |-> last'.arg]
  BY StepRecord, Zenon
<1>2. direct' \in BOOLEAN
  BY Zenon DEF ConsoleInv, ConsoleTypeOK
<1>3. ConsoleTypeOK'
  BY <1>1, <1>2, Zenon DEF ConsoleTypeOK
<1>4. AfterPut' /\ AfterNumber'
  BY <1>1, Zenon DEF AfterPut, AfterNumber
<1> QED
  BY <1>3, <1>4, Zenon DEF ConsoleInv


LEMMA ConsoleInvStep ==
  ASSUME ConsoleInv, [ConsoleNext]_consoleVars
  PROVE  ConsoleInv'
<1>1. /\ con \in Consoles /\ buffer \in Seq(Bytes) /\ uart \in Seq(Bytes) /\ handed \in Seq(Bytes)
      /\ moves \in Nat /\ direct \in BOOLEAN
  BY Zenon DEF ConsoleInv, ConsoleTypeOK
<1>2. Chars \subseteq Bytes /\ "nl" \in Bytes /\ Chars \subseteq Cells
  BY Zenon DEF Bytes, Cells
<1>3. BufferLosesNothing
  BY Zenon DEF ConsoleInv
<1>4. \A u \in Seq(Bytes), b \in Bytes : Append(u, b) \in Seq(Bytes)
  OBVIOUS
<1>5. \A u, v \in Seq(Bytes) : u \o v \in Seq(Bytes) /\ u \o <<>> = u
  OBVIOUS
<1>6. moves + 1 \in Nat /\ <<>> \in Seq(Bytes)
  BY <1>1
<1>7. ASSUME NEW b \in Chars \cup {"nl"}, write_str_byte(b) PROVE ConsoleInv'
  <2>1. b \in Bytes
    BY <1>2, Zenon
  <2>2. /\ Step("put") /\ con' = write_byte(con, b) /\ uart' = Append(uart, b)
        /\ handed' = <<>> /\ buffer' = buffer /\ moves' = moves /\ direct' = TRUE
    BY <1>7, Zenon DEF write_str_byte
  <2>3. con' \in Consoles
    BY <1>1, <2>1, <2>2, StepTypes, ZenonT(40)
  <2>4. /\ last'.op = "put" /\ last'.was = con
        /\ last' = [was |-> last'.was, op |-> last'.op, arg |-> last'.arg]
    BY <2>2, StepRecord
  <2>5. uart' \in Seq(Bytes) /\ handed' \in Seq(Bytes)
    BY <1>1, <1>4, <1>6, <2>1, <2>2, Zenon
  <2>6. ConsoleTypeOK'
    BY <1>1, <2>2, <2>3, <2>4, <2>5, Zenon DEF ConsoleTypeOK
  <2>7. AfterPut'
    BY <1>1, <2>1, <2>2, <2>4, ZenonT(40) DEF AfterPut
  <2>8. AfterNumber'
    BY <2>4, Zenon DEF AfterNumber
  <2>9. BufferLosesNothing'
    BY <2>2, ZenonT(40) DEF BufferLosesNothing
  <2> QED
    BY <2>6, <2>7, <2>8, <2>9, Zenon DEF ConsoleInv
<1>8. ASSUME NEW n \in Numbers, NEW base \in {2, 8, 10}, write_number(n, base) PROVE ConsoleInv'
  <2>1. n \in Nat /\ base \in Bases
    BY Zenon DEF Bases
  <2> DEFINE d == Digits(n, base)
  <2>2. d \in Seq(Bytes)
    BY <2>1, DigitsType, Zenon
  <2>3. /\ con' = WriteBytes(con, d) /\ uart' = uart \o d /\ handed' = <<>>
        /\ last' = [was |-> ConsoleNew, op |-> "number", arg |-> <<n, base, Len(uart)>>]
        /\ buffer' = buffer /\ moves' = moves /\ direct' = TRUE
    BY <1>8, Zenon DEF write_number
  <2>4. con' \in Consoles
    BY <1>1, <2>2, <2>3, WriteBytesType, ZenonT(40)
  <2>5. /\ last'.op = "number" /\ last'.arg = <<n, base, Len(uart)>>
        /\ last' = [was |-> last'.was, op |-> last'.op, arg |-> last'.arg]
    BY <2>3, Zenon
  <2>6. uart' \in Seq(Bytes) /\ handed' \in Seq(Bytes)
    BY <1>1, <1>5, <1>6, <2>2, <2>3, ZenonT(40)
  <2>7. ConsoleTypeOK'
    BY <1>1, <2>3, <2>4, <2>5, <2>6, ZenonT(40) DEF ConsoleTypeOK
  <2>8. AfterNumber'
    BY <1>1, <2>1, <2>3, <2>5, ZenonT(40) DEF AfterNumber
  <2>9. AfterPut'
    BY <2>5, Zenon DEF AfterPut
  <2>10. BufferLosesNothing'
    BY <2>3, Zenon DEF BufferLosesNothing
  <2> QED
    BY <2>7, <2>8, <2>9, <2>10, ZenonT(40) DEF ConsoleInv
<1>9. ASSUME NEW b \in Chars \cup {"nl"}, buffer_write(b) PROVE ConsoleInv'
  <2>1. b \in Bytes
    BY <1>2, Zenon
  <2>2. /\ Step("buffer") /\ handed' = (IF direct THEN handed ELSE Append(handed, b))
        /\ moves' = moves /\ direct' = direct
    BY <1>9, Zenon DEF buffer_write
  <2>3. handed' \in Seq(Bytes)
    BY <1>1, <1>4, <2>1, <2>2, Zenon
  <2>4. CASE buffer' = Append(buffer, b) /\ con' = con /\ uart' = uart
    <3>1. buffer' \in Seq(Bytes)
      BY <1>1, <1>4, <2>1, <2>4, Zenon
    <3>2. \A x, y \in Seq(Bytes) : x \o Append(y, b) = Append(x \o y, b)
      BY <2>1
    <3>3. BufferLosesNothing'
      BY <1>1, <1>3, <2>2, <2>4, <3>2, ZenonT(40) DEF BufferLosesNothing
    <3> QED
      BY <1>1, <2>2, <2>3, <2>4, <3>1, <3>3, OtherStep, ZenonT(40)
  <2>5. CASE con' = WriteBytes(con, buffer) /\ uart' = uart \o buffer /\ buffer' = <<b>>
    <3>1. con' \in Consoles /\ uart' \in Seq(Bytes)
      BY <1>1, <1>5, <2>5, WriteBytesType, ZenonT(40)
    <3>2. \A x \in Seq(Bytes) : x \o <<b>> = Append(x, b)
      BY <2>1
    <3>3. <<b>> \in Seq(Bytes)
      BY <2>1
    <3>4. BufferLosesNothing'
      BY <1>1, <1>3, <2>2, <2>5, <3>1, <3>2, ZenonT(40) DEF BufferLosesNothing
    <3> QED
      BY <1>1, <2>2, <2>3, <2>5, <3>1, <3>3, <3>4, OtherStep, ZenonT(40)
  <2> QED
    BY <1>9, <2>4, <2>5, ZenonT(40) DEF buffer_write
<1>10. ASSUME flush_buffer PROVE ConsoleInv'
  <2>1. /\ Step("flush") /\ con' = WriteBytes(con, buffer) /\ uart' = uart \o buffer
        /\ buffer' = <<>> /\ handed' = handed /\ moves' = moves /\ direct' = direct
    BY <1>10, Zenon DEF flush_buffer
  <2>2. con' \in Consoles /\ uart' \in Seq(Bytes)
    BY <1>1, <1>5, <2>1, WriteBytesType, Zenon
  <2>3. BufferLosesNothing'
    BY <1>1, <1>3, <1>5, <2>1, <2>2, Zenon DEF BufferLosesNothing
  <2> QED
    BY <1>1, <1>6, <2>1, <2>2, <2>3, OtherStep, ZenonT(40)
<1>11. ASSUME NEW op \in {"backspace", "attr", "clear", "cursor"}, Step(op), Move,
              con' \in Consoles, UNCHANGED <<buffer, uart, handed, direct>>
       PROVE  ConsoleInv'
  <2>1. buffer' = buffer /\ uart' = uart /\ handed' = handed /\ direct' = direct
    BY <1>11, Zenon
  <2>2. BufferLosesNothing'
    BY <1>3, <2>1, ZenonT(40) DEF BufferLosesNothing
  <2>3. moves' \in Nat /\ op \in {"backspace", "attr", "flush", "buffer", "clear", "cursor"}
    BY <1>6, <1>11, Zenon DEF Move
  <2> QED
    BY <1>1, <1>11, <2>1, <2>2, <2>3, OtherStep, ZenonT(40)
<1>12. CASE write_str_backspace
  <2>1. con' \in Consoles
    BY <1>1, <1>12, StepTypes, ZenonT(40) DEF write_str_backspace
  <2> QED
    BY <1>11, <1>12, <2>1, Zenon DEF write_str_backspace
<1>13. ASSUME NEW c \in Chars, put_with_attr(c) PROVE ConsoleInv'
  <2>1. con' \in Consoles
    BY <1>1, <1>2, <1>13, StepTypes, ZenonT(40) DEF put_with_attr
  <2> QED
    BY <1>11, <1>13, <2>1, SMTT(40) DEF put_with_attr
<1>14. CASE clear_screen
  <2>1. [y \in Rows |-> [x \in Columns |-> " "]] \in Screens /\ 0 \in Rows /\ 0 \in Columns
    BY DEF Screens, Cells, Rows, Columns
  <2>2. con' \in Consoles
    BY <1>14, <2>1, ConsoleTyped, ZenonT(40) DEF clear_screen
  <2> QED
    BY <1>11, <1>14, <2>2, Zenon DEF clear_screen
<1>15. ASSUME NEW x \in 0 .. VGA_WIDTH, NEW y \in 0 .. VGA_HEIGHT, set_cursor(x, y) PROVE ConsoleInv'
  <2>1. x \in Columns /\ y \in Rows
    BY <1>15, SMTT(40) DEF set_cursor, Columns, Rows
  <2>2. con.screen \in Screens
    BY <1>1, ConsoleParts, SMTT(40)
  <2>3. con' \in Consoles
    BY <1>15, <2>1, <2>2, ConsoleTyped, Zenon DEF set_cursor
  <2> QED
    BY <1>11, <1>15, <2>3, SMTT(40) DEF set_cursor
<1>16. CASE UNCHANGED consoleVars
  <2>1. /\ con' = con /\ buffer' = buffer /\ uart' = uart /\ handed' = handed
        /\ moves' = moves /\ direct' = direct /\ last' = last
    BY <1>16, Zenon DEF consoleVars
  <2> QED
    BY <2>1, Zenon DEF ConsoleInv, ConsoleTypeOK, AfterPut, AfterNumber, BufferLosesNothing
<1> QED
  BY <1>7, <1>8, <1>9, <1>10, <1>12, <1>13, <1>14, <1>15, <1>16, ZenonT(40) DEF ConsoleNext


-----------------------------------------------------------------------------
(***************************************************************************)
(* The properties.                                                         *)
(***************************************************************************)
LEMMA ConsoleInvHolds == ConsoleSpec => []ConsoleInv
BY ConsoleInitial, ConsoleInvStep, PTL DEF ConsoleSpec

\* While everything is written through the buffer, nothing is lost or doubled,
\* for a buffer of any size.
THEOREM BufferKeepsAll == ConsoleSpec => []BufferLosesNothing
<1>1. ConsoleInv => BufferLosesNothing
  BY Zenon DEF ConsoleInv
<1> QED
  BY <1>1, ConsoleInvHolds, PTL

\* The digits sent by write_dec, write_octal and write_binary denote the number
\* that was to be written, whatever it is.
THEOREM NumbersAreRight == ConsoleSpec => []NumbersReadBack
<1>1. ASSUME ConsoleInv PROVE NumbersReadBack
  <2> SUFFICES ASSUME last.op = "number" PROVE NumbersReadBack
    BY Zenon DEF NumbersReadBack
  <2>1. PICK n \in Nat, base \in Bases, u \in Seq(Bytes) :
          uart = u \o Digits(n, base) /\ last.arg = <<n, base, Len(u)>>
    BY <1>1, Zenon DEF ConsoleInv, AfterNumber
  <2>2. Digits(n, base) \in Seq(DigitChars) /\ Digits(n, base) \in Seq(Bytes)
    BY DigitsType, Zenon
  <2> DEFINE from == Len(u)
             value[k \in from .. Len(uart)] ==
               IF k = from THEN 0 ELSE value[k - 1] * base + Worth(uart[k])
  <2>3. last.arg[1] = n /\ last.arg[2] = base /\ last.arg[3] = from
    BY <2>1, SMTT(40)
  <2>4. /\ from \in 0 .. Len(uart) /\ uart \in Seq(Bytes)
        /\ \A k \in from + 1 .. Len(uart) : uart[k] \in DigitChars
    BY <2>1, <2>2, SMTT(40)
  <2>5. \A char \in DigitChars : Worth(char) \in Nat
    BY DigitWorth, SMTT(40) DEF DigitChars
  <2>6. \A k \in from + 1 .. Len(uart) : Worth(uart[k]) \in Nat
    BY <2>4, <2>5, Zenon
  <2> HIDE DEF from
  <2>7. Reads(value, uart, from, base)
    BY <2>4, <2>6, ReadingIs, Zenon
  <2> HIDE DEF value
  <2>8. value[Len(uart)] = n /\ (Len(uart) > from + 1 => uart[from + 1] # "0")
    <3>1. Reads(value, u \o Digits(n, base), Len(u), base)
      BY <2>1, <2>7, Zenon DEF from
    <3>2. /\ value[Len(u \o Digits(n, base))] = n
          /\ Len(u \o Digits(n, base)) > Len(u) + 1 => (u \o Digits(n, base))[Len(u) + 1] # "0"
      BY <3>1, DigitsReadBack, ZenonT(40)
    <3> QED
      BY <2>1, <3>2, Zenon DEF from
  <2> QED
    BY <2>3, <2>8, ZenonT(40) DEF NumbersReadBack, value
<1> QED
  BY <1>1, ConsoleInvHolds, PTL

\* A character and then a backspace, wherever the cursor is.
RubbedBy(c, d, up) ==
  /\ d.x = c.x /\ d.y = c.y - up
  /\ \A y \in Rows, x \in Columns :
       y + up \in Rows => d.screen[y][x] = IF y + up = c.y /\ x = c.x THEN " "
                                           ELSE c.screen[y + up][x]
Rubbed(c, d) ==
  RubbedBy(c, d, IF c.x = VGA_WIDTH - 1 /\ c.y = VGA_HEIGHT - 1 THEN 1 ELSE 0)

Blank == " "

LEMMA RubbedIs ==
  ASSUME NEW s \in Screens, NEW x \in Columns, NEW y \in Rows, NEW t \in Screens, NEW up \in {0, 1},
         up = 1 <=> x = VGA_WIDTH - 1 /\ y = VGA_HEIGHT - 1,
         \A i \in Columns, j \in Rows : j + up \in Rows =>
            /\ j + up = y /\ i = x => t[j][i] = Blank
            /\ ~ (j + up = y /\ i = x) => t[j][i] = s[j + up][i]
  PROVE  Rubbed(ConsoleAt(s, x, y), ConsoleAt(t, x, y - up))
<1> DEFINE c == ConsoleAt(s, x, y)
           d == ConsoleAt(t, x, y - up)
<1>1. c.screen = s /\ c.x = x /\ c.y = y /\ d.screen = t /\ d.x = x /\ d.y = y - up
  <2>1. c.screen = s /\ c.x = x /\ c.y = y
    BY ConsoleFields, SMTT(30)
  <2>2. PICK z : z = y - up
    BY ZenonT(40)
  <2>3. ConsoleAt(t, x, z).screen = t /\ ConsoleAt(t, x, z).x = x /\ ConsoleAt(t, x, z).y = z
    BY ConsoleFields, SMTT(40)
  <2> QED
    BY <2>1, <2>2, <2>3, ZenonT(40)
<1> HIDE DEF c, d
<1>2. up = IF c.x = VGA_WIDTH - 1 /\ c.y = VGA_HEIGHT - 1 THEN 1 ELSE 0
  BY <1>1, Zenon
<1>3. \A j \in Rows, i \in Columns :
        j + up \in Rows => d.screen[j][i] = IF j + up = c.y /\ i = c.x THEN " "
                                            ELSE c.screen[j + up][i]
  <2> TAKE j \in Rows, i \in Columns
  <2> HAVE j + up \in Rows
  <2>1. CASE j + up = c.y /\ i = c.x
    BY <1>1, <2>1, Zenon DEF Blank
  <2>2. CASE ~ (j + up = c.y /\ i = c.x)
    BY <1>1, <2>2, Zenon
  <2> QED
    BY <2>1, <2>2, ZenonT(40)
<1>4. Rubbed(c, d)
  <2>1. RubbedBy(c, d, up)
    BY <1>1, <1>3, ZenonT(40) DEF RubbedBy
  <2> QED
    BY <1>2, <2>1, Zenon DEF Rubbed
<1> QED
  BY <1>4, Zenon DEF c, d

LEMMA PutThenBackspace ==
  ASSUME NEW c \in Consoles, NEW b \in Bytes, b # "nl"
  PROVE  Rubbed(c, backspace(write_byte(c, b)))
<1>1. PICK s \in Screens, x \in Columns, y \in Rows : c = ConsoleAt(s, x, y)
  BY ConsoleParts, Zenon
<1>2. write_byte(c, b) = put_char(ConsoleAt(s, x, y), b)
  BY <1>1, Zenon DEF write_byte
<1>3. PICK w : w = Written(s, x, y, b)
  BY Zenon
<1>4. b \in Cells /\ " " \in Cells
  BY Zenon DEF Cells
<1>5. w \in Screens /\ Scrolled(w) \in Screens
  BY <1>3, <1>4, ScreenTypes, Zenon
<1>6. \A i \in Columns, j \in Rows : ~ (j = y /\ i = x) => w[j][i] = s[j][i]
  <2>1. Differs(w, s, x, y, b)
    BY <1>3, CellsOf, Zenon
  <2> QED
    BY <2>1, Zenon DEF Differs
<1>7. PICK e : e = put_char(ConsoleAt(s, x, y), b)
  BY ZenonT(40)
<1>8. /\ x = VGA_WIDTH - 1 => e = newline(ConsoleAt(w, x + 1, y))
      /\ x # VGA_WIDTH - 1 => e = ConsoleAt(w, x + 1, y)
  BY <1>3, <1>7, PutCharIs, SMTT(40)
<1>9. CASE ~ (x = VGA_WIDTH - 1 /\ y = VGA_HEIGHT - 1)
  <2>1. backspace(e) = ConsoleAt(Written(w, x, y, " "), x, y)
    <3>1. CASE x # VGA_WIDTH - 1
      <4> DEFINE a == x + 1
      <4>1. a \in Columns /\ a = x + 1 /\ a # 0 /\ x = a - 1
        BY <3>1 DEF Columns
      <4> HIDE DEF a
      <4>2. e = ConsoleAt(w, a, y)
        BY <1>8, <3>1, <4>1, Zenon
      <4>3. StepsBack(ConsoleAt(w, a, y), w, x, y)
        BY <4>1, BackInRow, Zenon
      <4> QED
        BY <4>2, <4>3, ZenonT(40) DEF StepsBack
    <3>2. CASE x = VGA_WIDTH - 1
      <4>1. x + 1 \in 0 .. VGA_WIDTH
        BY <3>2, SMTT(40) DEF Columns
      <4> DEFINE a == y + 1
      <4>2. a \in Rows /\ a = y + 1 /\ a # 0 /\ y = a - 1
        BY <1>9, <3>2, SMTT(40) DEF Rows
      <4> HIDE DEF a
      <4>3. newline(ConsoleAt(w, x + 1, y)) = ConsoleAt(w, 0, y + 1)
        BY <1>9, <3>2, <4>1, NewlineIs, SMTT(40)
      <4>4. StepsBack(ConsoleAt(w, 0, a), w, x, y)
        BY <3>2, <4>2, BackOverEdge, Zenon
      <4> QED
        BY <1>8, <3>2, <4>2, <4>3, <4>4, ZenonT(40) DEF StepsBack
    <3> QED
      BY <3>1, <3>2, Zenon
  <2>2. PICK t \in Screens : t = Written(w, x, y, " ")
    BY <1>4, <1>5, ScreenTypes, Zenon
  <2>3. \A i \in Columns, j \in Rows :
          /\ j = y /\ i = x => t[j][i] = " "
          /\ ~ (j = y /\ i = x) => t[j][i] = w[j][i]
    <3>1. Differs(t, w, x, y, " ")
      BY <1>5, <2>2, CellsOf, ZenonT(40)
    <3> QED
      BY <3>1, Zenon DEF Differs
  <2>4. (\A j \in Rows : j + 0 = j) /\ y - 0 = y
    BY DEF Rows
  <2>5. \A i \in Columns, j \in Rows : j + 0 \in Rows =>
          /\ j + 0 = y /\ i = x => t[j][i] = Blank
          /\ ~ (j + 0 = y /\ i = x) => t[j][i] = s[j + 0][i]
    BY <1>6, <2>3, <2>4, ZenonT(40) DEF Blank
  <2>6. Rubbed(ConsoleAt(s, x, y), ConsoleAt(t, x, y - 0))
    <3>1. 0 \in {0, 1} /\ 0 # 1
      OBVIOUS
    <3> QED
      BY <1>9, <2>5, <3>1, RubbedIs, ZenonT(40)
  <2> QED
    BY <1>1, <1>2, <1>7, <2>1, <2>2, <2>4, <2>6, ZenonT(40)
<1>10. CASE x = VGA_WIDTH - 1 /\ y = VGA_HEIGHT - 1
  <2>1. x + 1 \in 0 .. VGA_WIDTH /\ y # 0 /\ y - 1 \in Rows /\ 0 \in Columns
    BY <1>10, SMTT(40) DEF Rows, Columns
  <2>2. newline(ConsoleAt(w, x + 1, y)) = ConsoleAt(Scrolled(w), 0, y)
    BY <1>10, <2>1, NewlineIs, Zenon
  <2>3. StepsBack(ConsoleAt(Scrolled(w), 0, y), Scrolled(w), x, y - 1)
    BY <1>10, <2>1, BackOverEdge, Zenon
  <2>4. backspace(e) = ConsoleAt(Written(Scrolled(w), x, y - 1, " "), x, y - 1)
    BY <1>8, <1>10, <2>2, <2>3, ZenonT(40) DEF StepsBack
  <2>5. PICK t \in Screens : t = Written(Scrolled(w), x, y - 1, " ")
    BY <1>4, <1>5, <2>1, ScreenTypes, ZenonT(40)
  <2>6. \A i \in Columns, j \in Rows :
          /\ j = y - 1 /\ i = x => t[j][i] = " "
          /\ ~ (j = y - 1 /\ i = x) => t[j][i] = Scrolled(w)[j][i]
    <3>1. Differs(t, Scrolled(w), x, y - 1, " ")
      BY <1>5, <2>1, <2>5, CellsOf, ZenonT(40)
    <3> QED
      BY <3>1, Zenon DEF Differs
  <2>7. \A j \in Rows : j + 1 \in Rows => Scrolled(w)[j] = w[j + 1]
    BY <1>5, RowsOf, ZenonT(40)
  <2>8. \A j \in Rows : j = y - 1 <=> j + 1 = y
    BY DEF Rows
  <2>9. \A i \in Columns, j \in Rows : j + 1 \in Rows =>
          /\ j + 1 = y /\ i = x => t[j][i] = Blank
          /\ ~ (j + 1 = y /\ i = x) => t[j][i] = s[j + 1][i]
    <3> TAKE i \in Columns, j \in Rows
    <3> HAVE j + 1 \in Rows
    <3>1. CASE j + 1 = y /\ i = x
      BY <2>6, <2>8, <3>1, Zenon DEF Blank
    <3>2. CASE ~ (j + 1 = y /\ i = x)
      <4>1. t[j][i] = Scrolled(w)[j][i]
        BY <2>6, <2>8, <3>2, Zenon
      <4>2. w[j + 1][i] = s[j + 1][i]
        BY <1>6, <3>2, Zenon
      <4> QED
        BY <2>7, <3>2, <4>1, <4>2, ZenonT(40)
    <3> QED
      BY <3>1, <3>2, ZenonT(40)
  <2>10. Rubbed(ConsoleAt(s, x, y), ConsoleAt(t, x, y - 1))
    BY <1>10, <2>9, RubbedIs, ZenonT(40)
  <2> QED
    BY <1>1, <1>2, <1>7, <2>4, <2>5, <2>10, ZenonT(40)
<1> QED
  BY <1>9, <1>10, Zenon

\* A backspace right after a character erases it and nothing else, for a screen
\* of any size and a cursor anywhere.
THEOREM BackspaceIsRight == ConsoleSpec => BackspaceErases
<1>1. ASSUME ConsoleInv, [ConsoleNext]_consoleVars, last.op = "put", uart # <<>>, Last(uart) # "nl",
             last'.op = "backspace"
      PROVE  Rubbed(last.was, con')
  <2>1. PICK b \in Bytes, u \in Seq(Bytes) :
          last.was \in Consoles /\ con = write_byte(last.was, b) /\ uart = Append(u, b)
    BY <1>1, Zenon DEF ConsoleInv, AfterPut
  <2>2. b # "nl"
    <3>1. Last(uart) = b
      BY <2>1, SMTT(40) DEF Last
    <3> QED
      BY <1>1, <3>1, Zenon
  <2>3. \A op : Step(op) => op = "backspace"
    BY <1>1, StepRecord, Zenon
  <2>4. con' = backspace(con)
    <3>1. ASSUME NEW n, NEW base, write_number(n, base) PROVE FALSE
      BY <1>1, <3>1, SMTT(40) DEF write_number
    <3>2. ~ UNCHANGED consoleVars
      BY <1>1, Zenon DEF consoleVars
    <3>3. /\ \A b1 : ~ write_str_byte(b1) /\ ~ buffer_write(b1) /\ ~ put_with_attr(b1)
          /\ ~ flush_buffer /\ ~ clear_screen
          /\ \A x1, y1 : ~ set_cursor(x1, y1)
      BY <2>3, Zenon
         DEF write_str_byte, buffer_write, put_with_attr, flush_buffer, clear_screen, set_cursor
    <3>4. write_str_backspace
      BY <1>1, <3>1, <3>2, <3>3, ZenonT(40) DEF ConsoleNext
    <3> QED
      BY <3>4, Zenon DEF write_str_backspace
  <2> QED
    BY <2>1, <2>2, <2>4, PutThenBackspace, Zenon
<1>2. ASSUME ConsoleInv, [ConsoleNext]_consoleVars
      PROVE  [ last.op = "put" /\ uart # <<>> /\ Last(uart) # "nl" /\ last'.op = "backspace" =>
                 LET was == last.was
                     up == IF was.x = VGA_WIDTH - 1 /\ was.y = VGA_HEIGHT - 1 THEN 1 ELSE 0
                 IN /\ con'.x = was.x /\ con'.y = was.y - up
                    /\ \A y \in Rows, x \in Columns :
                         y + up \in Rows => con'.screen[y][x] = IF y + up = was.y /\ x = was.x THEN " "
                                                                ELSE was.screen[y + up][x]
             ]_consoleVars
  BY <1>1, <1>2, Zenon DEF Rubbed, RubbedBy
<1> QED
  BY <1>2, ConsoleInvHolds, PTL DEF ConsoleSpec, BackspaceErases


\* What ScreenShowsText needs of a state: the screen shows what was sent.
ScreenInv == moves = 0 => Shown(con, uart)

LEMMA ScreenStep ==
  ASSUME ConsoleInv, ScreenInv, [ConsoleNext]_consoleVars
  PROVE  ScreenInv'
<1>1. con \in Consoles /\ buffer \in Seq(Bytes) /\ uart \in Seq(Bytes) /\ moves \in Nat
  BY Zenon DEF ConsoleInv, ConsoleTypeOK
<1>2. Chars \subseteq Bytes /\ "nl" \in Bytes
  BY Zenon DEF Bytes
<1>3. moves + 1 # 0
  BY <1>1
<1>4. ASSUME moves' = moves + 1 PROVE ScreenInv'
  BY <1>3, <1>4, ZenonT(40) DEF ScreenInv
<1>5. ASSUME moves' = moves, con' = con, uart' = uart PROVE ScreenInv'
  BY <1>5, Zenon DEF ScreenInv
<1>6. ASSUME NEW bytes \in Seq(Bytes), moves' = moves,
             con' = WriteBytes(con, bytes), uart' = uart \o bytes
      PROVE  ScreenInv'
  <2>1. moves = 0 => Shown(WriteBytes(con, bytes), uart \o bytes)
    BY <1>1, ShownBytes, Zenon DEF ScreenInv
  <2> QED
    BY <1>6, <2>1, Zenon DEF ScreenInv
<1>7. ASSUME NEW b \in Chars \cup {"nl"}, write_str_byte(b) PROVE ScreenInv'
  <2>1. b \in Bytes
    BY <1>2, Zenon
  <2>2. con' = write_byte(con, b) /\ uart' = Append(uart, b) /\ moves' = moves
    BY <1>7, Zenon DEF write_str_byte
  <2>3. moves = 0 => Shown(write_byte(con, b), Append(uart, b))
    BY <1>1, <2>1, ShownByte, ZenonT(40) DEF ScreenInv
  <2> QED
    BY <2>2, <2>3, ZenonT(40) DEF ScreenInv
<1>8. ASSUME NEW b, buffer_write(b) PROVE ScreenInv'
  <2>1. CASE Len(buffer) < BufLen
    BY <1>5, <1>8, <2>1, ZenonT(40) DEF buffer_write
  <2>2. CASE ~ (Len(buffer) < BufLen)
    BY <1>1, <1>6, <1>8, <2>2, ZenonT(40) DEF buffer_write
  <2> QED
    BY <2>1, <2>2, Zenon
<1>9. ASSUME NEW n \in Numbers, NEW base \in {2, 8, 10}, write_number(n, base) PROVE ScreenInv'
  <2>1. n \in Nat /\ base \in Bases
    BY Zenon DEF Bases
  <2>2. Digits(n, base) \in Seq(Bytes)
    BY <2>1, DigitsType, Zenon
  <2> QED
    BY <1>6, <1>9, <2>2, ZenonT(40) DEF write_number
<1>10. ASSUME flush_buffer PROVE ScreenInv'
  BY <1>1, <1>6, <1>10, Zenon DEF flush_buffer
<1>11. ASSUME NEW c, put_with_attr(c) PROVE ScreenInv'
  BY <1>4, <1>11, Zenon DEF put_with_attr, Move
<1>12. ASSUME NEW x, NEW y, set_cursor(x, y) PROVE ScreenInv'
  BY <1>4, <1>12, Zenon DEF set_cursor, Move
<1>13. ASSUME write_str_backspace \/ clear_screen PROVE ScreenInv'
  BY <1>4, <1>13, Zenon DEF write_str_backspace, clear_screen, Move
<1>14. ASSUME UNCHANGED consoleVars PROVE ScreenInv'
  <2>1. moves' = moves /\ con' = con /\ uart' = uart
    BY <1>14, Zenon DEF consoleVars
  <2> QED
    BY <1>5, <2>1, ZenonT(40)
<1> QED
  BY <1>7, <1>8, <1>9, <1>10, <1>11, <1>12, <1>13, <1>14, ZenonT(40) DEF ConsoleNext

\* As long as no one moves the cursor, erases or clears, the screen shows the
\* last rows of the text sent so far, for a screen of any size, any text and
\* any use of the buffer.
THEOREM ScreenIsRight == ConsoleSpec => []ScreenShowsText
<1>1. ConsoleInit => ScreenInv
  BY ShownFirst, Zenon DEF ConsoleInit, ScreenInv
<1>2. ConsoleInv /\ ScreenInv /\ [ConsoleNext]_consoleVars => ScreenInv'
  BY ScreenStep, Zenon
<1>3. ConsoleInv /\ ScreenInv => ScreenShowsText
  BY ShownIs, Zenon DEF ConsoleInv, ConsoleTypeOK, ScreenInv
<1> QED
  BY <1>1, <1>2, <1>3, ConsoleInvHolds, PTL DEF ConsoleSpec
=============================================================================
