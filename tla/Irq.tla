--------------------------------- MODULE Irq ---------------------------------
(***************************************************************************)
(* Hardware interrupts: the two 8259 controllers, the gates they lead to   *)
(* (arch/idt.rs), handle_irq and what it calls, and kernel code that       *)
(* changes masks and handlers, between local_irq_save and                  *)
(* local_irq_restore or with interrupts on (irq/handler.rs).               *)
(*                                                                         *)
(* The controllers are external.  A line of the second controller, 8 .. 15,*)
(* is seen by the first one as its line 2.  An EOI command names no line:  *)
(* it ends the service of the highest-priority line in service.            *)
(***************************************************************************)
EXTENDS Integers, FiniteSetsExt, SequenceEnds

CONSTANTS
  Lines,            \* the lines devices are wired to, a subset of 0 .. 15
  Registered,       \* those among them that drivers register handlers for
  MaxRaises,        \* how often each device raises its line
  MaxSaves          \* nesting of local_irq_save

ASSUME IrqAssumption ==
  /\ Lines \subseteq (0 .. 15) \ {2} /\ Registered \subseteq Lines
  /\ MaxRaises \in Nat /\ MaxSaves \in Nat

VARIABLES
  IF_,              \* the interrupt flag
  irr, isr, imr,    \* lines requested, in service, masked
  raises,           \* requests made so far by each device
  IRQ_ENABLED,      \* what is_irq_enabled reports
  IRQ_COUNTS,       \* interrupts handled on each line
  HANDLERS,         \* "none", or what the registered handler does
  stack,            \* handlers running, the innermost last: line, step, flag
  saved,            \* flags held by kernel code between save and restore
  mask_op           \* mask_irq or unmask_irq between its inb and its outb

irqVars == <<IF_, irr, isr, imr, raises, IRQ_ENABLED, IRQ_COUNTS, HANDLERS, stack,
             saved, mask_op>>

Cascade == 2
NoOp == [line |-> -1]
Handlers == {"none", "quiet", "masking"}

\* The lines whose mask bit is in the same register.
Register(line) == IF line < 8 THEN 0 .. 7 ELSE 8 .. 15
Controllers == 0 .. 15

-----------------------------------------------------------------------------
\* The attribute byte of a gate; its low four bits are the type.
InterruptGate == 14
TrapGate == 15
GateType(attr) == attr % 16

\* Faulty variant: every gate is a trap gate.
SetGateTrap(gate_type, dpl) == 239

\* set_gate: the byte is one of two constants; dpl is not used.
set_gate(gate_type, dpl) == IF gate_type = TrapGate THEN 239 ELSE 142

\* The gate of each line.
install_irq_handler == set_gate(InterruptGate, 0)

-----------------------------------------------------------------------------
\* External: the 8259 pair in fully nested mode.
Clear(lines) == \A b \in lines : b \notin isr
Deliverable(l) ==
  /\ l \in irr \ imr
  /\ IF l < 8 THEN Clear(0 .. l)
              ELSE Clear(8 .. l) /\ Clear(0 .. Cascade) /\ Cascade \notin imr
Priority(l) == IF l < 8 THEN l * 16 ELSE Cascade * 16 + l
Eoi(service, controller) ==
  LET busy == service \cap Register(controller)
  IN IF busy = {} THEN service ELSE service \ {Min(busy)}

Raise(l) ==
  /\ raises[l] < MaxRaises
  /\ raises' = [raises EXCEPT ![l] = @ + 1]
  /\ irr' = irr \cup {l}
  /\ UNCHANGED <<IF_, isr, imr, IRQ_ENABLED, IRQ_COUNTS, HANDLERS, stack, saved, mask_op>>

\* The processor takes the interrupt: an interrupt gate clears the flag.
Accept(l) ==
  /\ IF_ /\ Deliverable(l)
  /\ \A k \in Lines \ {l} : Deliverable(k) => Priority(l) < Priority(k)
  /\ irr' = irr \ {l}
  /\ isr' = isr \cup {l} \cup (IF l < 8 THEN {} ELSE {Cascade})
  /\ stack' = Append(stack, [line |-> l, pc |-> "handler", flag |-> IF_])
  /\ IF_' = (GateType(install_irq_handler) = TrapGate)
  /\ UNCHANGED <<imr, raises, IRQ_ENABLED, IRQ_COUNTS, HANDLERS, saved, mask_op>>

-----------------------------------------------------------------------------
Running(pc) == stack # <<>> /\ stack[Len(stack)].pc = pc
CurrentLine == stack[Len(stack)].line
Goto(pc) == stack' = [stack EXCEPT ![Len(stack)].pc = pc]

\* The handlers of the known lines acknowledge too: all of them at the first
\* controller, and the mouse at the second as well.
default_irq_handler(service, irq) ==
  LET first == Eoi(service, 0) IN IF irq = 44 THEN Eoi(first, 8) ELSE first

\* Faulty variant: line 8 is taken for one of the first controller.
EoiIrqOffByOne(service, irq) ==
  Eoi(IF irq > 40 THEN Eoi(service, 8) ELSE service, 0)

eoi_irq(service, irq) ==
  Eoi(IF irq >= 40 THEN Eoi(service, 8) ELSE service, 0)

\* handle_irq up to the return of the handler.  A registered handler either
\* leaves everything alone or masks its line with disable_irq.
CallHandler ==
  /\ Running("handler")
  /\ LET l == CurrentLine
         h == HANDLERS[l]
     IN /\ isr' = IF h = "none" THEN default_irq_handler(isr, l + 32) ELSE isr
        /\ imr' = IF h = "masking" THEN imr \cup {l} ELSE imr
  /\ IRQ_COUNTS' = [IRQ_COUNTS EXCEPT ![CurrentLine] = @ + 1]
  /\ Goto("eoi")
  /\ UNCHANGED <<IF_, irr, raises, IRQ_ENABLED, HANDLERS, saved, mask_op>>

\* The end of handle_irq.
Acknowledge ==
  /\ Running("eoi")
  /\ isr' = eoi_irq(isr, CurrentLine + 32)
  /\ Goto("iret")
  /\ UNCHANGED <<IF_, irr, imr, raises, IRQ_ENABLED, IRQ_COUNTS, HANDLERS, saved, mask_op>>

Iret ==
  /\ Running("iret")
  /\ IF_' = stack[Len(stack)].flag
  /\ stack' = Front(stack)
  /\ UNCHANGED <<irr, isr, imr, raises, IRQ_ENABLED, IRQ_COUNTS, HANDLERS, saved, mask_op>>

-----------------------------------------------------------------------------
\* Kernel code below the handlers.
InKernel == stack = <<>>
AtLeisure == InKernel /\ saved = <<>> /\ mask_op = NoOp

install_handlers ==
  /\ AtLeisure
  /\ imr' = {}
  /\ IRQ_ENABLED' = TRUE /\ IF_' = TRUE
  /\ UNCHANGED <<irr, isr, raises, IRQ_COUNTS, HANDLERS, stack, saved, mask_op>>

\* Called with no flags saved: restoring them would enable interrupts again.
disable_irq_global ==
  /\ AtLeisure /\ IRQ_ENABLED
  /\ IF_' = FALSE /\ IRQ_ENABLED' = FALSE
  /\ UNCHANGED <<irr, isr, imr, raises, IRQ_COUNTS, HANDLERS, stack, saved, mask_op>>

enable_irq_global ==
  /\ AtLeisure /\ ~ IRQ_ENABLED
  /\ IRQ_ENABLED' = TRUE /\ IF_' = TRUE
  /\ UNCHANGED <<irr, isr, imr, raises, IRQ_COUNTS, HANDLERS, stack, saved, mask_op>>

\* Faulty variant: the flags are saved but interrupts stay on.
SaveWithoutCli ==
  /\ InKernel /\ mask_op = NoOp /\ Len(saved) < MaxSaves
  /\ saved' = Append(saved, IF_)
  /\ UNCHANGED <<IF_, irr, isr, imr, raises, IRQ_ENABLED, IRQ_COUNTS, HANDLERS, stack, mask_op>>

local_irq_save ==
  /\ InKernel /\ mask_op = NoOp /\ Len(saved) < MaxSaves
  /\ saved' = Append(saved, IF_)
  /\ IF_' = FALSE
  /\ UNCHANGED <<irr, isr, imr, raises, IRQ_ENABLED, IRQ_COUNTS, HANDLERS, stack, mask_op>>

\* Faulty variant: the saved flags are not looked at.
RestoreAlwaysSti ==
  /\ InKernel /\ mask_op = NoOp /\ saved # <<>>
  /\ IF_' = TRUE
  /\ saved' = Front(saved)
  /\ UNCHANGED <<irr, isr, imr, raises, IRQ_ENABLED, IRQ_COUNTS, HANDLERS, stack, mask_op>>

local_irq_restore ==
  /\ InKernel /\ mask_op = NoOp /\ saved # <<>>
  /\ IF_' = (IF_ \/ saved[Len(saved)])
  /\ saved' = Front(saved)
  /\ UNCHANGED <<irr, isr, imr, raises, IRQ_ENABLED, IRQ_COUNTS, HANDLERS, stack, mask_op>>

\* mask_irq (on) and unmask_irq read the register, then write it back whole.
\* Nothing makes their callers turn interrupts off first.
ReadMask(line, on) ==
  /\ InKernel /\ mask_op = NoOp
  /\ mask_op' = [line |-> line, on |-> on, read |-> imr \cap Register(line)]
  /\ UNCHANGED <<IF_, irr, isr, imr, raises, IRQ_ENABLED, IRQ_COUNTS, HANDLERS, stack, saved>>

WriteMask ==
  /\ InKernel /\ mask_op # NoOp
  /\ LET l == mask_op.line
         value == IF mask_op.on THEN mask_op.read \cup {l} ELSE mask_op.read \ {l}
     IN imr' = (imr \ Register(l)) \cup value
  /\ mask_op' = NoOp
  /\ UNCHANGED <<IF_, irr, isr, raises, IRQ_ENABLED, IRQ_COUNTS, HANDLERS, stack, saved>>

\* register_handler and unregister_handler.
SetHandler(line, h) ==
  /\ InKernel /\ mask_op = NoOp /\ HANDLERS[line] # h
  /\ HANDLERS' = [HANDLERS EXCEPT ![line] = h]
  /\ UNCHANGED <<IF_, irr, isr, imr, raises, IRQ_ENABLED, IRQ_COUNTS, stack, saved, mask_op>>

-----------------------------------------------------------------------------
\* After setup_irq_controller (the keyboard alone unmasked), and with a gate
\* from install_irq_handler for every line.
setup_irq_controller == imr = Controllers \ {1}

Init ==
  /\ setup_irq_controller
  /\ IF_ = FALSE /\ IRQ_ENABLED = FALSE /\ irr = {} /\ isr = {}
  /\ raises = [l \in Lines |-> 0]
  /\ IRQ_COUNTS = [l \in Lines |-> 0]
  /\ HANDLERS = [l \in Lines |-> "none"]
  /\ stack = <<>> /\ saved = <<>> /\ mask_op = NoOp

Next ==
  \/ \E l \in Lines : Raise(l) \/ Accept(l)
  \/ CallHandler \/ Acknowledge \/ Iret
  \/ install_handlers \/ disable_irq_global \/ enable_irq_global
  \/ local_irq_save \/ local_irq_restore \/ WriteMask
  \/ \E l \in Lines, on \in BOOLEAN : ReadMask(l, on)
  \/ \E l \in Registered, h \in Handlers : SetHandler(l, h)

\* The processor runs the handlers and what is below them, and takes a
\* pending interrupt at one of the instruction boundaries it passes with the
\* flag set.  Code that saved the flags restores them, to the outermost save,
\* and where interrupts are off globally somebody turns them on again, for the
\* first time in install_handlers.  Devices need not raise anything.
Fairness ==
  /\ SF_irqVars(\E l \in Lines : Accept(l))
  /\ WF_irqVars(CallHandler \/ Acknowledge \/ Iret) /\ WF_irqVars(WriteMask)
  /\ SF_irqVars(local_irq_restore)
  /\ SF_irqVars(Len(saved) = 1 /\ local_irq_restore)
  /\ SF_irqVars(install_handlers \/ enable_irq_global)

Spec == Init /\ [][Next]_irqVars /\ Fairness

-----------------------------------------------------------------------------

\* handle_irq acknowledges up to twice, once in the handler of the line and
\* once at its end.  None of these EOIs ends the service of another line:
\* what leaves the in-service registers is the line being handled, or the
\* cascade when that line is on the second controller.  It takes interrupt
\* gates: with a handler interrupted by another, the second EOI of the inner
\* one would end the service of the outer one.
EoiEndsOwnService ==
  [][\A b \in isr \ isr' :
       stack # <<>> /\ (b = CurrentLine \/ (b = Cascade /\ CurrentLine >= 8))]_irqVars

\* A mask bit changes only because kernel code asked for that very line, its
\* handler masked it, or install_handlers opened all of them; or mask_irq or
\* unmask_irq was called with interrupts on.  In that case alone the
\* read-modify-write of a mask register can undo what a handler did between
\* its two halves: local_irq_save around the call is enough to prevent it.
MasksChangeOnRequest ==
  [][\A l \in Controllers :
       (l \in imr) # (l \in imr') =>
          \/ mask_op.line = l
          \/ stack # <<>> /\ CurrentLine = l
          \/ install_handlers
          \/ IF_ /\ saved = <<>>]_irqVars

\* From local_irq_save to the local_irq_restore that matches it, however deep
\* in other pairs, interrupts stay off.
SavedFlagsNest == saved # <<>> => ~ IF_ /\ InKernel

\* A request is taken unless its line, or the cascade it comes through, is
\* masked; no request waits for ever behind a controller that believes an
\* earlier one is still served.
RequestIsTaken ==
  \A l \in Lines :
    l \in irr ~> (l \notin irr \/ l \in imr \/ (l >= 8 /\ Cascade \in imr))
=============================================================================
